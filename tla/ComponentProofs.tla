--------------------------- MODULE ComponentProofs ---------------------------
(***************************************************************************)
(* Proofs about components that are modelled each by itself, for all       *)
(* values of their constants: the cancellation of a model stream, the      *)
(* framing of a local link, the launch of the daemon, the detection of     *)
(* pastes, the command tool, the daemon's connections and its database,    *)
(* the context of a run, and the translation of a response.                *)
(* A section is of one component; the names below are the constants and    *)
(* variables of each component's module, and mean nothing across           *)
(* components.  The theorems at the end are of a behaviour of any of them. *)
(***************************************************************************)
EXTENDS Components, DataLemmas

(* The names the modules of these components give to their variables and        *)
(* constants: the proofs use them, and see what they stand for.               *)

\* CancelSignal
Cancellers == Clients
pc == x1
waiters == x2
cancelled == x3
context == x4
polls == x5
canceller == x6
waking == x7
notified == x8
USE DEF Cancellers, pc, waiters, cancelled, context, polls, canceller, waking, notified

\* LineFraming
sent == x1
writing == x2
open == x3
wire == x4
residual == x5
reading == x6
received == x7
failure == x8
USE DEF sent, writing, open, wire, residual, reading, received, failure

\* Bootstrap
at == x1
tries == x2
link == x3
lock == x4
stage == x5
path == x6
seen == x7
raced == x8
USE DEF at, tries, link, lock, stage, path, seen, raced

\* HostConnection
Connections == Links
phase == x1
read == x2
asked == x3
outcome == x4
guard == x5
queue == x6
out == x7
answered == x8
closing == x9
registry == x10
frames == x11
USE DEF Connections, phase, read, asked, outcome, guard, queue, out, answered, closing, registry, frames

\* PasteDetector
text == x1
alone == x2
confirmed == x3
held == x4
age == x5
line == x6
pressed == x7
USE DEF text, alone, confirmed, held, age, line, pressed

\* CommandExecution
declared == x2
late == x4
holds == x5
alive == x6
written == x7
joined == x8
kept == x9
cut == x10
reader == x11
consumed == x12
observed == x13
over == x14
cause == x15
result == x16
USE DEF declared, late, holds, alive, written, joined, kept, cut, reader, consumed, observed, over, cause, result

\* Catalog
Roots == Sessions
Sizes == RowSizes
starts == x2
selected == x3
file == x4
journal == x1
gate == x6
call == x7
rootOf == x9
answer == x10
USE DEF Roots, Sizes, starts, selected, file, journal, gate, call, rootOf, answer

-----------------------------------------------------------------------------
(* A cancellation wakes every sleeper.                                     *)

\* A call that took the wakers has the one of the future's last poll in hand.
Held(f) ==
  \E c \in Cancellers : canceller[c] = "wake" /\ waking[c][f] = context[f]

\* A future that registered and polls again or sleeps is still registered with
\* the waker of its last poll, or that waker was taken, or has woken the poll.
RegisteredInv ==
  \A f \in Futures :
    pc[f] \in {"recheck", "parked"} =>
      \/ waiters[f] = context[f]
      \/ Held(f)
      \/ pc[f] = "recheck" /\ notified[f]

CancelInv == C!TypeOK /\ RegisteredInv /\ C!CancelWakesEverySleeper

LEMMA CancelInit == ASSUME C!CancelSignalAssumption, C!Init PROVE CancelInv
<1>1. C!None \in [Futures -> Wakers \cup {NoWaker}]  BY DEF C!None
<1>2. C!TypeOK
  <2>1. [f \in Futures |-> 0] \in [Futures -> 0 .. MaxPolls]
    BY DEF C!CancelSignalAssumption
  <2>2. \A f \in Futures : pc[f] = "idle"  BY DEF C!Init
  <2>3. \A c \in Cancellers : waking[c] = C!None  BY DEF C!Init
  <2>4. [c \in Cancellers |-> C!None] \in [Cancellers -> [Futures -> Wakers \cup {NoWaker}]]
    BY <1>1
  <2>5. QED
    BY <1>1, <2>1, <2>2, <2>3, <2>4 DEF C!Init, C!TypeOK
<1>3. RegisteredInv /\ C!CancelWakesEverySleeper
  BY DEF C!Init, RegisteredInv, C!CancelWakesEverySleeper
<1>4. QED BY <1>2, <1>3 DEF CancelInv

LEMMA CancelTypeStep ==
  ASSUME C!CancelSignalAssumption, C!TypeOK, [C!Next]_(C!vars)
  PROVE  C!TypeOK'
<1>1. C!None \in [Futures -> Wakers \cup {NoWaker}]  BY DEF C!None
<1>2. ASSUME NEW f \in Futures, NEW w \in Wakers, C!Poll(f, w) PROVE C!TypeOK'
  <2>1. polls' \in [Futures -> 0 .. MaxPolls]
    BY <1>2 DEF C!Poll, C!TypeOK, C!CancelSignalAssumption
  <2>2. QED BY <1>2, <2>1 DEF C!Poll, C!TypeOK
<1>3. ASSUME NEW f \in Futures, C!Register(f) PROVE C!TypeOK'
  BY <1>3 DEF C!Register, C!At, C!ReplaceWaiter, C!TypeOK
<1>4. ASSUME NEW f \in Futures, C!Recheck(f) PROVE C!TypeOK'
  BY <1>4 DEF C!Recheck, C!At, C!TypeOK
<1>5. ASSUME NEW f \in Futures, C!DropFuture(f) PROVE C!TypeOK'
  BY <1>5 DEF C!DropFuture, C!TypeOK
<1>6. ASSUME NEW c \in Cancellers, C!Swap(c) PROVE C!TypeOK'
  BY <1>6 DEF C!Swap, C!TypeOK
<1>7. ASSUME NEW c \in Cancellers, C!Take(c) PROVE C!TypeOK'
  BY <1>1, <1>7 DEF C!Take, C!TypeOK
<1>8. ASSUME NEW c \in Cancellers, NEW f \in Futures, C!Wake(c, f) PROVE C!TypeOK'
  BY <1>8 DEF C!Wake, C!TypeOK
<1>9. ASSUME NEW c \in Cancellers, C!Returned(c) PROVE C!TypeOK'
  BY <1>9 DEF C!Returned, C!TypeOK
<1>10. CASE C!Reset
  BY <1>10 DEF C!Reset, C!TypeOK
<1>11. CASE UNCHANGED C!vars
  BY <1>11 DEF C!vars, C!TypeOK, C!None
<1>12. QED
  BY <1>2, <1>3, <1>4, <1>5, <1>6, <1>7, <1>8, <1>9, <1>10, <1>11 DEF C!Next

LEMMA CancelRegisteredStep ==
  ASSUME C!CancelSignalAssumption, C!TypeOK, RegisteredInv, [C!Next]_(C!vars)
  PROVE  RegisteredInv'
<1>1. ASSUME NEW g \in Futures, NEW w \in Wakers, C!Poll(g, w) PROVE RegisteredInv'
  <2>. SUFFICES ASSUME NEW f \in Futures, pc'[f] \in {"recheck", "parked"}
                PROVE  \/ waiters'[f] = context'[f]
                       \/ Held(f)'
                       \/ pc'[f] = "recheck" /\ notified'[f]
    BY DEF RegisteredInv
  <2>1. f # g  BY <1>1 DEF C!Poll, C!TypeOK
  <2>2. QED  BY <1>1, <2>1 DEF C!Poll, C!TypeOK, RegisteredInv, Held
<1>2. ASSUME NEW g \in Futures, C!Register(g) PROVE RegisteredInv'
  BY <1>2 DEF C!Register, C!At, C!ReplaceWaiter, C!TypeOK, RegisteredInv, Held
<1>3. ASSUME NEW g \in Futures, C!Recheck(g) PROVE RegisteredInv'
  BY <1>3 DEF C!Recheck, C!At, C!TypeOK, RegisteredInv, Held
<1>4. ASSUME NEW g \in Futures, C!DropFuture(g) PROVE RegisteredInv'
  BY <1>4 DEF C!DropFuture, C!TypeOK, RegisteredInv, Held
<1>5. ASSUME NEW c \in Cancellers, C!Swap(c) PROVE RegisteredInv'
  BY <1>5 DEF C!Swap, C!TypeOK, RegisteredInv, Held
<1>6. ASSUME NEW c \in Cancellers, C!Take(c) PROVE RegisteredInv'
  <2>. SUFFICES ASSUME NEW f \in Futures, pc[f] \in {"recheck", "parked"}
                PROVE  Held(f)' \/ (pc[f] = "recheck" /\ notified[f])
    BY <1>6 DEF C!Take, RegisteredInv
  <2>1. CASE waiters[f] = context[f]
    BY <1>6, <2>1 DEF C!Take, C!TypeOK, Held
  <2>2. CASE Held(f)
    BY <1>6, <2>2 DEF C!Take, C!TypeOK, Held
  <2>3. QED  BY <2>1, <2>2 DEF RegisteredInv
<1>7. ASSUME NEW c \in Cancellers, NEW g \in Futures, C!Wake(c, g) PROVE RegisteredInv'
  <2>. SUFFICES ASSUME NEW f \in Futures, pc'[f] \in {"recheck", "parked"}
                PROVE  \/ waiters'[f] = context'[f]
                       \/ Held(f)'
                       \/ pc'[f] = "recheck" /\ notified'[f]
    BY DEF RegisteredInv
  <2>1. pc[f] = pc'[f] /\ (f = g /\ pc[f] = "parked" => waking[c][g] # context[g])
    BY <1>7 DEF C!Wake, C!TypeOK
  <2>2. CASE f # g
    BY <1>7, <2>1, <2>2 DEF C!Wake, C!TypeOK, RegisteredInv, Held
  <2>3. CASE f = g /\ waking[c][g] = context[g]
    BY <1>7, <2>1, <2>3 DEF C!Wake, C!TypeOK
  <2>4. CASE f = g /\ waking[c][g] # context[g]
    <3>1. Held(f) => Held(f)'
      BY <1>7, <2>4 DEF C!Wake, C!TypeOK, Held
    <3>2. QED  BY <1>7, <2>1, <2>4, <3>1 DEF C!Wake, C!TypeOK, RegisteredInv
  <2>5. QED  BY <2>2, <2>3, <2>4
<1>8. ASSUME NEW c \in Cancellers, C!Returned(c) PROVE RegisteredInv'
  <2>1. \A f \in Futures : waking[c][f] = NoWaker
    BY <1>8 DEF C!Returned, C!None
  <2>2. \A f \in Futures : pc[f] # "idle" => context[f] # NoWaker
    BY DEF C!TypeOK, C!CancelSignalAssumption
  <2>3. QED  BY <1>8, <2>1, <2>2 DEF C!Returned, C!TypeOK, RegisteredInv, Held
<1>9. CASE C!Reset
  BY <1>9 DEF C!Reset, RegisteredInv, Held
<1>10. CASE UNCHANGED C!vars
  BY <1>10 DEF C!vars, RegisteredInv, Held
<1>11. QED
  BY <1>1, <1>2, <1>3, <1>4, <1>5, <1>6, <1>7, <1>8, <1>9, <1>10 DEF C!Next

\* The swap finds every sleeper registered or its waker taken, and from there on
\* a call that raised the flag keeps each waker until it has woken its task.
LEMMA CancelWakesStep ==
  ASSUME C!CancelSignalAssumption, CancelInv, [C!Next]_(C!vars)
  PROVE  C!CancelWakesEverySleeper'
<1>. DEFINE Safe(f) == \E c \in Cancellers :
                         \/ canceller[c] = "wake" /\ waking[c][f] = context[f]
                         \/ canceller[c] = "take" /\ waiters[f] = context[f]
<1>. SUFFICES ASSUME cancelled', NEW f \in Futures, pc'[f] = "parked"
              PROVE  Safe(f)'
  BY DEF C!CancelWakesEverySleeper
<1>. USE DEF CancelInv
<1>1. cancelled /\ pc[f] = "parked" => Safe(f)
  BY DEF C!CancelWakesEverySleeper
<1>2. ASSUME NEW g \in Futures, NEW w \in Wakers, C!Poll(g, w) PROVE Safe(f)'
  <2>1. f # g  BY <1>2 DEF C!Poll, C!TypeOK
  <2>2. QED  BY <1>1, <1>2, <2>1 DEF C!Poll, C!TypeOK
<1>3. ASSUME NEW g \in Futures, C!Register(g) PROVE Safe(f)'
  <2>1. f # g  BY <1>3 DEF C!Register, C!At, C!TypeOK
  <2>2. QED  BY <1>1, <1>3, <2>1 DEF C!Register, C!At, C!TypeOK
<1>4. ASSUME NEW g \in Futures, C!Recheck(g) PROVE Safe(f)'
  <2>1. f # g  BY <1>4 DEF C!Recheck, C!At, C!ReadyAfterRegistration, C!TypeOK
  <2>2. QED  BY <1>1, <1>4, <2>1 DEF C!Recheck, C!At, C!TypeOK
<1>5. ASSUME NEW g \in Futures, C!DropFuture(g) PROVE Safe(f)'
  <2>1. f # g  BY <1>5 DEF C!DropFuture, C!TypeOK
  <2>2. QED  BY <1>1, <1>5, <2>1 DEF C!DropFuture, C!TypeOK
<1>6. ASSUME NEW d \in Cancellers, C!Swap(d) PROVE Safe(f)'
  <2>1. CASE cancelled
    BY <1>1, <1>6, <2>1 DEF C!Swap, C!TypeOK
  <2>2. CASE ~cancelled
    <3>1. waiters[f] = context[f] \/ Held(f)
      BY <1>6 DEF C!Swap, RegisteredInv
    <3>2. QED  BY <1>6, <2>2, <3>1 DEF C!Swap, C!TypeOK, Held
  <2>3. QED  BY <2>1, <2>2
<1>7. ASSUME NEW d \in Cancellers, C!Take(d) PROVE Safe(f)'
  <2>1. Safe(f)  BY <1>1, <1>7 DEF C!Take
  <2>2. PICK c \in Cancellers :
               \/ canceller[c] = "wake" /\ waking[c][f] = context[f]
               \/ canceller[c] = "take" /\ waiters[f] = context[f]
    BY <2>1
  <2>3. CASE canceller[c] = "wake" /\ waking[c][f] = context[f]
    BY <1>7, <2>3 DEF C!Take, C!TypeOK
  <2>4. CASE waiters[f] = context[f]
    BY <1>7, <2>4 DEF C!Take, C!TypeOK
  <2>5. QED  BY <2>2, <2>3, <2>4
<1>8. ASSUME NEW d \in Cancellers, NEW g \in Futures, C!Wake(d, g) PROVE Safe(f)'
  <2>1. pc[f] = "parked" /\ (f = g => waking[d][g] # context[g])
    BY <1>8 DEF C!Wake, C!TypeOK
  <2>2. QED  BY <1>1, <1>8, <2>1 DEF C!Wake, C!TypeOK
<1>9. ASSUME NEW d \in Cancellers, C!Returned(d) PROVE Safe(f)'
  <2>1. waking[d][f] = NoWaker  BY <1>9 DEF C!Returned, C!None
  <2>2. pc[f] = "parked" /\ context[f] # NoWaker
    BY <1>9 DEF C!Returned, C!TypeOK, C!CancelSignalAssumption
  <2>3. QED  BY <1>1, <1>9, <2>1, <2>2 DEF C!Returned, C!TypeOK
<1>10. CASE C!Reset
  BY <1>10 DEF C!Reset
<1>11. CASE UNCHANGED C!vars
  BY <1>1, <1>11 DEF C!vars
<1>12. QED
  BY <1>2, <1>3, <1>4, <1>5, <1>6, <1>7, <1>8, <1>9, <1>10, <1>11 DEF C!Next

-----------------------------------------------------------------------------
(* Lines arrive whole.                                                     *)

\* A sequence of bytes cut anywhere is its two parts.
LEMMA CutSequence ==
  ASSUME NEW S, NEW s \in Seq(S), NEW n \in 0 .. Len(s)
  PROVE  /\ SubSeq(s, 1, n) \in Seq(S) /\ SubSeq(s, n + 1, Len(s)) \in Seq(S)
         /\ Len(SubSeq(s, 1, n)) = n /\ Len(SubSeq(s, n + 1, Len(s))) = Len(s) - n
         /\ \A k \in 1 .. n : SubSeq(s, 1, n)[k] = s[k]
         /\ \A k \in 1 .. Len(s) - n : SubSeq(s, n + 1, Len(s))[k] = s[n + k]
         /\ SubSeq(s, 1, n) \o SubSeq(s, n + 1, Len(s)) = s
<1> DEFINE a == SubSeq(s, 1, n)
           b == SubSeq(s, n + 1, Len(s))
<1>1. Len(s) \in Nat /\ n \in Nat /\ n <= Len(s) /\ \A i \in 1 .. Len(s) : s[i] \in S
  OBVIOUS
<1>2. a \in Seq(S) /\ Len(a) = n /\ \A k \in 1 .. n : a[k] = s[k]
  <2>1. \A i \in 1 .. n : s[i] \in S  BY <1>1
  <2>2. /\ a \in Seq(S) /\ Len(a) = IF 1 <= n THEN n - 1 + 1 ELSE 0
        /\ \A k \in 1 .. n - 1 + 1 : a[k] = s[1 + k - 1]
    BY <1>1, <2>1, SubSeqProperties
  <2>3. n - 1 + 1 = n /\ \A k \in 1 .. n : 1 + k - 1 = k  BY <1>1
  <2> HIDE DEF a
  <2>4. QED  BY <1>1, <2>2, <2>3
<1>3. b \in Seq(S) /\ Len(b) = Len(s) - n /\ \A k \in 1 .. Len(s) - n : b[k] = s[n + k]
  <2>1. n + 1 \in Int /\ \A i \in n + 1 .. Len(s) : s[i] \in S  BY <1>1
  <2>2. /\ b \in Seq(S) /\ Len(b) = IF n + 1 <= Len(s) THEN Len(s) - (n + 1) + 1 ELSE 0
        /\ \A k \in 1 .. Len(s) - (n + 1) + 1 : b[k] = s[(n + 1) + k - 1]
    BY <1>1, <2>1, SubSeqProperties
  <2>3. Len(s) - (n + 1) + 1 = Len(s) - n /\ \A k \in 1 .. Len(s) - n : (n + 1) + k - 1 = n + k
    BY <1>1
  <2> HIDE DEF b
  <2>4. Len(b) = Len(s) - n  BY <1>1, <2>2
  <2>5. QED  BY <1>1, <2>2, <2>3, <2>4
<1> HIDE DEF a, b
<1>4. a \o b \in Seq(S) /\ Len(a \o b) = Len(s)  BY <1>1, <1>2, <1>3, ConcatProperties
<1>5. ASSUME NEW i \in 1 .. Len(s) PROVE (a \o b)[i] = s[i]
  <2>1. (a \o b)[i] = IF i <= n THEN a[i] ELSE b[i - n]
    BY <1>1, <1>2, <1>3, ConcatProperties
  <2>2. i \in Nat /\ 1 <= i /\ i <= Len(s)  BY <1>1
  <2>3. CASE i <= n
    <3>1. i \in 1 .. n  BY <1>1, <2>2, <2>3
    <3>2. QED  BY <1>2, <2>1, <2>3, <3>1
  <2>4. CASE ~(i <= n)
    <3>1. i - n \in 1 .. Len(s) - n /\ n + (i - n) = i  BY <1>1, <2>2, <2>4
    <3>2. QED  BY <1>3, <2>1, <2>4, <3>1
  <2>5. QED  BY <2>3, <2>4
<1>6. a \o b = s
  <2> DEFINE t == a \o b
  <2>1. t \in Seq(S) /\ Len(t) = Len(s) /\ \A i \in 1 .. Len(s) : t[i] = s[i]  BY <1>4, <1>5
  <2> HIDE DEF t
  <2>2. t = s  BY <2>1
  <2>3. QED  BY <2>2 DEF t
<1>7. QED  BY <1>2, <1>3, <1>6 DEF a, b

\* What was sent and is not yet a line for the caller, in the order it was sent.
Rest == residual \o wire \o writing

\* f tells where each message after the r-th ends in the bytes of rest, and rest
\* is these messages, each with its newline.
Frames(f, r, lengths, rest) ==
  /\ f \in [r .. Len(lengths) -> 0 .. Len(rest)]
  /\ f[r] = 0 /\ f[Len(lengths)] = Len(rest)
  /\ \A i, j \in r .. Len(lengths) : i <= j => f[i] <= f[j]
  /\ \A i \in r + 1 .. Len(lengths) :
       /\ f[i] = f[i - 1] + lengths[i] + 1
       /\ rest[f[i]] = L!Newline
       /\ \A k \in 1 .. lengths[i] : rest[f[i - 1] + k] = i

\* The first newline of rest is its e-th byte.
FirstNewline(rest, e) ==
  e \in 1 .. Len(rest) /\ rest[e] = L!Newline /\ \A j \in 1 .. e - 1 : rest[j] # L!Newline

FramedInv ==
  \E f \in [Len(received) .. Len(sent) -> 0 .. Len(Rest)] : Frames(f, Len(received), sent, Rest)

FramingInv ==
  /\ L!TypeOK /\ received \in Seq(Seq(Nat))
  /\ L!LinesArriveWhole /\ FramedInv

LEMMA WithinLine ==
  ASSUME NEW a \in Nat, NEW l \in Nat, NEW m \in Nat, a + l + 1 <= m, NEW k \in 1 .. l
  PROVE  a + k \in 1 .. m
OBVIOUS

LEMMA FramesAfterSend ==
  ASSUME NEW lengths \in Seq(Nat), NEW r \in 0 .. Len(lengths), NEW rest \in Seq(Nat),
         NEW f, Frames(f, r, lengths, rest), NEW length \in Nat
  PROVE  \E g : Frames(g, r, Append(lengths, length),
                       rest \o Append(L!Payload(Len(lengths) + 1, length), L!Newline))
<1> DEFINE n == Len(lengths)
           more == Append(lengths, length)
           frame == Append(L!Payload(n + 1, length), L!Newline)
           all == rest \o frame
           g == [i \in r .. n + 1 |-> IF i <= n THEN f[i] ELSE f[n] + length + 1]
<1>1. /\ n \in Nat /\ Len(rest) \in Nat /\ Len(more) = n + 1 /\ more[n + 1] = length
      /\ \A i \in 1 .. n : more[i] = lengths[i]
  OBVIOUS
<1>2. /\ frame \in Seq(Nat) /\ Len(frame) = length + 1 /\ frame[length + 1] = L!Newline
      /\ \A k \in 1 .. length : frame[k] = n + 1
  BY <1>1 DEF L!Payload, L!Newline
<1> HIDE DEF frame
<1>3. /\ Len(all) = Len(rest) + length + 1
      /\ \A k \in 1 .. Len(rest) : all[k] = rest[k]
      /\ \A k \in 1 .. length + 1 : all[Len(rest) + k] = frame[k]
  <2>1. /\ Len(all) = Len(rest) + Len(frame)
        /\ \A k \in 1 .. Len(rest) + Len(frame) :
             all[k] = IF k <= Len(rest) THEN rest[k] ELSE frame[k - Len(rest)]
    BY <1>1, <1>2, ConcatProperties
  <2> HIDE DEF all
  <2>2. \A k \in 1 .. length + 1 : all[Len(rest) + k] = frame[k]
    <3>1. TAKE k \in 1 .. length + 1
    <3>2. /\ Len(rest) + k \in 1 .. Len(rest) + Len(frame) /\ ~(Len(rest) + k <= Len(rest))
          /\ (Len(rest) + k) - Len(rest) = k
      BY <1>1, <1>2
    <3>3. QED  BY <2>1, <3>2
  <2>3. QED  BY <1>1, <1>2, <2>1, <2>2
<1> HIDE DEF all, more
<1>4. r \in Nat /\ r <= n  BY <1>1
<1>5. /\ \A i \in r .. n : f[i] \in Nat /\ f[i] <= Len(rest)
      /\ f[r] = 0 /\ f[n] = Len(rest)
  <2>1. f \in [r .. n -> 0 .. Len(rest)] /\ f[r] = 0 /\ f[n] = Len(rest)  BY DEF Frames
  <2>2. \A x \in 0 .. Len(rest) : x \in Nat /\ x <= Len(rest)  BY <1>1
  <2>3. QED  BY <2>1, <2>2
<1>6. \A i, j \in r .. n : i <= j => f[i] <= f[j]  BY DEF Frames
<1>7. /\ g = [i \in r .. n + 1 |-> g[i]]
      /\ \A i \in r .. n : g[i] = f[i]
      /\ g[n + 1] = Len(rest) + length + 1
  <2>1. /\ \A i \in r .. n : i \in r .. n + 1 /\ i <= n
        /\ n + 1 \in r .. n + 1 /\ ~(n + 1 <= n)
    BY <1>1, <1>4
  <2>2. QED  BY <1>5, <2>1
<1> HIDE DEF g
<1>8. /\ \A i \in r .. n + 1 : g[i] \in 0 .. Len(all)
      /\ g[r] = 0 /\ g[n + 1] = Len(all)
      /\ \A i, j \in r .. n + 1 : i <= j => g[i] <= g[j]
  <2>1. \A i \in r .. n + 1 : i \in r .. n \/ i = n + 1  BY <1>1, <1>4
  <2>2. ASSUME NEW i \in r .. n + 1 PROVE g[i] \in Nat /\ g[i] <= Len(rest) + length + 1
    <3>1. CASE i = n + 1
      BY <1>1, <1>7, <3>1
    <3>2. CASE i \in r .. n
      <4>1. g[i] \in Nat /\ g[i] <= Len(rest)  BY <1>5, <1>7, <3>2
      <4>2. QED  BY <1>1, <4>1
    <3>3. QED  BY <2>1, <3>1, <3>2
  <2>3. r \in r .. n /\ g[r] = 0
    <3>1. r \in r .. n  BY <1>1, <1>4
    <3>2. QED  BY <1>5, <1>7, <3>1
  <2>4. ASSUME NEW i \in r .. n + 1, NEW j \in r .. n + 1, i <= j PROVE g[i] <= g[j]
    <3>1. CASE j = n + 1
      BY <1>7, <2>2, <3>1
    <3>2. CASE j \in r .. n
      <4>1. i \in r .. n  BY <1>1, <1>4, <2>4, <3>2
      <4>2. f[i] <= f[j]  BY <1>6, <2>4, <3>2, <4>1
      <4>3. QED  BY <1>7, <3>2, <4>1, <4>2
    <3>3. QED  BY <2>1, <3>1, <3>2
  <2>5. Len(all) \in Nat /\ g[n + 1] = Len(all)  BY <1>1, <1>3, <1>7
  <2>6. \A i \in r .. n + 1 : g[i] \in 0 .. Len(all)  BY <1>3, <2>2, <2>5
  <2>7. QED  BY <2>3, <2>4, <2>5, <2>6
<1>9. ASSUME NEW i \in r + 1 .. n + 1
      PROVE  /\ g[i] = g[i - 1] + more[i] + 1
             /\ all[g[i]] = L!Newline
             /\ \A k \in 1 .. more[i] : all[g[i - 1] + k] = i
  <2>1. CASE i = n + 1
    <3>1. i - 1 = n /\ n \in r .. n  BY <1>1, <1>4, <2>1
    <3>2. g[i] = Len(rest) + (length + 1) /\ g[i - 1] = Len(rest) /\ more[i] = length
      <4>1. g[n] = f[n] /\ f[n] = Len(rest)  BY <1>5, <1>7, <3>1
      <4>2. g[n + 1] = Len(rest) + (length + 1)  BY <1>1, <1>7
      <4>3. more[n + 1] = length  BY <1>1
      <4>4. QED  BY <2>1, <3>1, <4>1, <4>2, <4>3
    <3>3. g[i] = g[i - 1] + more[i] + 1  BY <1>1, <3>2
    <3>4. all[g[i]] = L!Newline
      <4>1. length + 1 \in 1 .. length + 1  OBVIOUS
      <4>2. QED  BY <1>2, <1>3, <3>2, <4>1
    <3>5. ASSUME NEW k \in 1 .. more[i] PROVE all[g[i - 1] + k] = i
      <4>1. k \in 1 .. length /\ k \in 1 .. length + 1  BY <3>2
      <4>2. QED  BY <1>2, <1>3, <2>1, <3>2, <4>1
    <3>6. QED  BY <3>3, <3>4, <3>5
  <2>2. CASE i <= n
    <3>1. /\ i \in r + 1 .. n /\ i - 1 \in r .. n /\ i \in r .. n /\ i \in 1 .. n
      BY <1>1, <1>4, <2>2
    <3>2. g[i] = f[i] /\ g[i - 1] = f[i - 1] /\ more[i] = lengths[i] /\ lengths[i] \in Nat
      <4>1. g[i] = f[i] /\ g[i - 1] = f[i - 1]  BY <1>7, <3>1
      <4>2. more[i] = lengths[i]  BY <1>1, <3>1
      <4>3. lengths[i] \in Nat  BY <3>1
      <4>4. QED  BY <4>1, <4>2, <4>3
    <3>3. /\ f[i] = f[i - 1] + lengths[i] + 1 /\ rest[f[i]] = L!Newline
          /\ \A k \in 1 .. lengths[i] : rest[f[i - 1] + k] = i
      BY <3>1 DEF Frames
    <3>4. f[i] \in Nat /\ f[i] <= Len(rest) /\ f[i - 1] \in Nat  BY <1>5, <3>1
    <3>5. f[i] = f[i - 1] + lengths[i] + 1  BY <3>3
    <3>6. f[i] \in 1 .. Len(rest)  BY <1>1, <3>2, <3>4, <3>5
    <3>7. ASSUME NEW k \in 1 .. lengths[i] PROVE all[g[i - 1] + k] = i
      <4>1. f[i - 1] + k \in 1 .. Len(rest)
        <5>1. f[i - 1] + lengths[i] + 1 <= Len(rest)  BY <3>4, <3>5
        <5>2. QED  BY <1>1, <3>2, <3>4, <5>1, WithinLine
      <4>2. rest[f[i - 1] + k] = i  BY <3>3
      <4>3. QED  BY <1>3, <3>2, <4>1, <4>2
    <3>8. g[i] = g[i - 1] + more[i] + 1 /\ all[g[i]] = L!Newline
      BY <1>3, <3>2, <3>3, <3>6
    <3>9. QED  BY <3>2, <3>7, <3>8
  <2>3. i \in Nat /\ i <= n + 1  BY <1>1, <1>4
  <2>4. QED  BY <1>1, <2>1, <2>2, <2>3
<1>10. Frames(g, r, more, all)
  <2>1. g \in [r .. n + 1 -> 0 .. Len(all)]  BY <1>7, <1>8
  <2>2. QED  BY <1>1, <1>8, <1>9, <2>1 DEF Frames
<1>11. QED  BY <1>10 DEF more, all, frame

\* The first newline of what is left ends the next message.
LEMMA FramesAfterTake ==
  ASSUME NEW lengths \in Seq(Nat), NEW r \in 0 .. Len(lengths), NEW rest \in Seq(Nat),
         NEW f, Frames(f, r, lengths, rest),
         NEW e \in Nat, FirstNewline(rest, e)
  PROVE  /\ r < Len(lengths)
         /\ e = lengths[r + 1] + 1
         /\ \A k \in 1 .. lengths[r + 1] : rest[k] = r + 1
         /\ \E g : Frames(g, r + 1, lengths, SubSeq(rest, e + 1, Len(rest)))
<1> DEFINE n == Len(lengths)
           left == SubSeq(rest, e + 1, Len(rest))
           g == [i \in r + 1 .. n |-> f[i] - e]
<1>1. n \in Nat /\ Len(rest) \in Nat /\ r \in Nat /\ e \in 1 .. Len(rest)
  BY DEF FirstNewline
<1>2. r < n
  <2>1. f[r] = 0 /\ f[n] = Len(rest)  BY DEF Frames
  <2>2. r <= n /\ Len(rest) # 0  BY <1>1
  <2>3. QED  BY <1>1, <2>1, <2>2
<1>3. r + 1 \in r + 1 .. n /\ r \in r .. n /\ r + 1 \in r .. n /\ lengths[r + 1] \in Nat
  BY <1>1, <1>2
<1>4. /\ f[r + 1] = lengths[r + 1] + 1
      /\ rest[f[r + 1]] = L!Newline
      /\ \A k \in 1 .. lengths[r + 1] : rest[k] = r + 1
  <2>1. (r + 1) - 1 = r /\ f[r] = 0  BY DEF Frames
  <2>2. /\ f[r + 1] = f[(r + 1) - 1] + lengths[r + 1] + 1
        /\ rest[f[r + 1]] = L!Newline
        /\ \A k \in 1 .. lengths[r + 1] : rest[f[(r + 1) - 1] + k] = r + 1
    BY <1>3 DEF Frames
  <2>3. \A k \in 1 .. lengths[r + 1] : 0 + k = k  BY <1>3
  <2>4. QED  BY <1>3, <2>1, <2>2, <2>3
<1>5. e = lengths[r + 1] + 1
  <2>1. r + 1 # 0  BY <1>1
  <2>2. ~(e <= lengths[r + 1])  BY <1>1, <1>3, <1>4, <2>1 DEF L!Newline, FirstNewline
  <2>3. ~(f[r + 1] <= e - 1)
    <3>1. f[r + 1] \in Nat /\ 1 <= f[r + 1]  BY <1>3, <1>4
    <3>2. QED  BY <1>1, <1>4, <3>1 DEF FirstNewline
  <2>4. QED  BY <1>1, <1>3, <1>4, <2>2, <2>3
<1>6. /\ Len(left) = Len(rest) - e
      /\ \A k \in 1 .. Len(rest) - e : left[k] = rest[e + k]
  <2>1. rest \in Seq(Nat) /\ e \in 0 .. Len(rest)  BY <1>1
  <2>2. QED  BY ONLY <2>1, CutSequence
<1> HIDE DEF left
<1>7. /\ f[r + 1] = e /\ f[n] = Len(rest)
      /\ \A i \in r .. n : f[i] \in Nat /\ f[i] <= Len(rest)
  <2>1. f \in [r .. n -> 0 .. Len(rest)] /\ f[n] = Len(rest)  BY DEF Frames
  <2>2. \A x \in 0 .. Len(rest) : x \in Nat /\ x <= Len(rest)  BY <1>1
  <2>3. f[r + 1] = e  BY <1>4, <1>5
  <2>4. QED  BY <2>1, <2>2, <2>3
<1>8. \A i, j \in r .. n : i <= j => f[i] <= f[j]  BY DEF Frames
<1>9. \A i \in r + 1 .. n :
        i \in r .. n /\ f[i] \in Nat /\ e <= f[i] /\ f[i] <= Len(rest)
  <2>1. \A i \in r + 1 .. n : i \in r .. n /\ r + 1 <= i  BY <1>1
  <2>2. QED  BY <1>3, <1>7, <1>8, <2>1
<1>10. /\ g = [i \in r + 1 .. n |-> g[i]]
      /\ \A i \in r + 1 .. n : g[i] = f[i] - e
  OBVIOUS
<1> HIDE DEF g
<1>11. \A i \in r + 1 .. n : g[i] \in Nat /\ g[i] <= Len(rest) - e /\ g[i] + e = f[i]
  <2>1. TAKE i \in r + 1 .. n
  <2>2. g[i] = f[i] - e /\ f[i] \in Nat /\ e <= f[i] /\ f[i] <= Len(rest)  BY <1>9, <1>10
  <2>3. QED  BY <1>1, <2>2
<1>12. /\ g \in [r + 1 .. n -> 0 .. Len(left)]
       /\ g[r + 1] = 0 /\ g[n] = Len(left)
       /\ \A i, j \in r + 1 .. n : i <= j => g[i] <= g[j]
  <2>1. Len(rest) - e \in Nat  BY <1>1
  <2>2. n \in r + 1 .. n  BY <1>1, <1>2, <1>7
  <2>3. g[r + 1] = 0  BY <1>3, <1>7, <1>10
  <2>4. g[n] = Len(left)  BY <1>6, <1>7, <1>10, <2>2
  <2>5. g \in [r + 1 .. n -> 0 .. Len(left)]  BY <1>6, <1>10, <1>11, <2>1
  <2>6. ASSUME NEW i \in r + 1 .. n, NEW j \in r + 1 .. n, i <= j PROVE g[i] <= g[j]
    <3>1. f[i] <= f[j]  BY <1>8, <1>9, <2>6
    <3>2. g[i] + e = f[i] /\ g[j] + e = f[j] /\ g[i] \in Nat /\ g[j] \in Nat  BY <1>11
    <3>3. QED  BY <1>1, <3>1, <3>2
  <2>7. QED  BY <2>3, <2>4, <2>5, <2>6
<1>13. ASSUME NEW i \in r + 2 .. n
       PROVE  /\ g[i] = g[i - 1] + lengths[i] + 1
              /\ left[g[i]] = L!Newline
              /\ \A k \in 1 .. lengths[i] : left[g[i - 1] + k] = i
  <2>1. /\ i \in r + 1 .. n /\ i - 1 \in r + 1 .. n /\ lengths[i] \in Nat
    <3>1. i \in r + 1 .. n /\ i - 1 \in r + 1 .. n /\ i \in 1 .. n  BY <1>1, <1>7
    <3>2. QED  BY <3>1
  <2>2. /\ f[i] = f[i - 1] + lengths[i] + 1 /\ rest[f[i]] = L!Newline
        /\ \A k \in 1 .. lengths[i] : rest[f[i - 1] + k] = i
    BY <2>1 DEF Frames
  <2>3. /\ g[i] \in Nat /\ g[i] <= Len(rest) - e /\ f[i] = g[i] + e /\ f[i] \in Nat
        /\ g[i - 1] \in Nat /\ f[i - 1] = g[i - 1] + e /\ f[i - 1] \in Nat
    BY <1>9, <1>11, <2>1
  <2>4. /\ g[i] = g[i - 1] + lengths[i] + 1 /\ e + g[i] = f[i] /\ g[i] # 0
    <3>1. f[i] = f[i - 1] + lengths[i] + 1  BY <2>2
    <3>2. lengths[i] \in Nat /\ f[i] \in Nat /\ f[i - 1] \in Nat  BY <2>1, <2>3
    <3>3. f[i] - e = (f[i - 1] - e) + lengths[i] + 1
      <4>1. \A x, y, l \in Nat : x = y + l + 1 => x - e = (y - e) + l + 1  OBVIOUS
      <4>2. QED  BY ONLY <3>1, <3>2, <4>1, Zenon
    <3>4. g[i] = f[i] - e /\ g[i - 1] = f[i - 1] - e  BY <1>10, <2>1
    <3>5. g[i] = g[i - 1] + lengths[i] + 1  BY ONLY <3>3, <3>4
    <3>6. e + g[i] = f[i] /\ g[i] # 0
      <4>1. g[i] \in Nat /\ f[i] = g[i] + e  BY <2>3
      <4>2. g[i - 1] \in Nat /\ lengths[i] \in Nat  BY <2>1, <2>3
      <4>3. e + g[i] = f[i]  BY <4>1
      <4>4. g[i - 1] + lengths[i] + 1 # 0  BY <4>2
      <4>5. QED  BY ONLY <3>5, <4>3, <4>4
    <3>7. QED  BY <3>5, <3>6
  <2>5. Len(rest) - e \in Nat /\ g[i] \in 1 .. Len(rest) - e
    BY <1>1, <2>3, <2>4
  <2>6. left[g[i]] = L!Newline
    <3>1. left[g[i]] = rest[e + g[i]]  BY <1>6, <2>5
    <3>2. QED  BY <2>2, <2>4, <3>1
  <2>7. ASSUME NEW k \in 1 .. lengths[i] PROVE left[g[i - 1] + k] = i
    <3>1. g[i - 1] + k \in 1 .. Len(rest) - e
      <4>1. g[i - 1] + lengths[i] + 1 <= Len(rest) - e  BY <2>3, <2>4
      <4>2. QED  BY <2>1, <2>3, <2>5, <4>1, WithinLine
    <3>2. left[g[i - 1] + k] = rest[e + (g[i - 1] + k)]  BY <1>6, <3>1
    <3>3. e + (g[i - 1] + k) = f[i - 1] + k
      <4>1. k \in Nat /\ g[i - 1] \in Nat /\ f[i - 1] = g[i - 1] + e  BY <2>1, <2>3
      <4>2. \A a, b \in Nat : e + (a + b) = (a + e) + b  OBVIOUS
      <4>3. QED  BY <4>1, <4>2
    <3>4. QED  BY <2>2, <3>2, <3>3
  <2>8. QED  BY <2>4, <2>6, <2>7
<1>14. Frames(g, r + 1, lengths, left)
  <2>1. (r + 1) + 1 = r + 2  BY <1>1
  <2>2. QED  BY <1>12, <1>13, <2>1 DEF Frames
<1>15. QED  BY <1>2, <1>4, <1>5, <1>14 DEF left

\* What follows a prefix of the first part is the rest of it and the second part.
LEMMA DropPrefix ==
  ASSUME NEW S, NEW s \in Seq(S), NEW t \in Seq(S), NEW e \in 0 .. Len(s)
  PROVE  SubSeq(s \o t, e + 1, Len(s \o t)) = SubSeq(s, e + 1, Len(s)) \o t
<1> DEFINE a == SubSeq(s, 1, e)
           b == SubSeq(s, e + 1, Len(s))
           c == SubSeq(s \o t, 1, e)
           d == SubSeq(s \o t, e + 1, Len(s \o t))
<1>1. /\ Len(s) \in Nat /\ Len(t) \in Nat /\ e \in Nat /\ e <= Len(s)
      /\ s \o t \in Seq(S) /\ Len(s \o t) = Len(s) + Len(t)
      /\ \A i \in 1 .. Len(s) + Len(t) : (s \o t)[i] = IF i <= Len(s) THEN s[i] ELSE t[i - Len(s)]
  BY ConcatProperties
<1>2. b \in Seq(S) /\ Len(b) = Len(s) - e /\ \A k \in 1 .. Len(s) - e : b[k] = s[e + k]
  BY CutSequence
<1>3. e \in 0 .. Len(s \o t)  BY <1>1
<1>4. d \in Seq(S) /\ Len(d) = Len(s \o t) - e
      /\ \A k \in 1 .. Len(s \o t) - e : d[k] = (s \o t)[e + k]
  BY <1>1, <1>3, CutSequence
<1> HIDE DEF b, d
<1>5. /\ b \o t \in Seq(S) /\ Len(b \o t) = (Len(s) - e) + Len(t)
      /\ \A i \in 1 .. (Len(s) - e) + Len(t) :
           (b \o t)[i] = IF i <= Len(s) - e THEN b[i] ELSE t[i - (Len(s) - e)]
  <2>1. /\ b \o t \in Seq(S) /\ Len(b \o t) = Len(b) + Len(t)
        /\ \A i \in 1 .. Len(b) + Len(t) :
             (b \o t)[i] = IF i <= Len(b) THEN b[i] ELSE t[i - Len(b)]
    BY <1>2, ConcatProperties, Zenon
  <2>2. Len(b) = Len(s) - e  BY <1>2
  <2>3. QED  BY <2>1, <2>2, Zenon
<1>6. Len(d) = Len(b \o t)  BY <1>1, <1>4, <1>5
<1>7. ASSUME NEW k \in 1 .. Len(d) PROVE d[k] = (b \o t)[k]
  <2>1. k \in Nat /\ 1 <= k /\ k <= (Len(s) - e) + Len(t)  BY <1>1, <1>5, <1>6
  <2>2. d[k] = (s \o t)[e + k]  BY <1>4
  <2>3. e + k \in 1 .. Len(s) + Len(t) /\ k \in 1 .. (Len(s) - e) + Len(t)  BY <1>1, <2>1
  <2>4. (s \o t)[e + k] = IF e + k <= Len(s) THEN s[e + k] ELSE t[(e + k) - Len(s)]
    BY <1>1, <2>3
  <2>5. (b \o t)[k] = IF k <= Len(s) - e THEN b[k] ELSE t[k - (Len(s) - e)]
    BY <1>5, <2>3
  <2>6. CASE k <= Len(s) - e
    <3>1. e + k <= Len(s) /\ k \in 1 .. Len(s) - e  BY <1>1, <2>1, <2>6
    <3>2. QED  BY <1>2, <2>2, <2>4, <2>5, <2>6, <3>1
  <2>7. CASE ~(k <= Len(s) - e)
    <3>1. ~(e + k <= Len(s)) /\ (e + k) - Len(s) = k - (Len(s) - e)  BY <1>1, <2>1, <2>7
    <3>2. QED  BY <2>2, <2>4, <2>5, <2>7, <3>1
  <2>8. QED  BY <2>6, <2>7
<1>8. d = b \o t
  <2> DEFINE u == b \o t
  <2>1. u \in Seq(S) /\ Len(d) = Len(u) /\ \A k \in 1 .. Len(d) : d[k] = u[k]
    BY <1>5, <1>6, <1>7
  <2> HIDE DEF u
  <2>2. d = u  BY <1>4, <2>1
  <2>3. QED  BY <2>2 DEF u
<1>9. QED  BY <1>8 DEF b, d

LEMMA ConcatAssociates ==
  \A a, b, c \in Seq(Nat) : (a \o b) \o c = a \o (b \o c)
BY ConcatAssociative

LEMMA FramingBytes ==
  ASSUME L!LineFramingAssumption, L!TypeOK
  PROVE  /\ residual \in Seq(Nat) /\ wire \in Seq(Nat) /\ writing \in Seq(Nat)
         /\ residual \o wire \in Seq(Nat) /\ Rest \in Seq(Nat) /\ sent \in Seq(Nat)
<1>1. MaxMessages \in Nat /\ MaxMessageBytes \in Nat  BY DEF L!LineFramingAssumption
<1>2. 0 .. MaxMessages \subseteq Nat /\ 1 .. MaxMessageBytes \subseteq Nat  BY <1>1
<1>3. ASSUME NEW S, S \subseteq Nat, NEW s \in Seq(S) PROVE s \in Seq(Nat)
  <2>1. s = [i \in 1 .. Len(s) |-> s[i]] /\ \A i \in 1 .. Len(s) : s[i] \in S /\ Len(s) \in Nat
    OBVIOUS
  <2>2. \A i \in 1 .. Len(s) : s[i] \in Nat  BY <1>3, <2>1
  <2>3. Len(s) \in Nat  OBVIOUS
  <2>4. QED  BY <2>1, <2>2, <2>3
<1>4. residual \in Seq(Nat) /\ wire \in Seq(Nat) /\ writing \in Seq(Nat) /\ sent \in Seq(Nat)
  BY <1>2, <1>3 DEF L!TypeOK
<1>5. residual \o wire \in Seq(Nat)  BY <1>4, ConcatProperties
<1>6. Rest \in Seq(Nat)  BY <1>4, <1>5, ConcatProperties DEF Rest
<1>7. QED  BY <1>4, <1>5, <1>6

LEMMA LineEndIsFirst ==
  ASSUME residual \in Seq(Nat), L!HasLine
  PROVE  FirstNewline(residual, L!LineEnd) /\ L!LineEnd \in Nat
<1> DEFINE T == {k \in 1 .. Len(residual) : residual[k] = L!Newline}
<1>1. T \subseteq Nat /\ T # {} /\ DOMAIN residual = 1 .. Len(residual) /\ Len(residual) \in Nat
  BY DEF L!HasLine
<1>2. PICK x \in T : \A y \in T : x <= y
  <2> HIDE DEF T
  <2> QED BY <1>1, LeastElement
<1>3. ASSUME NEW j \in 1 .. x - 1 PROVE residual[j] # L!Newline
  <2>1. x \in 1 .. Len(residual)  BY <1>2
  <2>2. j \in 1 .. Len(residual) /\ ~(x <= j)  BY <1>1, <2>1
  <2>3. j \notin T  BY <1>2, <2>2
  <2>4. QED  BY <2>2, <2>3
<1>4. \E k \in DOMAIN residual :
        residual[k] = L!Newline /\ \A j \in 1 .. k - 1 : residual[j] # L!Newline
  BY <1>1, <1>2, <1>3
<1>5. /\ L!LineEnd \in DOMAIN residual /\ residual[L!LineEnd] = L!Newline
      /\ \A j \in 1 .. L!LineEnd - 1 : residual[j] # L!Newline
  BY <1>4 DEF L!LineEnd
<1>6. QED  BY <1>1, <1>5 DEF FirstNewline

LEMMA FramingInit == ASSUME L!LineFramingAssumption, L!Init PROVE FramingInv
<1>1. L!TypeOK
  <2>1. Len(<<>>) = 0 /\ MaxMessages \in Nat  BY DEF L!LineFramingAssumption
  <2>2. \A S : <<>> \in Seq(S)  OBVIOUS
  <2>3. sent \in Seq(1 .. MaxMessageBytes) /\ Len(sent) <= MaxMessages
    BY <2>1, <2>2 DEF L!Init
  <2>4. QED  BY <2>2, <2>3 DEF L!Init, L!TypeOK
<1>2. /\ received = <<>> /\ sent = <<>> /\ Rest = <<>>
      /\ Len(received) = 0 /\ Len(sent) = 0 /\ Len(Rest) = 0
  <2>1. <<>> \o <<>> = <<>>  OBVIOUS
  <2>2. QED  BY <2>1 DEF L!Init, Rest
<1>3. FramedInv
  <2> DEFINE f == [i \in 0 .. 0 |-> 0]
  <2>1. f \in [0 .. 0 -> 0 .. 0] /\ f[0] = 0 /\ 0 + 1 .. 0 = {} /\ \A i \in 0 .. 0 : f[i] = 0
    OBVIOUS
  <2>2. Frames(f, 0, <<>>, <<>>)
    <3>1. Len(<<>>) = 0  OBVIOUS
    <3> HIDE DEF f
    <3>2. QED  BY <2>1, <3>1 DEF Frames
  <2> HIDE DEF f
  <2>3. QED  BY <1>2, <2>1, <2>2 DEF FramedInv
<1>4. L!LinesArriveWhole  BY <1>2 DEF L!LinesArriveWhole
<1>5. QED  BY <1>1, <1>2, <1>3, <1>4 DEF FramingInv

LEMMA FramingTypeStep ==
  ASSUME L!LineFramingAssumption, L!TypeOK, [L!Next]_(L!vars)
  PROVE  L!TypeOK'
<1>1. MaxMessages \in Nat /\ MaxMessageBytes \in Nat /\ Len(sent) \in Nat
  BY DEF L!LineFramingAssumption, L!TypeOK
<1>2. ASSUME NEW length \in 1 .. MaxMessageBytes, L!SendMessage(length) PROVE L!TypeOK'
  <2>1. Len(sent) + 1 \in 0 .. MaxMessages /\ L!Newline \in 0 .. MaxMessages
    BY <1>1, <1>2 DEF L!SendMessage, L!Newline
  <2>2. L!Payload(Len(sent) + 1, length) \in Seq(0 .. MaxMessages)
    BY <1>1, <2>1 DEF L!Payload
  <2>3. writing' \in Seq(0 .. MaxMessages)
    BY <1>2, <2>1, <2>2, RangeOfAppend DEF L!SendMessage
  <2>4. sent' \in Seq(1 .. MaxMessageBytes) /\ Len(sent') <= MaxMessages
    BY <1>1, <1>2, <2>1, RangeOfAppend DEF L!SendMessage, L!TypeOK
  <2>5. QED  BY <1>2, <2>3, <2>4 DEF L!SendMessage, L!TypeOK
<1>3. CASE L!WriteBytes
  <2>1. PICK n \in 1 .. Len(writing) :
          /\ wire' = wire \o SubSeq(writing, 1, n)
          /\ writing' = SubSeq(writing, n + 1, Len(writing))
    BY <1>3 DEF L!WriteBytes
  <2>2. writing \in Seq(0 .. MaxMessages) /\ n \in 0 .. Len(writing) /\ wire \in Seq(0 .. MaxMessages)
    BY DEF L!TypeOK
  <2>3. /\ SubSeq(writing, 1, n) \in Seq(0 .. MaxMessages)
        /\ writing' \in Seq(0 .. MaxMessages)
    BY <2>1, <2>2, CutSequence
  <2>4. wire' \in Seq(0 .. MaxMessages)  BY <2>1, <2>2, <2>3, ConcatProperties
  <2>5. QED  BY <1>3, <2>3, <2>4 DEF L!WriteBytes, L!TypeOK
<1>4. CASE L!Close
  BY <1>4 DEF L!Close, L!TypeOK
<1>5. CASE L!BeginRead
  BY <1>5 DEF L!BeginRead, L!TypeOK
<1>6. CASE L!TakeLine
  <2>1. FirstNewline(residual, L!LineEnd) /\ L!LineEnd \in Nat
    BY <1>6, FramingBytes, LineEndIsFirst DEF L!TakeLine
  <2>2. residual \in Seq(0 .. MaxMessages) /\ L!LineEnd \in 0 .. Len(residual)
    BY <2>1 DEF L!TypeOK, FirstNewline
  <2>3. residual' \in Seq(0 .. MaxMessages)  BY <1>6, <2>2, CutSequence DEF L!TakeLine
  <2>4. QED  BY <1>6, <2>3 DEF L!TakeLine, L!TypeOK
<1>7. CASE L!ReadChunk
  <2>1. PICK n \in 1 .. ChunkBytes :
          /\ n <= Len(wire)
          /\ residual' = residual \o SubSeq(wire, 1, n)
          /\ wire' = SubSeq(wire, n + 1, Len(wire))
    BY <1>7 DEF L!ReadChunk
  <2>2. /\ wire \in Seq(0 .. MaxMessages) /\ n \in 0 .. Len(wire)
        /\ residual \in Seq(0 .. MaxMessages)
    BY <2>1 DEF L!TypeOK, L!LineFramingAssumption
  <2>3. SubSeq(wire, 1, n) \in Seq(0 .. MaxMessages) /\ wire' \in Seq(0 .. MaxMessages)
    BY <2>1, <2>2, CutSequence
  <2>4. residual' \in Seq(0 .. MaxMessages)  BY <2>1, <2>2, <2>3, ConcatProperties
  <2>5. QED  BY <1>7, <2>3, <2>4 DEF L!ReadChunk, L!TypeOK
<1>8. CASE L!EndOfStream
  BY <1>8 DEF L!EndOfStream, L!TypeOK
<1>9. CASE L!DropRead
  BY <1>9 DEF L!DropRead, L!TypeOK
<1>10. CASE UNCHANGED L!vars
  BY <1>10 DEF L!vars, L!TypeOK
<1>11. QED
  BY <1>2, <1>3, <1>4, <1>5, <1>6, <1>7, <1>8, <1>9, <1>10 DEF L!Next

\* A step of neither end moves bytes without changing what is in flight, except
\* the message that joins at its back and the line that leaves at its front.
LEMMA FramingStep ==
  ASSUME L!LineFramingAssumption, FramingInv, [L!Next]_(L!vars)
  PROVE  FramingInv'
<1>1. L!TypeOK'  BY FramingTypeStep DEF FramingInv
<1>2. /\ residual \in Seq(Nat) /\ wire \in Seq(Nat) /\ writing \in Seq(Nat)
      /\ residual \o wire \in Seq(Nat) /\ Rest \in Seq(Nat) /\ sent \in Seq(Nat)
  BY FramingBytes DEF FramingInv
<1>3. /\ received \in Seq(Seq(Nat)) /\ Len(received) \in Nat /\ Len(sent) \in Nat
      /\ Len(received) \in 0 .. Len(sent)
      /\ \A i \in DOMAIN received : received[i] = L!Payload(i, sent[i])
  <2>1. received \in Seq(Seq(Nat)) /\ Len(received) <= Len(sent)
        /\ \A i \in DOMAIN received : received[i] = L!Payload(i, sent[i])
    BY DEF FramingInv, L!LinesArriveWhole
  <2>2. Len(received) \in Nat /\ Len(sent) \in Nat  BY <1>2, <2>1
  <2>3. QED  BY <2>1, <2>2
<1>4. PICK f : Frames(f, Len(received), sent, Rest)
  BY DEF FramingInv, FramedInv
<1>5. ASSUME NEW length \in 1 .. MaxMessageBytes, L!SendMessage(length) PROVE FramingInv'
  <2>1. length \in Nat  BY DEF L!LineFramingAssumption
  <2>2. PICK g : Frames(g, Len(received), Append(sent, length),
                        Rest \o Append(L!Payload(Len(sent) + 1, length), L!Newline))
    BY <1>2, <1>3, <1>4, <2>1, FramesAfterSend
  <2>3. Rest' = Rest \o Append(L!Payload(Len(sent) + 1, length), L!Newline)
    <3>1. Rest = residual \o wire
      BY <1>2, <1>5, ConcatEmptySeq DEF L!SendMessage, Rest
    <3>2. QED  BY <1>5, <3>1 DEF L!SendMessage, Rest
  <2>4. sent' = Append(sent, length) /\ received' = received  BY <1>5 DEF L!SendMessage
  <2>5. Frames(g, Len(received'), sent', Rest')  BY <2>2, <2>3, <2>4
  <2>6. FramedInv'  BY <2>5 DEF FramedInv, Frames
  <2>7. L!LinesArriveWhole'
    <3>1. /\ Len(sent') = Len(sent) + 1
          /\ \A i \in 1 .. Len(sent) : sent'[i] = sent[i]
      BY <1>2, <2>1, <2>4
    <3>2. DOMAIN received = 1 .. Len(received) /\ \A i \in DOMAIN received : i \in 1 .. Len(sent)
      BY <1>3
    <3>3. Len(received) <= Len(sent) + 1  BY <1>3
    <3>4. QED  BY <1>3, <2>4, <3>1, <3>2, <3>3 DEF L!LinesArriveWhole, L!Payload
  <2>8. QED  BY <1>1, <1>3, <2>4, <2>6, <2>7 DEF FramingInv
<1>6. ASSUME Rest' = Rest, UNCHANGED <<sent, received>> PROVE FramingInv'
  BY <1>1, <1>6 DEF FramingInv, FramedInv, L!LinesArriveWhole
<1>7. CASE L!WriteBytes
  <2>1. PICK n \in 1 .. Len(writing) :
          /\ wire' = wire \o SubSeq(writing, 1, n)
          /\ writing' = SubSeq(writing, n + 1, Len(writing))
    BY <1>7 DEF L!WriteBytes
  <2>2. n \in 0 .. Len(writing)  BY <1>2
  <2>3. /\ SubSeq(writing, 1, n) \in Seq(Nat) /\ writing' \in Seq(Nat)
        /\ SubSeq(writing, 1, n) \o writing' = writing
    BY <1>2, <2>1, <2>2, CutSequence
  <2>4. residual' = residual /\ sent' = sent /\ received' = received  BY <1>7 DEF L!WriteBytes
  <2>5. Rest' = (residual \o (wire \o SubSeq(writing, 1, n))) \o writing'
    BY <2>1, <2>4 DEF Rest
  <2>6. residual \o (wire \o SubSeq(writing, 1, n)) = (residual \o wire) \o SubSeq(writing, 1, n)
    <3>1. residual \in Seq(Nat) /\ wire \in Seq(Nat) /\ SubSeq(writing, 1, n) \in Seq(Nat)
      BY <1>2, <2>3
    <3>2. QED  BY ONLY <3>1, ConcatAssociates
  <2>7. ((residual \o wire) \o SubSeq(writing, 1, n)) \o writing'
          = (residual \o wire) \o (SubSeq(writing, 1, n) \o writing')
    <3>1. residual \o wire \in Seq(Nat) /\ SubSeq(writing, 1, n) \in Seq(Nat) /\ writing' \in Seq(Nat)
      BY <1>2, <2>3
    <3>2. QED  BY ONLY <3>1, ConcatAssociates
  <2>8. Rest' = Rest  BY <2>3, <2>5, <2>6, <2>7 DEF Rest
  <2>9. QED  BY <1>6, <2>4, <2>8
<1>8. CASE L!Close
  BY <1>6, <1>8 DEF L!Close, Rest
<1>9. CASE L!BeginRead
  BY <1>6, <1>9 DEF L!BeginRead, Rest
<1>10. CASE L!TakeLine
  <2> DEFINE e == L!LineEnd
             r == Len(received)
  <2>1. FirstNewline(residual, e) /\ e \in Nat
    BY <1>2, <1>10, LineEndIsFirst DEF L!TakeLine
  <2>2. /\ e \in 0 .. Len(residual) /\ e \in 1 .. Len(residual) /\ Len(residual) \in Nat
    BY <1>2, <2>1 DEF FirstNewline
  <2>3. /\ received' = Append(received, SubSeq(residual, 1, e - 1))
        /\ residual' = SubSeq(residual, e + 1, Len(residual))
        /\ wire' = wire /\ writing' = writing /\ sent' = sent
    BY <1>10 DEF L!TakeLine
  <2> HIDE DEF e
  <2>4. Rest = residual \o (wire \o writing) /\ wire \o writing \in Seq(Nat)
    <3>1. (residual \o wire) \o writing = residual \o (wire \o writing)
      <4>1. residual \in Seq(Nat) /\ wire \in Seq(Nat) /\ writing \in Seq(Nat)
        BY <1>2
      <4>2. QED  BY ONLY <4>1, ConcatAssociates
    <3>2. QED  BY <1>2, <3>1, ConcatProperties DEF Rest
  <2>5. Rest' = SubSeq(Rest, e + 1, Len(Rest))
    <3>1. residual' \in Seq(Nat)  BY <1>2, <2>2, <2>3, CutSequence
    <3>2. Rest' = residual' \o (wire \o writing)
      <4>1. (residual' \o wire) \o writing = residual' \o (wire \o writing)
        BY <1>2, <3>1, ConcatAssociates, Zenon
      <4>2. QED  BY <2>3, <4>1 DEF Rest
    <3>3. QED  BY <1>2, <2>2, <2>3, <2>4, <3>2, DropPrefix
  <2>6. /\ Len(Rest) \in Nat /\ Len(residual) <= Len(Rest)
        /\ \A k \in 1 .. Len(residual) : Rest[k] = residual[k]
    <3>1. /\ Len(Rest) = Len(residual) + Len(wire \o writing)
          /\ \A k \in 1 .. Len(residual) + Len(wire \o writing) :
               Rest[k] = IF k <= Len(residual) THEN residual[k]
                         ELSE (wire \o writing)[k - Len(residual)]
      BY <1>2, <2>4, ConcatProperties
    <3>2. Len(wire \o writing) \in Nat  BY <2>4
    <3>3. \A k \in 1 .. Len(residual) :
            k \in 1 .. Len(residual) + Len(wire \o writing) /\ k <= Len(residual)
      BY <2>2, <3>2
    <3>4. Len(Rest) \in Nat /\ Len(residual) <= Len(Rest)  BY <2>2, <3>1, <3>2
    <3>5. QED  BY <3>1, <3>3, <3>4
  <2>7. FirstNewline(Rest, e)
    <3>1. /\ e \in 1 .. Len(Rest)
          /\ \A j \in 1 .. e - 1 : j \in 1 .. Len(residual)
      BY <2>2, <2>6
    <3>2. QED  BY <2>1, <2>2, <2>6, <3>1 DEF FirstNewline
  <2>8. /\ r < Len(sent) /\ e = sent[r + 1] + 1
        /\ \A k \in 1 .. sent[r + 1] : Rest[k] = r + 1
        /\ \E g : Frames(g, r + 1, sent, SubSeq(Rest, e + 1, Len(Rest)))
    BY <1>2, <1>3, <1>4, <2>1, <2>7, FramesAfterTake
  <2>9. r + 1 \in 1 .. Len(sent) /\ sent[r + 1] \in Nat  BY <1>2, <1>3, <2>8
  <2>10. e - 1 = sent[r + 1] /\ e - 1 \in 0 .. Len(residual)  BY <2>1, <2>2, <2>8, <2>9
  <2>11. SubSeq(residual, 1, e - 1) = L!Payload(r + 1, sent[r + 1])
    <3> DEFINE l == SubSeq(residual, 1, e - 1)
    <3>1. l \in Seq(Nat) /\ Len(l) = e - 1 /\ \A k \in 1 .. e - 1 : l[k] = residual[k]
      BY <1>2, <2>10, CutSequence
    <3> HIDE DEF l
    <3>2. \A k \in 1 .. e - 1 : residual[k] = Rest[k]  BY <2>2, <2>6
    <3>3. \A k \in 1 .. sent[r + 1] : l[k] = r + 1  BY <2>8, <2>10, <3>1, <3>2
    <3>4. l = [k \in 1 .. sent[r + 1] |-> l[k]]  BY <2>10, <3>1
    <3>5. QED  BY <3>3, <3>4 DEF L!Payload, l
  <2>12. /\ received' \in Seq(Seq(Nat)) /\ Len(received') = r + 1
         /\ DOMAIN received' = 1 .. r + 1
         /\ \A i \in 1 .. r : received'[i] = received[i]
         /\ received'[r + 1] = L!Payload(r + 1, sent[r + 1])
    <3>1. L!Payload(r + 1, sent[r + 1]) \in Seq(Nat)  BY <1>3, <2>9 DEF L!Payload
    <3> DEFINE frame == L!Payload(r + 1, sent[r + 1])
    <3> HIDE DEF frame
    <3>2. received' = Append(received, frame) /\ frame \in Seq(Nat)  BY <2>3, <2>11, <3>1 DEF frame
    <3> DEFINE longer == Append(received, frame)
    <3>3. /\ longer \in Seq(Seq(Nat)) /\ Len(longer) = Len(received) + 1
          /\ \A i \in 1 .. Len(received) : longer[i] = received[i]
          /\ longer[Len(received) + 1] = frame
      BY <1>3, <3>2, AppendProperties
    <3> HIDE DEF longer
    <3>4. received' = longer  BY <3>2 DEF longer
    <3>5. DOMAIN longer = 1 .. r + 1  BY <3>3
    <3>6. QED  BY <3>3, <3>4, <3>5, Zenon DEF frame
  <2>13. L!LinesArriveWhole'
    <3>1. \A i \in 1 .. r + 1 : i = r + 1 \/ i \in 1 .. r  BY <1>3
    <3>2. DOMAIN received = 1 .. r  BY <1>3
    <3>3. r + 1 <= Len(sent)  BY <1>3, <2>8
    <3>4. QED  BY <1>3, <2>3, <2>12, <3>1, <3>2, <3>3 DEF L!LinesArriveWhole, L!Payload
  <2>14. FramedInv'
    <3>1. \E g : Frames(g, Len(received'), sent', Rest')  BY <2>3, <2>5, <2>8, <2>12
    <3>2. QED  BY <3>1 DEF FramedInv, Frames
  <2>15. QED  BY <1>1, <2>12, <2>13, <2>14 DEF FramingInv
<1>11. CASE L!ReadChunk
  <2>1. PICK n \in 1 .. ChunkBytes :
          /\ n <= Len(wire)
          /\ residual' = residual \o SubSeq(wire, 1, n)
          /\ wire' = SubSeq(wire, n + 1, Len(wire))
    BY <1>11 DEF L!ReadChunk
  <2>2. n \in 0 .. Len(wire)  BY <1>2, <2>1 DEF L!LineFramingAssumption
  <2>3. /\ SubSeq(wire, 1, n) \in Seq(Nat) /\ wire' \in Seq(Nat)
        /\ SubSeq(wire, 1, n) \o wire' = wire
    BY <1>2, <2>1, <2>2, CutSequence
  <2>4. writing' = writing /\ sent' = sent /\ received' = received  BY <1>11 DEF L!ReadChunk
  <2>5. (residual \o SubSeq(wire, 1, n)) \o wire' = residual \o (SubSeq(wire, 1, n) \o wire')
    <3>1. residual \in Seq(Nat) /\ SubSeq(wire, 1, n) \in Seq(Nat) /\ wire' \in Seq(Nat)
      BY <1>2, <2>3
    <3>2. QED  BY ONLY <3>1, ConcatAssociates
  <2>6. Rest' = Rest  BY <2>1, <2>3, <2>4, <2>5 DEF Rest
  <2>7. QED  BY <1>6, <2>4, <2>6
<1>12. CASE L!EndOfStream
  BY <1>6, <1>12 DEF L!EndOfStream, Rest
<1>13. CASE L!DropRead
  BY <1>6, <1>13 DEF L!DropRead, Rest
<1>14. CASE UNCHANGED L!vars
  BY <1>6, <1>14 DEF L!vars, Rest
<1>15. QED
  BY <1>5, <1>7, <1>8, <1>9, <1>10, <1>11, <1>12, <1>13, <1>14 DEF L!Next

-----------------------------------------------------------------------------
(* One daemon serves.                                                      *)

\* A process binds at most once: the owner of a socket that is at the path, or
\* that somebody captured, has bound it.
OwnersHaveBound ==
  \A s \in {path} \cup {seen[d] : d \in Daemons} :
    s.owner \in Daemons => stage[s.owner] \in {"bound", "serving", "dead"}

\* A living process that bound has its socket at the path.
LiveHoldThePath == \A d \in B!Live : path.owner = d

\* What a process found stale and is still at the path has no living owner.
StaleAreDead ==
  \A d \in Daemons :
    stage[d] \in {"stale", "removing"} /\ path = seen[d] => path.owner \notin B!Live

EndpointInv ==
  /\ B!TypeOK
  /\ OwnersHaveBound
  /\ raced \/ (LiveHoldThePath /\ StaleAreDead)

LEMMA BootstrapInit == ASSUME B!BootstrapAssumption, B!Init PROVE EndpointInv
<1>1. B!NoSocket.owner = Nobody /\ Nobody \notin Daemons
  BY DEF B!NoSocket, B!BootstrapAssumption
<1>2. path \in B!Sockets \cup {B!NoSocket} /\ path.owner = Nobody
  BY <1>1 DEF B!Init, B!Sockets
<1>3. B!TypeOK
  <2>1. [c \in Clients |-> 0] \in [Clients -> 0 .. MaxTries]
    BY DEF B!BootstrapAssumption
  <2>2. QED  BY <1>2, <2>1 DEF B!Init, B!TypeOK, B!Stages
<1>4. B!Live = {}  BY DEF B!Init, B!Live
<1>5. OwnersHaveBound  BY <1>1, <1>2 DEF OwnersHaveBound, B!Init
<1>6. LiveHoldThePath /\ StaleAreDead  BY <1>4 DEF LiveHoldThePath, StaleAreDead
<1>7. QED  BY <1>3, <1>5, <1>6 DEF EndpointInv

\* The client's steps leave the endpoint alone, but for the launch.
LEMMA ClientTypeStep ==
  ASSUME B!BootstrapAssumption, B!TypeOK, NEW c \in Clients,
         B!ConnectOrBootstrap(c) \/ B!ClientStep(c) \/ B!ClientDies(c)
  PROVE  B!TypeOK'
<1>. DEFINE Places == {"idle", "acquire", "launch"} \cup B!Dialling \cup B!Awaiting \cup B!Returned
<1>1. MaxTries \in Nat /\ tries[c] \in 0 .. MaxTries /\ 0 \in 0 .. MaxTries
  BY DEF B!BootstrapAssumption, B!TypeOK
<1>2. ASSUME NEW end \in B!Returned, B!Return(c, end), UNCHANGED B!endpoint
      PROVE  B!TypeOK'
  BY <1>1, <1>2 DEF B!Return, B!Move, B!Release, B!endpoint, B!TypeOK
<1>3. ASSUME B!Unavailable(c), UNCHANGED B!endpoint PROVE B!TypeOK'
  <2>1. CASE at[c] \notin {"waiting", "waiting_health"}
    BY <1>3, <2>1 DEF B!Unavailable, B!Move, B!endpoint, B!TypeOK
  <2>2. CASE B!RetryOrFail(c)
    <3>1. CASE tries[c] < MaxTries
      <4>1. tries[c] + 1 \in 0 .. MaxTries  BY <1>1, <3>1
      <4>2. QED
        BY <1>3, <2>2, <3>1, <4>1 DEF B!RetryOrFail, B!Move, B!endpoint, B!TypeOK, B!Dialling
    <3>2. CASE ~(tries[c] < MaxTries)
      BY <1>2, <1>3, <2>2, <3>2 DEF B!RetryOrFail, B!Returned
    <3>3. QED  BY <3>1, <3>2
  <2>3. QED  BY <1>3, <2>1, <2>2 DEF B!Unavailable
<1>4. CASE B!ConnectOrBootstrap(c)
  BY <1>4 DEF B!ConnectOrBootstrap, B!Move, B!endpoint, B!TypeOK, B!Dialling
<1>5. CASE B!Connect(c)
  <2>1. path.owner \in Daemons  BY <1>5 DEF B!Connect, B!Live
  <2>2. B!HealthOf(at[c]) \in B!Awaiting
    BY <1>5 DEF B!Connect, B!HealthOf, B!Dialling, B!Awaiting
  <2>3. QED  BY <1>5, <2>1, <2>2 DEF B!Connect, B!Move, B!endpoint, B!TypeOK
<1>6. CASE B!ConnectFails(c)
  BY <1>3, <1>6 DEF B!ConnectFails
<1>7. CASE B!Answer(c)
  BY <1>2, <1>7 DEF B!Answer, B!Returned
<1>8. CASE B!NoAnswer(c)
  BY <1>3, <1>8 DEF B!NoAnswer
<1>9. CASE B!Acquire(c)
  BY <1>1, <1>9 DEF B!Acquire, B!Move, B!endpoint, B!TypeOK, B!Dialling
<1>10. CASE B!LockContended(c)
  <2>1. CASE tries[c] < MaxTries
    <3>1. tries[c] + 1 \in 0 .. MaxTries  BY <1>1, <2>1
    <3>2. QED  BY <1>10, <2>1, <3>1 DEF B!LockContended, B!endpoint, B!TypeOK
  <2>2. CASE ~(tries[c] < MaxTries)
    BY <1>2, <1>10, <2>2 DEF B!LockContended, B!Returned
  <2>3. QED  BY <2>1, <2>2
<1>11. CASE B!LockUnavailable(c)
  BY <1>2, <1>11 DEF B!LockUnavailable, B!Returned
<1>12. CASE B!Launch(c)
  <2>1. stage' \in [Daemons -> B!Stages]
    BY <1>12 DEF B!Launch, B!TypeOK, B!Stages
  <2>2. UNCHANGED <<path, seen, raced>>  BY <1>12 DEF B!Launch
  <2>3. CASE B!Move(c, "waiting") /\ UNCHANGED <<tries, link, lock>>
    BY <2>1, <2>2, <2>3 DEF B!Move, B!TypeOK, B!Dialling
  <2>4. CASE B!Return(c, "failed")
    BY <1>1, <2>1, <2>2, <2>4 DEF B!Return, B!Move, B!Release, B!Returned, B!TypeOK
  <2>5. QED  BY <1>12, <2>3, <2>4 DEF B!Launch
<1>13. CASE B!ClientDies(c)
  BY <1>2, <1>13 DEF B!ClientDies, B!Returned
<1>14. QED
  BY <1>4, <1>5, <1>6, <1>7, <1>8, <1>9, <1>10, <1>11, <1>12, <1>13 DEF B!ClientStep

LEMMA SocketOf ==
  ASSUME NEW d \in Daemons, NEW i \in Inodes
  PROVE  /\ [owner |-> d, inode |-> i] \in B!Sockets
         /\ [owner |-> d, inode |-> i].owner = d
BY DEF B!Sockets

LEMMA DaemonTypeStep ==
  ASSUME B!TypeOK, NEW d \in Daemons,
         B!Start(d) \/ B!DaemonStep(d) \/ B!DaemonDies(d)
  PROVE  B!TypeOK'
<1>1. UNCHANGED <<at, tries, link, lock>>
  BY DEF B!Start, B!DaemonStep, B!DaemonDies, B!Bind, B!CaptureIdentity, B!ProbeReportsStaleSocket,
         B!RecheckIdentity, B!RemoveSocket, B!Rebind, B!Open, B!clients
<1>2. stage' \in [Daemons -> B!Stages]
  BY DEF B!TypeOK, B!Stages, B!Enter,
         B!Start, B!DaemonStep, B!DaemonDies, B!Bind, B!CaptureIdentity, B!ProbeReportsStaleSocket,
         B!RecheckIdentity, B!RemoveSocket, B!Rebind, B!Open
<1>3. path' \in B!Sockets \cup {B!NoSocket} /\ seen' \in [Daemons -> B!Sockets \cup {B!NoSocket}]
  <2>1. CASE B!BindSocket(d)
    BY <2>1, SocketOf DEF B!BindSocket, B!TypeOK
  <2>2. CASE ~B!BindSocket(d)
    BY <2>2 DEF B!TypeOK, B!Start, B!DaemonStep, B!DaemonDies, B!Bind, B!CaptureIdentity,
         B!ProbeReportsStaleSocket, B!RecheckIdentity, B!RemoveSocket, B!Rebind, B!Open
  <2>3. QED  BY <2>1, <2>2
<1>4. raced' \in BOOLEAN
  BY DEF B!TypeOK, B!Start, B!DaemonStep, B!DaemonDies, B!Bind, B!CaptureIdentity,
         B!ProbeReportsStaleSocket, B!RecheckIdentity, B!RemoveSocket, B!Rebind, B!Open
<1>5. QED  BY <1>1, <1>2, <1>3, <1>4 DEF B!TypeOK

LEMMA BootstrapTypeStep ==
  ASSUME B!BootstrapAssumption, B!TypeOK, [B!Next]_(B!vars)
  PROVE  B!TypeOK'
<1>1. CASE UNCHANGED B!vars
  BY <1>1 DEF B!vars, B!clients, B!endpoint, B!TypeOK
<1>2. QED  BY <1>1, ClientTypeStep, DaemonTypeStep DEF B!Next

\* A client that launches a daemon, and a user who starts one, make a process that
\* has bound nothing; the other steps of clients leave the endpoint alone.
LEMMA EndpointKept ==
  ASSUME EndpointInv, NEW d \in Daemons, stage[d] = "none",
         stage' = [stage EXCEPT ![d] = "starting"], UNCHANGED <<path, seen, raced>>
  PROVE  OwnersHaveBound' /\ (raced' \/ (LiveHoldThePath' /\ StaleAreDead'))
<1>1. \A e \in Daemons : stage'[e] = IF e = d THEN "starting" ELSE stage[e]
  BY DEF EndpointInv, B!TypeOK
<1>2. B!Live' = B!Live  BY <1>1 DEF B!Live
<1>3. QED  BY <1>1, <1>2 DEF EndpointInv, OwnersHaveBound, LiveHoldThePath, StaleAreDead

LEMMA BindKeeps ==
  ASSUME B!BootstrapAssumption, EndpointInv, NEW d \in Daemons,
         stage[d] \in {"starting", "rebinding"}, path = B!NoSocket,
         stage' = [stage EXCEPT ![d] = "bound"], B!BindSocket(d), UNCHANGED raced
  PROVE  OwnersHaveBound' /\ (raced' \/ (LiveHoldThePath' /\ StaleAreDead'))
<1>1. \A e \in Daemons : stage'[e] = IF e = d THEN "bound" ELSE stage[e]
  BY DEF EndpointInv, B!TypeOK
<1>2. PICK i \in Inodes : /\ path' = [owner |-> d, inode |-> i]
                          /\ seen' = [seen EXCEPT ![d] = [owner |-> d, inode |-> i]]
  BY DEF B!BindSocket
<1>3. /\ path'.owner = d
      /\ \A e \in Daemons : seen'[e] = IF e = d THEN path' ELSE seen[e]
  BY <1>2 DEF EndpointInv, B!TypeOK
<1>4. OwnersHaveBound'
  BY <1>1, <1>3 DEF EndpointInv, OwnersHaveBound
<1>5. ASSUME ~raced PROVE LiveHoldThePath' /\ StaleAreDead'
  <2>1. B!Live = {}
    <3>1. path.owner = Nobody /\ Nobody \notin Daemons
      BY DEF B!NoSocket, B!BootstrapAssumption
    <3>2. QED  BY <1>5, <3>1 DEF EndpointInv, LiveHoldThePath, B!Live
  <2>2. B!Live' = {d}  BY <1>1, <2>1 DEF B!Live
  <2>3. ASSUME NEW e \in Daemons, e # d PROVE path' # seen'[e]
    <3>1. seen[e].owner # d  BY <2>3 DEF EndpointInv, OwnersHaveBound
    <3>2. QED  BY <1>3, <2>3, <3>1
  <2>4. StaleAreDead'  BY <1>1, <2>3 DEF StaleAreDead
  <2>5. QED  BY <1>3, <2>2, <2>4 DEF LiveHoldThePath
<1>6. QED  BY <1>4, <1>5

LEMMA EndpointStep ==
  ASSUME B!BootstrapAssumption, EndpointInv, [B!Next]_(B!vars)
  PROVE  EndpointInv'
<1>. DEFINE Kept == OwnersHaveBound' /\ (raced' \/ (LiveHoldThePath' /\ StaleAreDead'))
<1>1. SUFFICES Kept  BY BootstrapTypeStep DEF EndpointInv
<1>2. ASSUME UNCHANGED B!endpoint PROVE Kept
  BY <1>2 DEF B!endpoint, EndpointInv, OwnersHaveBound, LiveHoldThePath, StaleAreDead, B!Live
<1>3. ASSUME NEW c \in Clients, B!ConnectOrBootstrap(c) \/ B!ClientStep(c) \/ B!ClientDies(c)
      PROVE  Kept
  <2>1. CASE UNCHANGED B!endpoint
    BY <1>2, <2>1
  <2>2. CASE B!Launch(c)
    <3>1. UNCHANGED <<path, seen, raced>>  BY <2>2 DEF B!Launch
    <3>2. CASE UNCHANGED stage
      BY <1>2, <3>1, <3>2 DEF B!endpoint
    <3>3. CASE \E d \in Daemons : stage[d] = "none" /\ stage' = [stage EXCEPT ![d] = "starting"]
      BY <3>1, <3>3, EndpointKept
    <3>4. QED  BY <2>2, <3>2, <3>3 DEF B!Launch
  <2>3. QED
    BY <1>3, <2>1, <2>2
    DEF B!ConnectOrBootstrap, B!ClientStep, B!ClientDies, B!Connect, B!ConnectFails, B!Answer,
        B!NoAnswer, B!Acquire, B!LockContended, B!LockUnavailable
<1>4. ASSUME NEW d \in Daemons, B!Start(d) PROVE Kept
  BY <1>4, EndpointKept DEF B!Start, B!Enter
<1>5. ASSUME NEW d \in Daemons, B!Bind(d) \/ B!Rebind(d) PROVE Kept
  <2>1. CASE path = B!NoSocket
    BY <1>5, <2>1, BindKeeps DEF B!Bind, B!Rebind, B!Enter
  <2>2. CASE path # B!NoSocket
    <3>1. /\ stage[d] \in {"starting", "rebinding"} /\ UNCHANGED <<path, seen, raced>>
          /\ \A e \in Daemons : e # d => stage'[e] = stage[e]
          /\ stage'[d] \in {"conflict", "dead"}
      BY <1>5, <2>2 DEF B!Bind, B!Rebind, B!Enter, EndpointInv, B!TypeOK
    <3>2. B!Live' = B!Live  BY <3>1 DEF B!Live
    <3>3. QED
      BY <3>1, <3>2 DEF EndpointInv, OwnersHaveBound, LiveHoldThePath, StaleAreDead
  <2>3. QED  BY <2>1, <2>2
<1>6. ASSUME NEW d \in Daemons, B!CaptureIdentity(d) PROVE Kept
  <2>1. /\ stage[d] = "conflict" /\ UNCHANGED <<path, raced>>
        /\ \A e \in Daemons : e # d => stage'[e] = stage[e] /\ seen'[e] = seen[e]
        /\ stage'[d] \in {"probing", "dead"} /\ seen'[d] \in {seen[d], path}
    BY <1>6 DEF B!CaptureIdentity, B!Enter, EndpointInv, B!TypeOK
  <2>2. B!Live' = B!Live  BY <2>1 DEF B!Live
  <2>3. QED
    BY <2>1, <2>2 DEF EndpointInv, OwnersHaveBound, LiveHoldThePath, StaleAreDead
<1>7. ASSUME NEW d \in Daemons, B!ProbeReportsStaleSocket(d) PROVE Kept
  <2>1. /\ stage[d] = "probing" /\ UNCHANGED <<path, seen, raced>>
        /\ \A e \in Daemons : e # d => stage'[e] = stage[e]
        /\ stage'[d] \in {"stale", "dead"} /\ (stage'[d] = "stale" => path.owner \notin B!Live)
    BY <1>7 DEF B!ProbeReportsStaleSocket, B!Enter, EndpointInv, B!TypeOK
  <2>2. B!Live' = B!Live  BY <2>1 DEF B!Live
  <2>3. QED
    BY <2>1, <2>2 DEF EndpointInv, OwnersHaveBound, LiveHoldThePath, StaleAreDead
<1>8. ASSUME NEW d \in Daemons, B!RecheckIdentity(d) PROVE Kept
  <2>1. /\ stage[d] = "stale" /\ UNCHANGED path
        /\ \A e \in Daemons : e # d => stage'[e] = stage[e] /\ seen'[e] = seen[e]
        /\ stage'[d] \in {"removing", "dead"} /\ seen'[d] = path
        /\ raced => raced'
        /\ stage'[d] = "removing" /\ ~raced' => path = seen[d]
    BY <1>8 DEF B!RecheckIdentity, B!SameSocket, B!Enter, EndpointInv, B!TypeOK
  <2>2. B!Live' = B!Live  BY <2>1 DEF B!Live
  <2>3. OwnersHaveBound'  BY <2>1 DEF EndpointInv, OwnersHaveBound
  <2>4. ~raced' => LiveHoldThePath' /\ StaleAreDead'
    BY <2>1, <2>2 DEF EndpointInv, LiveHoldThePath, StaleAreDead
  <2>5. QED  BY <2>3, <2>4
<1>9. ASSUME NEW d \in Daemons, B!RemoveSocket(d) PROVE Kept
  <2>1. /\ stage[d] = "removing" /\ path' = B!NoSocket /\ UNCHANGED seen
        /\ \A e \in Daemons : e # d => stage'[e] = stage[e]
        /\ stage'[d] \in {"rebinding", "dead"}
        /\ raced => raced'
        /\ ~raced' => path = B!NoSocket \/ path = seen[d]
    BY <1>9 DEF B!RemoveSocket, B!Enter, EndpointInv, B!TypeOK
  <2>2. B!Live' = B!Live  BY <2>1 DEF B!Live
  <2>3. B!NoSocket.owner = Nobody /\ Nobody \notin Daemons
    BY DEF B!NoSocket, B!BootstrapAssumption
  <2>4. OwnersHaveBound'  BY <2>1, <2>3 DEF EndpointInv, OwnersHaveBound
  <2>5. ~raced' => B!Live = {}
    <3>1. ~raced' => path.owner \notin B!Live
      BY <2>1, <2>3 DEF EndpointInv, StaleAreDead, B!Live
    <3>2. QED  BY <2>1, <3>1 DEF EndpointInv, LiveHoldThePath
  <2>6. ~raced' => LiveHoldThePath' /\ StaleAreDead'
    BY <2>2, <2>5 DEF LiveHoldThePath, StaleAreDead
  <2>7. QED  BY <2>4, <2>6
<1>10. ASSUME NEW d \in Daemons, B!Open(d) PROVE Kept
  <2>1. /\ stage[d] = "bound" /\ UNCHANGED <<path, seen, raced>>
        /\ \A e \in Daemons : stage'[e] = IF e = d THEN "serving" ELSE stage[e]
    BY <1>10 DEF B!Open, B!Enter, EndpointInv, B!TypeOK
  <2>2. B!Live' = B!Live  BY <2>1 DEF B!Live
  <2>3. QED
    BY <2>1, <2>2 DEF EndpointInv, OwnersHaveBound, LiveHoldThePath, StaleAreDead
<1>11. ASSUME NEW d \in Daemons, B!DaemonDies(d) PROVE Kept
  <2>1. /\ UNCHANGED <<path, seen, raced>>
        /\ \A e \in Daemons : stage'[e] = IF e = d THEN "dead" ELSE stage[e]
    BY <1>11 DEF B!DaemonDies, B!Enter, EndpointInv, B!TypeOK
  <2>2. B!Live' \subseteq B!Live  BY <2>1 DEF B!Live
  <2>3. QED
    BY <2>1, <2>2 DEF EndpointInv, OwnersHaveBound, LiveHoldThePath, StaleAreDead
<1>12. CASE UNCHANGED B!vars
  BY <1>2, <1>12 DEF B!vars
<1>13. QED
  BY <1>3, <1>4, <1>5, <1>6, <1>7, <1>8, <1>9, <1>10, <1>11, <1>12 DEF B!Next, B!DaemonStep

LEMMA EndpointServesOne == ASSUME EndpointInv PROVE B!OneDaemonServes
BY DEF EndpointInv, LiveHoldThePath, B!OneDaemonServes, B!Live

-----------------------------------------------------------------------------
(* Presses arrive once and in order.                                       *)

\* A lone press is the whole run, and nothing is held without a run.
PasteInv ==
  /\ D!TypeOK
  /\ text \in Seq(D!Presses) /\ line \in Seq(D!Presses) /\ pressed \in Seq(D!Presses)
  /\ alone \in Seq(D!Presses) /\ (alone # <<>> => alone = text)
  /\ held \in BOOLEAN /\ confirmed \in BOOLEAN
  /\ D!PressesArriveOnceInOrder

LEMMA PasteInit == ASSUME D!Init PROVE PasteInv
<1>1. <<>> \in Seq(D!Presses) /\ <<>> \o <<>> = <<>> /\ Len(<<>>) = 0 /\ 0 \in 0 .. 3  OBVIOUS
<1>2. D!TypeOK  BY <1>1 DEF D!Init, D!TypeOK
<1>3. QED  BY <1>1, <1>2 DEF D!Init, PasteInv, D!PressesArriveOnceInOrder

LEMMA PasteStep ==
  ASSUME D!PasteDetectorAssumption, PasteInv, [D!Next]_(D!vars)
  PROVE  PasteInv'
<1>. USE DEF PasteInv
<1>1. D!Settled = text /\ line \o text = pressed
  BY DEF D!Settled, D!PressesArriveOnceInOrder
<1>2. age \in 0 .. 3 /\ Len(<<>>) = 0  BY DEF D!TypeOK
<1>3. ASSUME NEW press \in D!Presses, D!JoinRun(press) PROVE PasteInv'
  <2>1. /\ text' = Append(text, press) /\ pressed' = Append(pressed, press) /\ line' = line
        /\ alone' = <<>> /\ confirmed' = TRUE /\ held' = held /\ held /\ age' = 0
    BY <1>3 DEF D!JoinRun, D!Continues
  <2>2. text' \in Seq(D!Presses) /\ pressed' \in Seq(D!Presses) /\ alone' \in Seq(D!Presses)
    BY <2>1
  <2>3. line \o Append(text, press) = Append(line \o text, press)
    BY ConcatProperties
  <2>4. D!PressesArriveOnceInOrder'  BY <1>1, <2>1, <2>3 DEF D!PressesArriveOnceInOrder
  <2>5. D!TypeOK'  BY <1>2, <2>1 DEF D!TypeOK
  <2>6. QED  BY <2>1, <2>2, <2>4, <2>5
<1>4. ASSUME D!Flush, D!NothingHeld, UNCHANGED <<age, pressed>> PROVE PasteInv'
  <2>1. /\ line' = pressed /\ text' = <<>> /\ alone' = <<>> /\ confirmed' = FALSE
        /\ held' = FALSE /\ age' = age /\ pressed' = pressed
    BY <1>1, <1>4 DEF D!Flush, D!NothingHeld
  <2>2. pressed \o <<>> = pressed  BY ConcatEmptySeq
  <2>3. D!TypeOK'  BY <1>2, <2>1 DEF D!TypeOK
  <2>4. <<>> \in Seq(D!Presses)  OBVIOUS
  <2>5. QED  BY <2>1, <2>2, <2>3, <2>4 DEF D!PressesArriveOnceInOrder
<1>5. ASSUME NEW press \in D!Presses, D!BeginRun(press) PROVE PasteInv'
  <2>1. /\ line' = pressed /\ text' = <<press>> /\ alone' = <<press>> /\ confirmed' = FALSE
        /\ held' = TRUE /\ age' = 0 /\ pressed' = Append(pressed, press)
    BY <1>1, <1>5 DEF D!BeginRun, D!Flush
  <2>2. /\ <<press>> \in Seq(D!Presses) /\ Len(<<press>>) = 1
        /\ Append(pressed, press) \in Seq(D!Presses)
    OBVIOUS
  <2>3. Append(pressed, press) = pressed \o <<press>>  BY AppendIsConcat
  <2>4. D!TypeOK'  BY <1>2, <2>1, <2>2 DEF D!TypeOK
  <2>5. D!PressesArriveOnceInOrder'  BY <2>1, <2>3 DEF D!PressesArriveOnceInOrder
  <2>6. QED  BY <2>1, <2>2, <2>4, <2>5
<1>6. CASE D!TimePasses
  BY <1>2, <1>6 DEF D!TimePasses, D!run, D!TypeOK, D!PressesArriveOnceInOrder
<1>7. CASE UNCHANGED D!vars
  BY <1>7 DEF D!vars, D!run, D!TypeOK, D!PressesArriveOnceInOrder
<1>8. QED
  BY <1>3, <1>4, <1>5, <1>6, <1>7 DEF D!Next, D!ClosePaste, D!Settle, D!End

-----------------------------------------------------------------------------
(* Commands end whole.                                                     *)

Killed == {"join_killed", "wait_killed", "waiting_killed"}

CommandTypes ==
  /\ pc \in E!Collecting \cup {"spawn", "poll", "returned"}
  /\ alive \subseteq E!Processes /\ holds \in [E!Processes -> SUBSET E!Streams]
  /\ written \in [E!Streams -> Nat] /\ consumed \in [E!Streams -> Nat]
  /\ kept \in [E!Streams -> Nat] /\ cut \in [E!Streams -> BOOLEAN]
  /\ reader \in [E!Streams -> {"reading", "ended", "failed"}]
  /\ result.kind \in {"none", "error", "completed", "interrupted"}

\* What the readers keep is the front of what was written; at the end of a pipe
\* it has all been read and nobody can write more.
ReadersInv ==
  \A s \in E!Streams :
    /\ consumed[s] <= written[s]
    /\ kept[s] = IF consumed[s] <= MaxOutput THEN consumed[s] ELSE MaxOutput
    /\ cut[s] <=> consumed[s] > MaxOutput
    /\ reader[s] = "ended" =>
         consumed[s] = written[s] /\ \A p \in alive : s \notin holds[p]

\* Nothing runs before the spawn, nothing of the group after a kill.
PlacesInv ==
  /\ \A p \in E!Processes \ alive : holds[p] = {}
  /\ joined \subseteq E!Stopped /\ cause \in E!Causes
  /\ pc = "spawn" => alive = {} /\ \A s \in E!Streams : reader[s] = "reading"
  /\ pc \in Killed => alive \cap E!Group = {}
  /\ pc = "returned" <=> result # E!NoResult
  /\ result = E!NoResult <=> result.kind = "none"

CommandInv ==
  CommandTypes /\ ReadersInv /\ PlacesInv /\ E!CompletedOutputIsWhole /\ E!InterruptionEndsTheGroup

LEMMA CommandInit == ASSUME E!CommandExecutionAssumption, E!Init PROVE CommandInv
<1>1. MaxOutput \in Nat  BY DEF E!CommandExecutionAssumption
<1>2. result.kind = "none"  BY DEF E!Init, E!NoResult
<1>3. CommandTypes  BY <1>2 DEF E!Init, CommandTypes
<1>4. ReadersInv
  <2>1. \A s \in E!Streams :
          /\ written[s] = 0 /\ consumed[s] = 0 /\ kept[s] = 0 /\ ~cut[s] /\ reader[s] = "reading"
    BY DEF E!Init
  <2>2. 0 <= MaxOutput /\ ~(0 > MaxOutput)  BY <1>1
  <2>3. QED  BY <2>1, <2>2 DEF ReadersInv
<1>5. PlacesInv  BY <1>2 DEF E!Init, PlacesInv, E!Causes, Killed
<1>6. QED
  BY <1>2, <1>3, <1>4, <1>5 DEF CommandInv, E!CompletedOutputIsWhole, E!InterruptionEndsTheGroup

\* The results differ by their kinds.
LEMMA Kinds ==
  /\ E!NoResult.kind = "none" /\ E!Failed.kind = "error" /\ E!Completed.kind = "completed"
  /\ \A why, partial : E!Interrupted(why, partial).kind = "interrupted"
BY DEF E!NoResult, E!Failed, E!Completed, E!Interrupted

\* The program and the readers, while the call has not returned.
LEMMA ProgramStep ==
  ASSUME E!CommandExecutionAssumption, CommandInv,
         E!Program \/ \E s \in E!Streams : E!Reader(s)
  PROVE  CommandInv'
<1>. USE DEF CommandInv
<1>1. MaxOutput \in Nat  BY DEF E!CommandExecutionAssumption
<1>2. UNCHANGED <<result, joined, cause>> /\ result = E!NoResult
  BY DEF E!Program, E!Exit, E!Fork, E!WriteOutput, E!Reader, E!ReadBounded, E!ReachEnd, E!ReadFails,
         E!collector, PlacesInv, CommandTypes
<1>3. E!CompletedOutputIsWhole' /\ E!InterruptionEndsTheGroup'
  BY <1>2, Kinds DEF E!CompletedOutputIsWhole, E!InterruptionEndsTheGroup
<1>4. ASSUME NEW p \in E!Processes, E!Exit(p) PROVE CommandTypes' /\ ReadersInv' /\ PlacesInv'
  BY <1>4 DEF E!Exit, E!readers, E!collector, CommandTypes, ReadersInv, PlacesInv, E!Stopped
<1>5. ASSUME NEW p \in E!Processes, E!Fork(p) PROVE CommandTypes' /\ ReadersInv' /\ PlacesInv'
  <2>1. PICK some \in SUBSET holds["child"] : holds' = [holds EXCEPT ![p] = some]
    BY <1>5 DEF E!Fork
  <2>2. "child" \in alive /\ "child" \in E!Group /\ "child" \in E!Processes /\ alive' = alive \cup {p}
    BY <1>5 DEF E!Fork, E!Group, E!Processes
  <2>3. UNCHANGED <<pc, written, consumed, kept, cut, reader, joined, cause, result>>
    BY <1>5 DEF E!Fork, E!readers, E!collector
  <2>4. CommandTypes'  BY <2>1, <2>2, <2>3 DEF CommandTypes
  <2>5. \A q \in E!Processes : holds'[q] = IF q = p THEN some ELSE holds[q]
    BY <2>1 DEF CommandTypes
  <2>6. ReadersInv'  BY <2>2, <2>3, <2>5 DEF ReadersInv, CommandTypes
  <2>7. PlacesInv'  BY <2>2, <2>3, <2>5 DEF PlacesInv, E!Stopped, CommandTypes
  <2>8. QED  BY <2>4, <2>6, <2>7
<1>6. ASSUME NEW p \in E!Processes, NEW s \in E!Streams, E!WriteOutput(p, s)
      PROVE  CommandTypes' /\ ReadersInv' /\ PlacesInv'
  <2>1. written' = [written EXCEPT ![s] = @ + 1] /\ p \in alive /\ s \in holds[p]
    BY <1>6 DEF E!WriteOutput
  <2>2. UNCHANGED <<pc, holds, alive, consumed, kept, cut, reader, joined, cause, result>>
    BY <1>6 DEF E!WriteOutput, E!readers, E!collector
  <2>3. written' \in [E!Streams -> Nat]  BY <2>1 DEF CommandTypes
  <2>4. ReadersInv'
    <3>1. reader[s] # "ended"  BY <2>1 DEF ReadersInv
    <3>2. \A t \in E!Streams : written[t] \in Nat /\ consumed[t] \in Nat  BY DEF CommandTypes
    <3>3. \A t \in E!Streams : written'[t] = IF t = s THEN written[t] + 1 ELSE written[t]
      BY <2>1 DEF CommandTypes
    <3>4. \A t \in E!Streams : consumed[t] <= written'[t]  BY <3>2, <3>3 DEF ReadersInv
    <3>5. QED  BY <2>2, <3>1, <3>3, <3>4 DEF ReadersInv
  <2>5. QED  BY <2>2, <2>3, <2>4 DEF CommandTypes, PlacesInv, E!Stopped
<1>7. ASSUME NEW s \in E!Streams, E!ReadBounded(s) PROVE CommandTypes' /\ ReadersInv' /\ PlacesInv'
  <2>1. /\ consumed' = [consumed EXCEPT ![s] = @ + 1] /\ consumed[s] < written[s]
        /\ kept' = IF cut[s] \/ kept[s] >= MaxOutput THEN kept ELSE [kept EXCEPT ![s] = @ + 1]
        /\ cut' = [cut EXCEPT ![s] = @ \/ kept[s] >= MaxOutput]
        /\ reader[s] = "reading" /\ pc \notin {"spawn", "returned"} /\ E!Woken
        /\ UNCHANGED <<holds, alive, written, reader, joined, cause, result>>
    BY <1>7 DEF E!ReadBounded, E!program, E!collector
  <2>2. pc' \in E!Collecting \cup {"poll"} /\ (pc' \in Killed <=> pc \in Killed)
    BY <2>1 DEF E!Woken, CommandTypes, E!Collecting, Killed
  <2>3. consumed[s] \in Nat /\ written[s] \in Nat /\ kept[s] \in Nat /\ cut[s] \in BOOLEAN
    BY DEF CommandTypes
  <2>4. /\ consumed' \in [E!Streams -> Nat] /\ kept' \in [E!Streams -> Nat]
        /\ cut' \in [E!Streams -> BOOLEAN]
    BY <1>1, <2>1, <2>3 DEF CommandTypes
  <2>5. ReadersInv'
    <3>1. ASSUME NEW t \in E!Streams, t # s
          PROVE  consumed'[t] = consumed[t] /\ kept'[t] = kept[t] /\ cut'[t] = cut[t]
      BY <2>1, <3>1 DEF CommandTypes
    <3>2. /\ consumed'[s] = consumed[s] + 1 /\ (cut'[s] <=> cut[s] \/ kept[s] >= MaxOutput)
          /\ kept'[s] = IF cut[s] \/ kept[s] >= MaxOutput THEN kept[s] ELSE kept[s] + 1
      BY <2>1 DEF CommandTypes
    <3>3. /\ kept[s] = IF consumed[s] <= MaxOutput THEN consumed[s] ELSE MaxOutput
          /\ cut[s] <=> consumed[s] > MaxOutput
      BY DEF ReadersInv
    <3>4. consumed'[s] <= written'[s]  BY <2>1, <2>3, <3>2
    <3>5. CASE consumed[s] < MaxOutput
      BY <1>1, <2>1, <2>3, <3>1, <3>2, <3>3, <3>4, <3>5 DEF ReadersInv
    <3>6. CASE ~(consumed[s] < MaxOutput)
      <4>1. kept[s] = MaxOutput  BY <1>1, <2>3, <3>3, <3>6
      <4>2. kept'[s] = MaxOutput /\ cut'[s]  BY <1>1, <3>2, <4>1
      <4>3. consumed'[s] > MaxOutput /\ ~(consumed'[s] <= MaxOutput)
        BY <1>1, <2>3, <3>2, <3>6
      <4>4. QED  BY <2>1, <3>1, <3>4, <4>2, <4>3 DEF ReadersInv
    <3>7. QED  BY <3>5, <3>6
  <2>6. CommandTypes'  BY <2>1, <2>2, <2>4 DEF CommandTypes
  <2>7. PlacesInv'
    <3>1. pc' \notin {"spawn", "returned"}  BY <2>2 DEF E!Collecting
    <3>2. QED  BY <2>1, <2>2, <3>1 DEF PlacesInv, E!Stopped
  <2>8. QED  BY <2>5, <2>6, <2>7
<1>8. ASSUME NEW s \in E!Streams, E!ReachEnd(s) \/ E!ReadFails(s)
      PROVE  CommandTypes' /\ ReadersInv' /\ PlacesInv'
  <2>1. /\ \/ /\ reader' = [reader EXCEPT ![s] = "ended"] /\ consumed[s] = written[s]
              /\ \A p \in alive : s \notin holds[p]
           \/ reader' = [reader EXCEPT ![s] = "failed"]
        /\ reader[s] = "reading" /\ pc \notin {"spawn", "returned"} /\ E!Woken
        /\ UNCHANGED <<holds, alive, written, consumed, kept, cut, joined, cause, result>>
    BY <1>8 DEF E!ReachEnd, E!ReadFails, E!program, E!collector
  <2>2. pc' \in E!Collecting \cup {"poll"} /\ (pc' \in Killed <=> pc \in Killed)
    BY <2>1 DEF E!Woken, CommandTypes, E!Collecting, Killed
  <2>3. /\ reader' \in [E!Streams -> {"reading", "ended", "failed"}]
        /\ \A t \in E!Streams : t # s => reader'[t] = reader[t]
        /\ reader'[s] = "ended" =>
             consumed[s] = written[s] /\ \A p \in alive : s \notin holds[p]
    BY <2>1 DEF CommandTypes
  <2>4. ReadersInv'  BY <2>1, <2>3 DEF ReadersInv
  <2>5. E!Stopped \subseteq E!Stopped'  BY <2>1, <2>3 DEF E!Stopped
  <2>6. CommandTypes'  BY <2>1, <2>2, <2>3 DEF CommandTypes
  <2>7. PlacesInv'
    <3>1. pc' \notin {"spawn", "returned"}  BY <2>2 DEF E!Collecting
    <3>2. QED  BY <2>1, <2>2, <2>5, <3>1 DEF PlacesInv
  <2>8. QED  BY <2>4, <2>6, <2>7
<1>9. QED
  BY <1>3, <1>4, <1>5, <1>6, <1>7, <1>8 DEF E!Program, E!Reader

\* The readers the collector joins have stopped, and it joins both only then.
LEMMA JoinsStopped ==
  ASSUME PlacesInv
  PROVE  /\ \A j \in E!Joinable : j \subseteq E!Stopped
         /\ E!Streams \in E!Joinable => E!Stopped = E!Streams
BY DEF PlacesInv, E!Joinable, E!Stopped

LEMMA CallStep ==
  ASSUME E!CommandExecutionAssumption, CommandInv, E!Call
  PROVE  CommandInv'
<1>. USE DEF CommandInv
<1>1. MaxOutput \in Nat  BY DEF E!CommandExecutionAssumption
<1>2. UNCHANGED <<written, consumed, kept, cut, reader>>
  BY DEF E!Call, E!Refuse, E!Spawn, E!PollInterrupted, E!WaitFails, E!ChildReaped, E!CollectExited,
         E!Complete, E!Stalled, E!CollectKilled, E!ReturnPartial, E!Interrupt, E!Collect,
         E!WaitForActivity, E!WaitReturns, E!program, E!readers
<1>3. E!Stopped' = E!Stopped  BY <1>2 DEF E!Stopped
\* A step that keeps the processes and returns nothing.
<1>4. ASSUME pc # "returned", pc' \in E!Collecting, pc' \in Killed => pc \in Killed,
             joined' \subseteq E!Stopped, UNCHANGED <<alive, holds, cause, result>>
      PROVE  CommandInv'
  <2>1. CommandTypes'  BY <1>2, <1>4 DEF CommandTypes
  <2>2. ReadersInv'  BY <1>2, <1>4 DEF ReadersInv
  <2>3. PlacesInv'  BY <1>3, <1>4 DEF PlacesInv, E!Collecting
  <2>4. result = E!NoResult  BY <1>4 DEF PlacesInv
  <2>5. QED
    BY <1>4, <2>1, <2>2, <2>3, <2>4, Kinds DEF E!CompletedOutputIsWhole, E!InterruptionEndsTheGroup
\* A step that kills the program.
<1>5. ASSUME NEW why \in E!Causes, E!Interrupt(why), pc \in {"poll", "join"},
             joined' \subseteq E!Stopped
      PROVE  CommandInv'
  <2>1. /\ alive' = alive \ E!Group
        /\ holds' = [p \in E!Processes |-> IF p \in alive' THEN holds[p] ELSE {}]
        /\ pc' = "join_killed" /\ cause' = why /\ result' = result
    BY <1>5 DEF E!Interrupt, E!TerminateProcessTree
  <2>2. CommandTypes'  BY <1>2, <2>1 DEF CommandTypes, E!Collecting
  <2>3. ReadersInv'  BY <1>2, <2>1 DEF ReadersInv, CommandTypes
  <2>4. PlacesInv'  BY <1>3, <1>5, <2>1 DEF PlacesInv
  <2>5. result = E!NoResult  BY <1>5 DEF PlacesInv
  <2>6. QED
    BY <2>1, <2>2, <2>3, <2>4, <2>5, Kinds DEF E!CompletedOutputIsWhole, E!InterruptionEndsTheGroup
\* A step that returns.
<1>6. ASSUME pc' = "returned", UNCHANGED <<alive, holds, cause>>, joined' \subseteq E!Stopped,
             result'.kind \in {"error", "completed", "interrupted"},
             E!CompletedOutputIsWhole', E!InterruptionEndsTheGroup'
      PROVE  CommandInv'
  <2>1. result' # E!NoResult  BY <1>6, Kinds
  <2>2. CommandTypes'  BY <1>2, <1>6 DEF CommandTypes
  <2>3. ReadersInv'  BY <1>2, <1>6 DEF ReadersInv
  <2>4. PlacesInv'  BY <1>3, <1>6, <2>1 DEF PlacesInv, Killed
  <2>5. QED  BY <1>6, <2>2, <2>3, <2>4
<1>7. CASE E!Refuse
  <2>1. result'.kind \in {"error", "interrupted"}
    BY <1>7, Kinds DEF E!Refuse
  <2>2. alive' = {} /\ pc' = "returned" /\ UNCHANGED <<alive, holds, cause, joined>>
    BY <1>7 DEF E!Refuse, E!program, E!collector, PlacesInv
  <2>3. E!CompletedOutputIsWhole' /\ E!InterruptionEndsTheGroup'
    BY <2>1, <2>2 DEF E!CompletedOutputIsWhole, E!InterruptionEndsTheGroup
  <2>4. QED  BY <1>6, <2>1, <2>2, <2>3 DEF PlacesInv
<1>8. CASE E!Spawn
  <2>1. /\ pc = "spawn" /\ pc' = "poll" /\ alive' = {"child"} /\ UNCHANGED <<joined, cause, result>>
        /\ holds' = [holds EXCEPT !["child"] = E!Streams]
    BY <1>8 DEF E!Spawn, E!collector
  <2>2. "child" \in E!Processes  BY DEF E!Processes, E!Group
  <2>3. \A p \in E!Processes : holds'[p] = IF p = "child" THEN E!Streams ELSE holds[p]
    BY <2>1 DEF CommandTypes
  <2>4. CommandTypes'  BY <1>2, <2>1, <2>2 DEF CommandTypes
  <2>5. ReadersInv'  BY <1>2, <2>1 DEF ReadersInv, PlacesInv
  <2>6. PlacesInv'  BY <1>3, <2>1, <2>3 DEF PlacesInv, Killed
  <2>7. result = E!NoResult  BY <2>1 DEF PlacesInv
  <2>8. QED
    BY <2>1, <2>4, <2>5, <2>6, <2>7, Kinds DEF E!CompletedOutputIsWhole, E!InterruptionEndsTheGroup
<1>9. CASE E!PollInterrupted \/ E!WaitFails
  <2>1. PICK why \in E!Causes : E!Interrupt(why)
    BY <1>9 DEF E!PollInterrupted, E!WaitFails, E!InterruptionCause, E!Causes
  <2>2. pc = "poll" /\ joined' = joined  BY <1>9 DEF E!PollInterrupted, E!WaitFails
  <2>3. QED  BY <1>5, <2>1, <2>2 DEF PlacesInv
<1>10. CASE E!ChildReaped
  BY <1>4, <1>10 DEF E!ChildReaped, E!program, PlacesInv, E!Collecting, Killed
<1>11. ASSUME NEW next \in E!Collecting, NEW killed, E!Collect(next, killed), pc \in E!Collecting,
              next \in Killed => pc \in Killed
       PROVE  CommandInv'
  BY <1>4, <1>11, JoinsStopped DEF E!Collect, E!program, E!Collecting
<1>12. ASSUME NEW from \in E!Collecting, NEW waiting \in E!Collecting, NEW back \in E!Collecting,
              E!WaitForActivity(from, waiting, back) \/ E!WaitReturns(from, back),
              waiting \in Killed => from \in Killed, back \in Killed => from \in Killed
       PROVE  CommandInv'
  <2>1. /\ pc = from /\ pc' \in {waiting, back}
        /\ UNCHANGED <<alive, holds, joined, cause, result>>
    BY <1>12 DEF E!WaitForActivity, E!WaitReturns, E!program, E!collector
  <2>2. pc # "returned"  BY <2>1 DEF E!Collecting
  <2>3. pc' \in E!Collecting /\ (pc' \in Killed => pc \in Killed)  BY <1>12, <2>1
  <2>4. QED  BY <1>4, <2>1, <2>2, <2>3 DEF PlacesInv
<1>13. CASE E!CollectExited \/ E!CollectKilled
  BY <1>11, <1>12, <1>13 DEF E!CollectExited, E!CollectKilled, E!Collecting, Killed
<1>14. CASE E!Complete
  <2>1. /\ pc' = "returned" /\ joined' = E!Streams /\ UNCHANGED <<alive, holds, cause>>
        /\ result' = IF \E s \in E!Streams : reader[s] = "failed" THEN E!Failed ELSE E!Completed
    BY <1>14 DEF E!Complete, E!program
  <2>2. E!Stopped = E!Streams  BY <1>14, JoinsStopped DEF E!Complete
  <2>3. ASSUME result' = E!Completed, \A s \in E!Streams : reader[s] # "failed"
        PROVE  E!CompletedOutputIsWhole'
    <3>1. \A s \in E!Streams : reader[s] = "ended"  BY <2>2, <2>3 DEF E!Stopped
    <3>2. \A s \in E!Streams :
            /\ consumed[s] = written[s] /\ \A p \in alive : s \notin holds[p]
            /\ cut[s] <=> written[s] > MaxOutput
      BY <3>1 DEF ReadersInv
    <3>3. result'.kept = kept /\ result'.truncated = (\E s \in E!Streams : cut[s])
      BY <2>3 DEF E!Completed
    <3>4. (\A s \in E!Streams : ~cut[s]) => kept = written
      <4>1. ASSUME NEW s \in E!Streams, ~cut[s] PROVE kept[s] = written[s]
        <5>1. consumed[s] \in Nat /\ ~(consumed[s] > MaxOutput)  BY <3>2, <4>1 DEF CommandTypes
        <5>2. kept[s] = consumed[s]  BY <1>1, <5>1 DEF ReadersInv
        <5>3. QED  BY <3>2, <5>2
      <4>2. QED  BY <4>1 DEF CommandTypes
    <3>5. QED  BY <1>2, <2>1, <3>2, <3>3, <3>4 DEF E!CompletedOutputIsWhole
  <2>4. E!CompletedOutputIsWhole' /\ result'.kind \in {"error", "completed"}
    BY <2>1, <2>3, Kinds DEF E!CompletedOutputIsWhole
  <2>5. E!InterruptionEndsTheGroup'  BY <2>4 DEF E!InterruptionEndsTheGroup
  <2>6. QED  BY <1>6, <2>1, <2>2, <2>4, <2>5
<1>15. CASE E!Stalled
  <2>1. PICK why \in E!Causes : E!Interrupt(why)
    BY <1>15 DEF E!Stalled, E!InterruptionCause, E!Causes
  <2>2. pc = "join" /\ joined' \subseteq E!Stopped  BY <1>15, JoinsStopped DEF E!Stalled
  <2>3. QED  BY <1>5, <2>1, <2>2
<1>16. CASE E!ReturnPartial
  <2>1. /\ pc = "join_killed" /\ pc' = "returned" /\ UNCHANGED <<alive, holds, cause>>
        /\ joined' \in E!Joinable /\ result'.kind = "interrupted"
    BY <1>16, Kinds DEF E!ReturnPartial, E!program
  <2>2. alive \cap E!Group = {}  BY <2>1 DEF PlacesInv, Killed
  <2>3. E!CompletedOutputIsWhole' /\ E!InterruptionEndsTheGroup'
    BY <2>1, <2>2 DEF E!CompletedOutputIsWhole, E!InterruptionEndsTheGroup
  <2>4. QED  BY <1>6, <2>1, <2>3, JoinsStopped
<1>17. QED
  BY <1>7, <1>8, <1>9, <1>10, <1>13, <1>14, <1>15, <1>16 DEF E!Call

LEMMA CommandStep ==
  ASSUME E!CommandExecutionAssumption, CommandInv, [E!Next]_(E!vars)
  PROVE  CommandInv'
<1>1. CASE E!Cancel \/ E!DeadlinePasses \/ E!WindowRunsOut \/ UNCHANGED E!vars
  <2>1. UNCHANGED <<pc, holds, alive, written, consumed, kept, cut, reader, joined, cause, result>>
    BY <1>1 DEF E!Cancel, E!DeadlinePasses, E!WindowRunsOut, E!vars, E!program, E!readers, E!collector
  <2>2. QED
    BY <2>1 DEF CommandInv, CommandTypes, ReadersInv, PlacesInv, E!Stopped,
                E!CompletedOutputIsWhole, E!InterruptionEndsTheGroup
<1>2. QED  BY <1>1, ProgramStep, CallStep DEF E!Next

\* The readers keep no more than they read, and read no more than is written.
LEMMA CommandTyped == ASSUME E!CommandExecutionAssumption, CommandInv PROVE E!TypeOK
<1>1. ASSUME NEW s \in E!Streams PROVE kept[s] <= consumed[s] /\ consumed[s] <= written[s]
  <2>1. MaxOutput \in Nat /\ consumed[s] \in Nat
    BY DEF E!CommandExecutionAssumption, CommandInv, CommandTypes
  <2>2. /\ consumed[s] <= written[s]
        /\ kept[s] = IF consumed[s] <= MaxOutput THEN consumed[s] ELSE MaxOutput
    BY DEF CommandInv, ReadersInv
  <2>3. QED  BY <2>1, <2>2
<1>2. QED  BY <1>1 DEF CommandInv, CommandTypes, PlacesInv, E!TypeOK

-----------------------------------------------------------------------------
(* Connections answer.                                                     *)

\* The session a connection is registered for, if for any: the one it asked for
\* between the worker's success and its confirmation, else its guard's.
Owner(k) == IF phase[k] = "confirming" /\ outcome[k] THEN asked[k] ELSE guard[k]

\* The registry holds a connection for the session it owns, once, until it ended.
RegistryInv ==
  \A s \in Sessions :
    /\ OccursOnce(registry[s])
    /\ \A k \in Range(registry[s]) : phase[k] # "ended" /\ s = Owner(k)

\* A connection that owns a session is in its place of the registry or has been
\* told to close.
FollowedInv ==
  \A k \in Connections :
    /\ phase[k] \in {"registering", "confirming"} => asked[k] \in Sessions
    /\ phase[k] \in {"registering", "dispatching"} => read[k] # 0
    /\ phase[k] \in Link!Running /\ Owner(k) # NoSession =>
         closing[k] \/ k \in Range(registry[Owner(k)])

\* Nothing answers a request that was not read.
IdsInv ==
  \A k \in Connections :
    /\ \A id \in Range(answered[k]) : id <= read[k]
    /\ \A m \in Range(queue[k]) : m.id <= read[k]
    /\ out[k].id <= read[k]

Answers(id) == {m \in Link!Messages : m.id = id}
InHand(k, id) ==
  \/ phase[k] \in {"dispatching", "registering"} /\ read[k] = id
  \/ phase[k] = "writing" /\ out[k].id = id
Accounted(k, id) ==
  Cardinality(Positions(answered[k], {id})) + Cardinality(Positions(queue[k], Answers(id)))
    + (IF InHand(k, id) THEN 1 ELSE 0) = 1
AccountedInv ==
  \A k \in Connections :
    phase[k] \in Link!Running /\ ~closing[k] => \A id \in 1 .. read[k] : Accounted(k, id)

LinkInv == Link!TypeOK /\ RegistryInv /\ FollowedInv /\ IdsInv /\ AccountedInv

LEMMA MessagesTyped ==
  ASSUME Link!HostConnectionAssumption
  PROVE  /\ Link!Frame \in Link!Messages /\ Link!Frame.id = 0
         /\ \A id \in 0 .. MaxRequests :
              /\ Link!Reply(id) \in Link!Messages /\ Link!Reply(id).id = id
              /\ Link!Rejection(id) \in Link!Messages /\ Link!Rejection(id).id = id
         /\ 0 \in 0 .. MaxRequests /\ MaxRequests \in Nat /\ Capacity \in Nat /\ MaxFrames \in Nat
BY DEF Link!HostConnectionAssumption, Link!Frame, Link!Messages, Link!Reply, Link!Rejection

LEMMA LinkInit == ASSUME Link!HostConnectionAssumption, Link!Init PROVE LinkInv
<1>1. Link!TypeOK
  <2>1. 0 \in 0 .. MaxFrames  BY MessagesTyped
  <2>2. <<>> \in Seq(Link!Messages) /\ <<>> \in Seq(1 .. MaxRequests) /\ <<>> \in Seq(Connections)
        /\ Len(<<>>) = 0
    OBVIOUS
  <2>3. "serving" \in Link!Running  BY DEF Link!Running
  <2>4. Len(<<>>) <= Capacity  BY <2>2, MessagesTyped
  <2>5. QED  BY <2>1, <2>2, <2>3, <2>4, MessagesTyped DEF Link!Init, Link!TypeOK
<1>2. Range(<<>>) = {} /\ OccursOnce(<<>>)  BY DEF Range, OccursOnce
<1>3. RegistryInv  BY <1>2 DEF Link!Init, RegistryInv
<1>4. FollowedInv  BY DEF Link!Init, FollowedInv, Owner
<1>5. IdsInv  BY <1>2, MessagesTyped DEF Link!Init, IdsInv
<1>6. AccountedInv  BY DEF Link!Init, AccountedInv
<1>7. QED  BY <1>1, <1>3, <1>4, <1>5, <1>6 DEF LinkInv

LEMMA LinkWithin == ASSUME NEW s, NEW T PROVE Link!Within(s, T) = Within(s, T)
BY DEF Link!Within, Within

\* What is left of a session's subscribers when a set of them is kept.
LEMMA KeptSubscribers ==
  ASSUME NEW s \in Seq(Connections), NEW T
  PROVE  /\ Link!Within(s, T) \in Seq(Connections)
         /\ Range(Link!Within(s, T)) = Range(s) \cap T
         /\ OccursOnce(s) => OccursOnce(Link!Within(s, T))
BY LinkWithin, WithinRange

\* A queue that is not full takes a message.
LEMMA SendTyped ==
  ASSUME Link!HostConnectionAssumption, Link!TypeOK, NEW k \in Connections,
         NEW m \in Link!Messages, Link!TrySend(k, m)
  PROVE  /\ queue' \in [Connections -> Seq(Link!Messages)]
         /\ \A j \in Connections : Len(queue'[j]) <= Capacity
         /\ closing' \in [Connections -> BOOLEAN]
<1>1. CASE Link!Full(k)
  BY <1>1 DEF Link!TrySend, Link!TypeOK
<1>2. CASE ~Link!Full(k)
  <2>1. queue' = [queue EXCEPT ![k] = Append(@, m)] /\ closing' = closing
    BY <1>2 DEF Link!TrySend
  <2>2. Append(queue[k], m) \in Seq(Link!Messages) /\ Len(Append(queue[k], m)) = Len(queue[k]) + 1
        /\ Len(queue[k]) \in Nat
    BY DEF Link!TypeOK
  <2>3. Len(queue[k]) + 1 <= Capacity  BY <1>2, <2>2, MessagesTyped DEF Link!Full
  <2>4. QED  BY <2>1, <2>2, <2>3 DEF Link!TypeOK
<1>3. QED  BY <1>1, <1>2

LEMMA LinkTypeStep ==
  ASSUME Link!HostConnectionAssumption, Link!TypeOK, FollowedInv, [Link!Next]_(Link!vars)
  PROVE  Link!TypeOK'
<1>1. \A k \in Connections : read[k] \in 0 .. MaxRequests  BY DEF Link!TypeOK
<1>2. ASSUME NEW k \in Connections, Link!ReadMalformed(k) PROVE Link!TypeOK'
  BY <1>2, MessagesTyped DEF Link!ReadMalformed, Link!Goto, Link!TypeOK, Link!Running
<1>3. ASSUME NEW k \in Connections, Link!ReadSubscribe(k) PROVE Link!TypeOK'
  <2>1. read[k] + 1 \in 0 .. MaxRequests
    BY <1>1, <1>3, MessagesTyped DEF Link!ReadSubscribe
  <2>2. QED  BY <1>3, <2>1 DEF Link!ReadSubscribe, Link!Goto, Link!TypeOK, Link!Running
<1>4. ASSUME NEW k \in Connections, Link!ReadCommand(k) PROVE Link!TypeOK'
  <2>1. read[k] + 1 \in 0 .. MaxRequests
    BY <1>1, <1>4, MessagesTyped DEF Link!ReadCommand
  <2>2. QED  BY <1>4, <2>1 DEF Link!ReadCommand, Link!Goto, Link!TypeOK, Link!Running
<1>5. ASSUME NEW k \in Connections, Link!ReadFails(k) PROVE Link!TypeOK'
  BY <1>5 DEF Link!ReadFails, Link!Goto, Link!TypeOK
<1>6. ASSUME NEW k \in Connections, Link!DispatchRequest(k) PROVE Link!TypeOK'
  BY <1>1, <1>6, MessagesTyped DEF Link!DispatchRequest, Link!Goto, Link!TypeOK, Link!Running
<1>7. ASSUME NEW k \in Connections, Link!RegisterSubscriber(k) PROVE Link!TypeOK'
  <2>1. Link!TrySend(k, Link!Reply(read[k]))  BY <1>7 DEF Link!RegisterSubscriber
  <2>2. Link!Reply(read[k]) \in Link!Messages  BY <1>1, MessagesTyped
  <2>3. asked[k] \in Sessions  BY <1>7 DEF FollowedInv, Link!RegisterSubscriber
  <2>4. registry' \in [Sessions -> Seq(Connections)]
    <3>1. \A s \in Sessions : Link!Without(k, s) \in Seq(Connections)
      BY KeptSubscribers DEF Link!TypeOK, Link!Without
    <3> DEFINE old == IF guard[k] = NoSession THEN registry
                      ELSE [registry EXCEPT ![guard[k]] = Link!Without(k, guard[k])]
    <3>2. old \in [Sessions -> Seq(Connections)]
      BY <3>1 DEF Link!TypeOK
    <3>3. registry' = IF Link!Full(k) THEN registry ELSE [old EXCEPT ![asked[k]] = Append(@, k)]
      BY <1>7 DEF Link!RegisterSubscriber
    <3> HIDE DEF old
    <3>4. Append(old[asked[k]], k) \in Seq(Connections)  BY <2>3, <3>2
    <3>5. QED  BY <3>2, <3>3, <3>4 DEF Link!TypeOK
  <2>5. QED
    BY <1>7, <2>1, <2>2, <2>4, SendTyped DEF Link!RegisterSubscriber, Link!Goto, Link!TypeOK, Link!Running
<1>8. ASSUME NEW k \in Connections, Link!RefuseSubscriber(k) PROVE Link!TypeOK'
  <2>1. Link!TrySend(k, Link!Rejection(read[k]))  BY <1>8 DEF Link!RefuseSubscriber
  <2>2. Link!Rejection(read[k]) \in Link!Messages  BY <1>1, MessagesTyped
  <2>3. QED
    BY <1>8, <2>1, <2>2, SendTyped DEF Link!RefuseSubscriber, Link!Goto, Link!TypeOK, Link!Running
<1>9. ASSUME NEW k \in Connections, Link!Confirm(k) PROVE Link!TypeOK'
  BY <1>9 DEF Link!Confirm, Link!Goto, Link!TypeOK, Link!Running
<1>10. ASSUME NEW k \in Connections, Link!TakeQueued(k) PROVE Link!TypeOK'
  <2>1. queue[k] \in Seq(Link!Messages) /\ queue[k] # <<>> /\ Len(queue[k]) <= Capacity
    BY <1>10 DEF Link!TakeQueued, Link!TypeOK
  <2>2. Head(queue[k]) \in Link!Messages /\ Tail(queue[k]) \in Seq(Link!Messages)
        /\ Len(Tail(queue[k])) <= Capacity
    BY <2>1, MessagesTyped
  <2>3. QED  BY <1>10, <2>2 DEF Link!TakeQueued, Link!Goto, Link!TypeOK, Link!Running
<1>11. ASSUME NEW k \in Connections, Link!SeeClose(k) PROVE Link!TypeOK'
  BY <1>11 DEF Link!SeeClose, Link!Goto, Link!TypeOK
<1>12. ASSUME NEW k \in Connections, Link!Written(k, out[k].id), Link!Goto(k, "serving"),
              UNCHANGED <<read, asked, outcome, guard, queue, closing, registry, frames>>
       PROVE  Link!TypeOK'
  <2>1. out[k].id \in 0 .. MaxRequests  BY DEF Link!TypeOK, Link!Messages
  <2>2. out[k].id # 0 => Append(answered[k], out[k].id) \in Seq(1 .. MaxRequests)
    <3>1. out[k].id # 0 => out[k].id \in 1 .. MaxRequests  BY <2>1, MessagesTyped
    <3>2. QED  BY <3>1 DEF Link!TypeOK
  <2>3. answered' \in [Connections -> Seq(1 .. MaxRequests)]
    BY <1>12, <2>2 DEF Link!Written, Link!TypeOK
  <2>4. QED  BY <1>12, <2>3, MessagesTyped DEF Link!Written, Link!Goto, Link!TypeOK, Link!Running
<1>13. ASSUME NEW k \in Connections, Link!WriteFails(k) PROVE Link!TypeOK'
  BY <1>13, MessagesTyped DEF Link!WriteFails, Link!Goto, Link!TypeOK
<1>14. ASSUME NEW k \in Connections, Link!EndConnection(k) PROVE Link!TypeOK'
  <2>1. \A s \in Sessions : Link!Without(k, s) \in Seq(Connections)
    BY KeptSubscribers DEF Link!TypeOK, Link!Without
  <2>2. registry' \in [Sessions -> Seq(Connections)]
    BY <1>14, <2>1 DEF Link!EndConnection, Link!TypeOK
  <2>3. <<>> \in Seq(Link!Messages) /\ Len(<<>>) <= Capacity  BY MessagesTyped
  <2>4. QED  BY <1>14, <2>2, <2>3 DEF Link!EndConnection, Link!Goto, Link!TypeOK
<1>15. ASSUME NEW s \in Sessions, Link!Broadcast(s) PROVE Link!TypeOK'
  <2> DEFINE Slow == {k \in Link!ToSet(registry[s]) : Link!Full(k)}
  <2>1. registry' = [registry EXCEPT ![s] = Link!Within(@, Connections \ Slow)]
        /\ closing' = [k \in Connections |-> closing[k] \/ k \in Slow]
        /\ queue' = [k \in Connections |->
                       IF k \in Link!ToSet(registry[s]) \ Slow
                       THEN Append(queue[k], Link!Frame) ELSE queue[k]]
        /\ frames < MaxFrames /\ frames' = frames + 1 /\ UNCHANGED Link!task
    BY <1>15 DEF Link!Broadcast
  <2>2. registry' \in [Sessions -> Seq(Connections)]  BY <2>1, KeptSubscribers DEF Link!TypeOK
  <2>3. frames' \in 0 .. MaxFrames  BY <2>1, MessagesTyped DEF Link!TypeOK
  <2>4. ASSUME NEW k \in Connections
        PROVE  queue'[k] \in Seq(Link!Messages) /\ Len(queue'[k]) <= Capacity
    <3>1. CASE k \in Link!ToSet(registry[s]) \ Slow
      <4>1. ~Link!Full(k)  BY <3>1
      <4>2. queue'[k] = Append(queue[k], Link!Frame)  BY <2>1, <3>1
      <4>3. queue[k] \in Seq(Link!Messages)  BY DEF Link!TypeOK
      <4>4. QED  BY <4>1, <4>2, <4>3, MessagesTyped DEF Link!Full
    <3>2. CASE ~(k \in Link!ToSet(registry[s]) \ Slow)
      BY <2>1, <3>2 DEF Link!TypeOK
    <3>3. QED  BY <3>1, <3>2
  <2>5. closing' \in [Connections -> BOOLEAN]  BY <2>1 DEF Link!TypeOK
  <2> HIDE DEF Slow
  <2>6. queue' \in [Connections -> Seq(Link!Messages)]  BY <2>1, <2>4
  <2>7. QED  BY <2>1, <2>2, <2>3, <2>4, <2>5, <2>6 DEF Link!task, Link!TypeOK
<1>16. CASE UNCHANGED Link!vars
  BY <1>16 DEF Link!vars, Link!task, Link!TypeOK
<1>17. ASSUME NEW k \in Connections, Link!WriteMessage(k) \/ Link!WriteOversizeReply(k) PROVE Link!TypeOK'
  BY <1>12, <1>17 DEF Link!WriteMessage, Link!WriteOversizeReply
<1>18. QED
  BY <1>2, <1>3, <1>4, <1>5, <1>6, <1>7, <1>8, <1>9, <1>10, <1>11, <1>13, <1>14, <1>15, <1>16, <1>17
  DEF Link!Next, Link!Serve, Link!Read, Link!Register, Link!Write
\* A step of a connection's task touches no other connection.
LEMMA OthersKept ==
  ASSUME Link!TypeOK, NEW k \in Connections, Link!Serve(k), NEW j \in Connections, j # k
  PROVE  /\ phase'[j] = phase[j] /\ read'[j] = read[j] /\ asked'[j] = asked[j]
         /\ outcome'[j] = outcome[j] /\ guard'[j] = guard[j] /\ queue'[j] = queue[j]
         /\ out'[j] = out[j] /\ answered'[j] = answered[j] /\ closing'[j] = closing[j]
<1>1. CASE Link!Read(k)
  BY <1>1 DEF Link!Read, Link!ReadMalformed, Link!ReadSubscribe, Link!ReadCommand, Link!ReadFails,
    Link!Goto, Link!TypeOK
<1>2. CASE Link!DispatchRequest(k)
  BY <1>2 DEF Link!DispatchRequest, Link!Goto, Link!TypeOK
<1>3. CASE Link!Register(k)
  BY <1>3 DEF Link!Register, Link!RegisterSubscriber, Link!RefuseSubscriber, Link!Confirm, Link!TrySend,
    Link!Goto, Link!TypeOK
<1>4. CASE Link!TakeQueued(k) \/ Link!SeeClose(k)
  BY <1>4 DEF Link!TakeQueued, Link!SeeClose, Link!Goto, Link!TypeOK
<1>5. CASE Link!Write(k)
  BY <1>5 DEF Link!Write, Link!WriteMessage, Link!WriteOversizeReply, Link!WriteFails, Link!Written,
    Link!Goto, Link!TypeOK
<1>6. CASE Link!EndConnection(k)
  BY <1>6 DEF Link!EndConnection, Link!Goto, Link!TypeOK
<1>7. QED  BY <1>1, <1>2, <1>3, <1>4, <1>5, <1>6 DEF Link!Serve

\* Without its entry in the session it owns, a connection is in no session's list.
LEMMA Released ==
  ASSUME Link!HostConnectionAssumption, Link!TypeOK, RegistryInv, NEW k \in Connections,
         Owner(k) = guard[k],
         NEW r, r = IF guard[k] = NoSession THEN registry
                    ELSE [registry EXCEPT ![guard[k]] = Link!Without(k, guard[k])]
  PROVE  /\ r \in [Sessions -> Seq(Connections)]
         /\ \A s \in Sessions : /\ OccursOnce(r[s])
                                /\ Range(r[s]) = Range(registry[s]) \ {k}
<1>1. ASSUME NEW s \in Sessions
      PROVE  /\ Link!Without(k, s) \in Seq(Connections) /\ OccursOnce(Link!Without(k, s))
             /\ Range(Link!Without(k, s)) = Range(registry[s]) \ {k}
  <2>1. registry[s] \in Seq(Connections) /\ OccursOnce(registry[s])
    BY DEF Link!TypeOK, RegistryInv
  <2>2. Range(registry[s]) \subseteq Connections
    BY <2>1 DEF Range
  <2>3. QED  BY <2>1, <2>2, KeptSubscribers DEF Link!Without
<1>2. \A s \in Sessions : s # guard[k] => k \notin Range(registry[s])
  BY DEF RegistryInv
<1>3. \A s \in Sessions : r[s] = IF s = guard[k] THEN Link!Without(k, s) ELSE registry[s]
  BY DEF Link!TypeOK, Link!HostConnectionAssumption
<1>4. r \in [Sessions -> Seq(Connections)]
  BY <1>1 DEF Link!TypeOK
<1>5. ASSUME NEW s \in Sessions
      PROVE  OccursOnce(r[s]) /\ Range(r[s]) = Range(registry[s]) \ {k}
  <2>1. OccursOnce(registry[s])  BY DEF RegistryInv
  <2>2. CASE s = guard[k]  BY <1>1, <1>3, <2>2
  <2>3. CASE s # guard[k]
    <3>1. r[s] = registry[s] /\ k \notin Range(registry[s])  BY <1>2, <1>3, <2>3
    <3>2. QED  BY <2>1, <3>1
  <2>4. QED  BY <2>2, <2>3
<1>6. QED  BY <1>4, <1>5

\* A step of a task that leaves the registry alone, and of k what it owns.
LEMMA RegistryStays ==
  ASSUME Link!TypeOK, RegistryInv, NEW k \in Connections, Link!Serve(k), registry' = registry,
         phase'[k] # "ended", Owner(k)' = Owner(k)
  PROVE  RegistryInv'
<1>1. \A s \in Sessions : Range(registry[s]) \subseteq Connections
  BY DEF Link!TypeOK, Range
<1>2. \A j \in Connections : j # k => phase'[j] = phase[j] /\ Owner(j)' = Owner(j)
  BY OthersKept DEF Owner
<1>3. QED  BY <1>1, <1>2 DEF RegistryInv

LEMMA RegistryStep ==
  ASSUME Link!HostConnectionAssumption, Link!TypeOK, RegistryInv, FollowedInv, [Link!Next]_(Link!vars)
  PROVE  RegistryInv'
<1>1. ASSUME NEW k \in Connections, Link!Read(k) PROVE RegistryInv'
  <2>1. registry' = registry /\ phase'[k] # "ended" /\ Owner(k)' = Owner(k) /\ Link!Serve(k)
    BY <1>1 DEF Link!Serve, Link!Read, Link!ReadMalformed, Link!ReadSubscribe, Link!ReadCommand,
      Link!ReadFails, Link!Goto, Link!TypeOK, Owner
  <2>2. QED  BY <2>1, RegistryStays
<1>2. ASSUME NEW k \in Connections, Link!DispatchRequest(k) PROVE RegistryInv'
  <2>1. registry' = registry /\ phase'[k] # "ended" /\ Owner(k)' = Owner(k) /\ Link!Serve(k)
    BY <1>2 DEF Link!Serve, Link!DispatchRequest, Link!Goto, Link!TypeOK, Owner
  <2>2. QED  BY <2>1, RegistryStays
<1>3. ASSUME NEW k \in Connections, Link!RegisterSubscriber(k) PROVE RegistryInv'
  <2>1. phase[k] = "registering" /\ phase'[k] = "confirming" /\ outcome'[k] = ~Link!Full(k)
        /\ guard' = guard /\ asked' = asked /\ asked[k] \in Sessions /\ Link!Serve(k)
    BY <1>3 DEF Link!Serve, Link!Register, Link!RegisterSubscriber, Link!Goto, Link!TypeOK, FollowedInv
  <2>2. CASE Link!Full(k)
    <3>1. registry' = registry /\ Owner(k)' = Owner(k)
      BY <1>3, <2>1, <2>2 DEF Link!RegisterSubscriber, Owner
    <3>2. QED  BY <2>1, <3>1, RegistryStays
  <2>3. CASE ~Link!Full(k)
    <3> DEFINE old == IF guard[k] = NoSession THEN registry
                      ELSE [registry EXCEPT ![guard[k]] = Link!Without(k, guard[k])]
    <3>1. registry' = [old EXCEPT ![asked[k]] = Append(@, k)]
      BY <1>3, <2>3 DEF Link!RegisterSubscriber
    <3>2. Owner(k) = guard[k] /\ Owner(k)' = asked[k]  BY <2>1, <2>3 DEF Owner
    <3>3. /\ old \in [Sessions -> Seq(Connections)]
          /\ \A s \in Sessions : OccursOnce(old[s]) /\ Range(old[s]) = Range(registry[s]) \ {k}
      BY <3>2, Released
    <3> HIDE DEF old
    <3>4. \A j \in Connections : j # k => phase'[j] = phase[j] /\ Owner(j)' = Owner(j)
      BY <2>1, OthersKept DEF Owner
    <3>5. ASSUME NEW s \in Sessions
          PROVE  /\ OccursOnce(registry'[s])
                 /\ Range(registry'[s]) = (Range(registry[s]) \ {k}) \cup (IF s = asked[k] THEN {k} ELSE {})
      <4>1. CASE s = asked[k]
        <5>1. registry'[s] = Append(old[s], k) /\ old[s] \in Seq(Connections) /\ OccursOnce(old[s])
              /\ k \notin Range(old[s])
          BY <3>1, <3>3, <4>1
        <5>2. QED  BY <3>3, <4>1, <5>1, AppendOnce, RangeOfAppend
      <4>2. CASE s # asked[k]
        BY <3>1, <3>3, <4>2
      <4>3. QED  BY <4>1, <4>2
    <3>6. \A s \in Sessions : Range(registry[s]) \subseteq Connections
      BY DEF Link!TypeOK, Range
    <3>7. QED  BY <2>1, <3>2, <3>4, <3>5, <3>6 DEF RegistryInv
  <2>4. QED  BY <2>2, <2>3
<1>4. ASSUME NEW k \in Connections, Link!RefuseSubscriber(k) \/ Link!Confirm(k) PROVE RegistryInv'
  <2>1. registry' = registry /\ phase'[k] # "ended" /\ Owner(k)' = Owner(k) /\ Link!Serve(k)
    BY <1>4 DEF Link!Serve, Link!Register, Link!RefuseSubscriber, Link!Confirm, Link!Goto, Link!TypeOK, Owner
  <2>2. QED  BY <2>1, RegistryStays
<1>5. ASSUME NEW k \in Connections, Link!TakeQueued(k) \/ Link!SeeClose(k) PROVE RegistryInv'
  <2>1. registry' = registry /\ phase'[k] # "ended" /\ Owner(k)' = Owner(k) /\ Link!Serve(k)
    BY <1>5 DEF Link!Serve, Link!TakeQueued, Link!SeeClose, Link!Goto, Link!TypeOK, Owner
  <2>2. QED  BY <2>1, RegistryStays
<1>6. ASSUME NEW k \in Connections, Link!Write(k) PROVE RegistryInv'
  <2>1. registry' = registry /\ phase'[k] # "ended" /\ Owner(k)' = Owner(k) /\ Link!Serve(k)
    BY <1>6 DEF Link!Serve, Link!Write, Link!WriteMessage, Link!WriteOversizeReply, Link!WriteFails,
      Link!Goto, Link!TypeOK, Owner
  <2>2. QED  BY <2>1, RegistryStays
<1>7. ASSUME NEW k \in Connections, Link!EndConnection(k) PROVE RegistryInv'
  <2>1. Owner(k) = guard[k] /\ Link!Serve(k)
    BY <1>7 DEF Link!Serve, Link!EndConnection, Owner
  <2>2. \A s \in Sessions : OccursOnce(registry'[s]) /\ Range(registry'[s]) = Range(registry[s]) \ {k}
    BY <1>7, <2>1, Released DEF Link!EndConnection
  <2>3. \A s \in Sessions : Range(registry[s]) \subseteq Connections
    BY DEF Link!TypeOK, Range
  <2>4. \A j \in Connections : j # k => phase'[j] = phase[j] /\ Owner(j)' = Owner(j)
    BY <2>1, OthersKept DEF Owner
  <2>5. QED  BY <2>2, <2>3, <2>4 DEF RegistryInv
<1>8. ASSUME NEW s \in Sessions, Link!Broadcast(s) PROVE RegistryInv'
  <2> DEFINE Slow == {k \in Link!ToSet(registry[s]) : Link!Full(k)}
  <2>1. registry' = [registry EXCEPT ![s] = Link!Within(@, Connections \ Slow)] /\ UNCHANGED Link!task
    BY <1>8 DEF Link!Broadcast
  <2>2. \A k : phase'[k] = phase[k] /\ Owner(k)' = Owner(k)
    BY <2>1 DEF Link!task, Owner
  <2> HIDE DEF Slow
  <2>3. \A r \in Sessions : /\ OccursOnce(registry[r]) => OccursOnce(registry'[r])
                            /\ Range(registry'[r]) \subseteq Range(registry[r])
    BY <2>1, KeptSubscribers DEF Link!TypeOK
  <2>4. QED  BY <2>2, <2>3 DEF RegistryInv
<1>9. CASE UNCHANGED Link!vars
  BY <1>9 DEF Link!vars, Link!task, RegistryInv, Owner
<1>10. QED
  BY <1>1, <1>2, <1>3, <1>4, <1>5, <1>6, <1>7, <1>8, <1>9 DEF Link!Next, Link!Serve, Link!Register
\* A task's step moves no other connection in the registry.
LEMMA OthersRegistered ==
  ASSUME Link!HostConnectionAssumption, Link!TypeOK, RegistryInv, FollowedInv,
         NEW k \in Connections, Link!Serve(k), NEW s \in Sessions
  PROVE  /\ Range(registry'[s]) \ {k} = Range(registry[s]) \ {k}
         /\ Link!RegisterSubscriber(k) /\ ~Link!Full(k) /\ s = asked[k] => k \in Range(registry'[s])
<1>1. CASE Link!RegisterSubscriber(k)
  <2>1. CASE Link!Full(k)
    BY <1>1, <2>1 DEF Link!RegisterSubscriber
  <2>2. CASE ~Link!Full(k)
    <3> DEFINE old == IF guard[k] = NoSession THEN registry
                      ELSE [registry EXCEPT ![guard[k]] = Link!Without(k, guard[k])]
    <3>1. registry' = [old EXCEPT ![asked[k]] = Append(@, k)]
      BY <1>1, <2>2 DEF Link!RegisterSubscriber
    <3>2. Owner(k) = guard[k]  BY <1>1 DEF Owner, Link!RegisterSubscriber
    <3>3. old \in [Sessions -> Seq(Connections)] /\ Range(old[s]) = Range(registry[s]) \ {k}
      BY <3>2, Released
    <3> HIDE DEF old
    <3>4. CASE s = asked[k]
      <4>1. registry'[s] = Append(old[s], k) /\ old[s] \in Seq(Connections)
        BY <3>1, <3>3, <3>4
      <4>2. Range(registry'[s]) = Range(old[s]) \cup {k}  BY <4>1, RangeOfAppend
      <4>3. QED  BY <3>3, <4>2
    <3>5. CASE s # asked[k]
      BY <3>1, <3>3, <3>5
    <3>6. QED  BY <3>4, <3>5
  <2>3. QED  BY <2>1, <2>2
<1>2. CASE Link!EndConnection(k)
  <2>1. Owner(k) = guard[k] /\ phase[k] # "registering"
    BY <1>2 DEF Link!EndConnection, Owner
  <2>2. Range(registry'[s]) = Range(registry[s]) \ {k}
    BY <1>2, <2>1, Released DEF Link!EndConnection
  <2>3. QED  BY <2>1, <2>2 DEF Link!RegisterSubscriber
<1>3. CASE ~Link!RegisterSubscriber(k) /\ ~Link!EndConnection(k)
  <2>1. registry' = registry
    BY <1>3 DEF Link!Serve, Link!Read, Link!ReadMalformed, Link!ReadSubscribe, Link!ReadCommand,
      Link!ReadFails, Link!DispatchRequest, Link!Register, Link!RefuseSubscriber, Link!Confirm,
      Link!TakeQueued, Link!SeeClose, Link!Write, Link!WriteMessage, Link!WriteOversizeReply, Link!WriteFails
  <2>2. QED  BY <1>3, <2>1
<1>4. QED  BY <1>1, <1>2, <1>3

\* What FollowedInv says of one connection.
Followed(k) ==
  /\ phase[k] \in {"registering", "confirming"} => asked[k] \in Sessions
  /\ phase[k] \in {"registering", "dispatching"} => read[k] # 0
  /\ phase[k] \in Link!Running /\ Owner(k) # NoSession =>
       closing[k] \/ k \in Range(registry[Owner(k)])

LEMMA FollowedStep ==
  ASSUME Link!HostConnectionAssumption, Link!TypeOK, RegistryInv, FollowedInv, [Link!Next]_(Link!vars)
  PROVE  FollowedInv'
<1> SUFFICES ASSUME NEW j \in Connections PROVE Followed(j)'
  BY DEF FollowedInv, Followed
<1>1. Followed(j)  BY DEF FollowedInv, Followed
<1>2. Owner(j) \in Sessions \cup {NoSession}  BY DEF Owner, Link!TypeOK
<1>3. ASSUME NEW k \in Connections, Link!Serve(k) PROVE Followed(j)'
  <2>1. CASE j # k
    <3>1. /\ phase'[j] = phase[j] /\ read'[j] = read[j] /\ asked'[j] = asked[j]
          /\ Owner(j)' = Owner(j) /\ closing'[j] = closing[j]
      BY <1>3, <2>1, OthersKept DEF Owner
    <3>2. Owner(j) \in Sessions /\ j \in Range(registry[Owner(j)]) => j \in Range(registry'[Owner(j)])
      BY <1>3, <2>1, OthersRegistered
    <3>3. QED  BY <1>1, <1>2, <3>1, <3>2 DEF Followed
  <2>2. CASE j = k
    <3>1. CASE Link!Read(k)
      BY <1>1, <2>2, <3>1 DEF Link!Read, Link!ReadMalformed, Link!ReadSubscribe, Link!ReadCommand,
        Link!ReadFails, Link!Goto, Link!TypeOK, Link!Running, Followed, Owner
    <3>2. CASE Link!DispatchRequest(k)
      BY <1>1, <2>2, <3>2 DEF Link!DispatchRequest, Link!Goto, Link!TypeOK, Link!Running, Followed, Owner
    <3>3. CASE Link!RegisterSubscriber(k)
      <4>1. /\ phase[k] = "registering" /\ phase'[k] = "confirming" /\ outcome'[k] = ~Link!Full(k)
            /\ guard' = guard /\ asked' = asked /\ asked[k] \in Sessions
        BY <1>1, <2>2, <3>3 DEF Link!RegisterSubscriber, Link!Goto, Link!TypeOK, Followed
      <4>2. CASE Link!Full(k)
        <5>1. closing'[k]  BY <3>3, <4>2 DEF Link!RegisterSubscriber, Link!TrySend, Link!TypeOK
        <5>2. QED  BY <2>2, <4>1, <5>1 DEF Followed
      <4>3. CASE ~Link!Full(k)
        <5>1. Owner(k)' = asked[k]  BY <4>1, <4>3 DEF Owner
        <5>2. k \in Range(registry'[asked[k]])  BY <1>3, <3>3, <4>1, <4>3, OthersRegistered
        <5>3. QED  BY <2>2, <4>1, <5>1, <5>2 DEF Followed
      <4>4. QED  BY <4>2, <4>3
    <3>4. CASE Link!RefuseSubscriber(k)
      <4>1. /\ phase[k] = "registering" /\ phase'[k] = "confirming" /\ asked' = asked
            /\ registry' = registry /\ Owner(k)' = Owner(k)
        BY <3>4 DEF Link!RefuseSubscriber, Link!Goto, Link!TypeOK, Owner
      <4>2. closing[k] => closing'[k]
        BY <3>4 DEF Link!RefuseSubscriber, Link!TrySend, Link!TypeOK
      <4>3. QED  BY <1>1, <2>2, <4>1, <4>2 DEF Followed, Link!Running
    <3>5. CASE Link!Confirm(k)
      BY <1>1, <2>2, <3>5 DEF Link!Confirm, Link!Goto, Link!TypeOK, Link!Running, Followed, Owner
    <3>6. CASE Link!TakeQueued(k) \/ Link!SeeClose(k)
      BY <1>1, <2>2, <3>6 DEF Link!TakeQueued, Link!SeeClose, Link!Goto, Link!TypeOK, Link!Running, Followed, Owner
    <3>7. CASE Link!Write(k)
      BY <1>1, <2>2, <3>7 DEF Link!Write, Link!WriteMessage, Link!WriteOversizeReply, Link!WriteFails,
        Link!Goto, Link!TypeOK, Link!Running, Followed, Owner
    <3>8. CASE Link!EndConnection(k)
      BY <2>2, <3>8 DEF Link!EndConnection, Link!Goto, Link!TypeOK, Link!Running, Followed
    <3>9. QED
      BY <1>3, <3>1, <3>2, <3>3, <3>4, <3>5, <3>6, <3>7, <3>8 DEF Link!Serve, Link!Register
  <2>3. QED  BY <2>1, <2>2
<1>4. ASSUME NEW s \in Sessions, Link!Broadcast(s) PROVE Followed(j)'
  <2> DEFINE Slow == {k \in Link!ToSet(registry[s]) : Link!Full(k)}
  <2>1. registry' = [registry EXCEPT ![s] = Link!Within(@, Connections \ Slow)]
        /\ closing' = [k \in Connections |-> closing[k] \/ k \in Slow] /\ UNCHANGED Link!task
    BY <1>4 DEF Link!Broadcast
  <2>2. phase' = phase /\ read' = read /\ asked' = asked /\ Owner(j)' = Owner(j)
    BY <2>1 DEF Link!task, Owner
  <2> HIDE DEF Slow
  <2>3. \A r \in Sessions : Range(registry[r]) \cap (Connections \ Slow) \subseteq Range(registry'[r])
    BY <2>1, KeptSubscribers DEF Link!TypeOK
  <2>4. QED  BY <1>1, <1>2, <2>1, <2>2, <2>3 DEF Followed
<1>5. CASE UNCHANGED Link!vars
  BY <1>1, <1>5 DEF Link!vars, Link!task, Followed, Owner
<1>6. QED  BY <1>3, <1>4, <1>5 DEF Link!Next

LEMMA RangeTyped == ASSUME NEW S, NEW s \in Seq(S) PROVE Range(s) \subseteq S
BY DEF Range

LEMMA RangeOfSent ==
  ASSUME NEW S, NEW s \in Seq(S), NEW e \in S, NEW t, t = s \/ t = Append(s, e)
  PROVE  Range(t) \subseteq Range(s) \cup {e}
<1>1. Range(Append(s, e)) = Range(s) \cup {e}  BY RangeOfAppend
<1>2. CASE t = s  BY <1>2
<1>3. CASE t = Append(s, e)  BY <1>1, <1>3
<1>4. QED  BY <1>2, <1>3

\* What IdsInv says of one connection.
Read(k) ==
  /\ \A id \in Range(answered[k]) : id <= read[k]
  /\ \A m \in Range(queue[k]) : m.id <= read[k]
  /\ out[k].id <= read[k]

LEMMA IdsStep ==
  ASSUME Link!HostConnectionAssumption, Link!TypeOK, IdsInv, [Link!Next]_(Link!vars)
  PROVE  IdsInv'
<1> SUFFICES ASSUME NEW j \in Connections PROVE Read(j)'
  BY DEF IdsInv, Read
<1>1. Read(j)  BY DEF IdsInv, Read
<1>2. /\ read[j] \in 0 .. MaxRequests /\ out[j] \in Link!Messages /\ queue[j] \in Seq(Link!Messages)
      /\ answered[j] \in Seq(1 .. MaxRequests) /\ out[j].id \in 0 .. MaxRequests
  BY DEF Link!TypeOK, Link!Messages
<1>3. /\ Range(queue[j]) \subseteq Link!Messages /\ Range(answered[j]) \subseteq 1 .. MaxRequests
      /\ \A m \in Link!Messages : m.id \in 0 .. MaxRequests
  BY <1>2, RangeTyped DEF Link!Messages
<1>4. ASSUME NEW k \in Connections, Link!Serve(k) PROVE Read(j)'
  <2>1. CASE j # k
    BY <1>1, <1>4, <2>1, OthersKept DEF Read
  <2>2. CASE j = k
    <3>1. CASE Link!Read(k)
      <4>1. /\ read'[k] \in {read[k], read[k] + 1} /\ answered' = answered /\ queue' = queue
            /\ out'[k] \in {out[k], Link!Rejection(0)}
        BY <3>1 DEF Link!Read, Link!ReadMalformed, Link!ReadSubscribe, Link!ReadCommand,
          Link!ReadFails, Link!TypeOK
      <4>2. read[j] <= read'[j] /\ read'[j] \in Nat  BY <1>2, <2>2, <4>1, MessagesTyped
      <4>3. /\ \A id \in Range(answered'[j]) : id <= read'[j]
            /\ \A m \in Range(queue'[j]) : m.id <= read'[j]
        <5>1. \A id \in Range(answered[j]) : id \in Nat /\ id <= read[j]
          BY <1>1, <1>3, MessagesTyped DEF Read
        <5>2. \A m \in Range(queue[j]) : m.id \in Nat /\ m.id <= read[j]
          BY <1>1, <1>3, MessagesTyped DEF Read
        <5>3. read[j] \in Nat  BY <1>2
        <5>4. QED  BY <4>1, <4>2, <5>1, <5>2, <5>3
      <4>4. out'[j].id <= read'[j]
        <5>1. out[j].id \in Nat /\ out[j].id <= read[j] /\ read[j] \in Nat
          BY <1>1, <1>2 DEF Read
        <5>2. CASE out'[j] = out[j]  BY <4>2, <5>1, <5>2
        <5>3. CASE out'[j] = Link!Rejection(0)  BY <4>2, <5>3, MessagesTyped
        <5>4. QED  BY <2>2, <4>1, <5>2, <5>3
      <4>5. QED  BY <4>3, <4>4 DEF Read
    <3>2. CASE Link!DispatchRequest(k)
      <4>1. read' = read /\ answered' = answered /\ queue' = queue
            /\ out'[k] \in {Link!Reply(read[k]), Link!Rejection(read[k])}
        BY <3>2 DEF Link!DispatchRequest, Link!TypeOK
      <4>2. QED  BY <1>1, <1>2, <2>2, <4>1, MessagesTyped DEF Read
    <3>3. CASE Link!RegisterSubscriber(k) \/ Link!RefuseSubscriber(k)
      <4>1. PICK m \in {Link!Reply(read[k]), Link!Rejection(read[k])} :
              Link!TrySend(k, m) /\ read' = read /\ answered' = answered /\ out' = out
        BY <3>3 DEF Link!RegisterSubscriber, Link!RefuseSubscriber
      <4>2. m \in Link!Messages /\ m.id = read[k]  BY <1>2, <2>2, MessagesTyped
      <4>3. queue'[k] = queue[k] \/ queue'[k] = Append(queue[k], m)
        BY <4>1 DEF Link!TrySend, Link!TypeOK
      <4>4. Range(queue'[k]) \subseteq Range(queue[k]) \cup {m}
        BY <1>2, <2>2, <4>2, <4>3, RangeOfSent
      <4>5. QED  BY <1>1, <1>2, <2>2, <4>1, <4>2, <4>4 DEF Read
    <3>4. CASE Link!Confirm(k) \/ Link!SeeClose(k)
      BY <1>1, <2>2, <3>4 DEF Link!Confirm, Link!SeeClose, Read
    <3>5. CASE Link!TakeQueued(k)
      <4>1. read' = read /\ answered' = answered /\ out'[k] = Head(queue[k]) /\ queue'[k] = Tail(queue[k])
            /\ queue[k] # <<>>
        BY <3>5 DEF Link!TakeQueued, Link!TypeOK
      <4>2. Range(queue[k]) = {out'[k]} \cup Range(queue'[k])  BY <1>2, <2>2, <4>1, RangeOfTail
      <4>3. QED  BY <1>1, <2>2, <4>1, <4>2 DEF Read
    <3>6. CASE Link!WriteMessage(k) \/ Link!WriteOversizeReply(k)
      <4>1. read' = read /\ queue' = queue /\ out'[k] = Link!Frame
            /\ (answered'[k] = answered[k]
                \/ (out[k].id # 0 /\ answered'[k] = Append(answered[k], out[k].id)))
        BY <3>6 DEF Link!WriteMessage, Link!WriteOversizeReply, Link!Written, Link!TypeOK
      <4>2. out[k].id # 0 => out[k].id \in 1 .. MaxRequests  BY <1>2, <2>2, MessagesTyped
      <4>3. Range(answered'[k]) \subseteq Range(answered[k]) \cup {out[k].id}
        <5>1. CASE out[k].id = 0
          BY <4>1, <5>1
        <5>2. CASE out[k].id # 0
          <6> DEFINE id == out[k].id
          <6>1. id \in 1 .. MaxRequests /\ answered[k] \in Seq(1 .. MaxRequests)
            BY <1>2, <2>2, <4>2, <5>2
          <6>2. answered'[k] = answered[k] \/ answered'[k] = Append(answered[k], id)  BY <4>1
          <6> HIDE DEF id
          <6>3. Range(answered'[k]) \subseteq Range(answered[k]) \cup {id}
            BY <6>1, <6>2, RangeOfSent
          <6>4. QED  BY <6>3 DEF id
        <5>3. QED  BY <5>1, <5>2
      <4>4. QED  BY <1>1, <1>2, <2>2, <4>1, <4>3, MessagesTyped DEF Read
    <3>7. CASE Link!WriteFails(k)
      BY <1>1, <1>2, <2>2, <3>7, MessagesTyped DEF Link!WriteFails, Link!TypeOK, Read
    <3>8. CASE Link!EndConnection(k)
      <4>1. Range(queue'[k]) = {}  BY <3>8 DEF Link!EndConnection, Link!TypeOK, Range
      <4>2. QED  BY <1>1, <2>2, <3>8, <4>1 DEF Link!EndConnection, Read
    <3>9. QED
      BY <1>4, <3>1, <3>2, <3>3, <3>4, <3>5, <3>6, <3>7, <3>8 DEF Link!Serve, Link!Register, Link!Write
  <2>3. QED  BY <2>1, <2>2
<1>5. ASSUME NEW s \in Sessions, Link!Broadcast(s) PROVE Read(j)'
  <2>1. read' = read /\ answered' = answered /\ out' = out
        /\ (queue'[j] = queue[j] \/ queue'[j] = Append(queue[j], Link!Frame))
    BY <1>5 DEF Link!Broadcast, Link!task
  <2>2. Range(queue'[j]) \subseteq Range(queue[j]) \cup {Link!Frame}
    BY <1>2, <2>1, MessagesTyped, RangeOfSent
  <2>3. QED  BY <1>1, <1>2, <2>1, <2>2, MessagesTyped DEF Read
<1>6. CASE UNCHANGED Link!vars
  BY <1>1, <1>6 DEF Link!vars, Link!task, Read
<1>7. QED  BY <1>4, <1>5, <1>6 DEF Link!Next
\* What AccountedInv says of one connection.
Done(k, id) == Cardinality(Positions(answered[k], {id}))
Queued(k, id) == Cardinality(Positions(queue[k], Answers(id)))
Account(k) ==
  phase[k] \in Link!Running /\ ~closing[k] =>
    \A id \in 1 .. read[k] : Done(k, id) + Queued(k, id) + (IF InHand(k, id) THEN 1 ELSE 0) = 1


LEMMA AccountedStep ==
  ASSUME Link!HostConnectionAssumption, Link!TypeOK, Link!TypeOK', IdsInv, AccountedInv, [Link!Next]_(Link!vars)
  PROVE  AccountedInv'
<1> SUFFICES ASSUME NEW j \in Connections PROVE Account(j)'
  BY DEF AccountedInv, Account, Accounted, Done, Queued
<1>1. Account(j) /\ Read(j)  BY DEF AccountedInv, Account, Accounted, Done, Queued, IdsInv, Read
<1>2. /\ read[j] \in 0 .. MaxRequests /\ read[j] \in Nat /\ out[j] \in Link!Messages
      /\ queue[j] \in Seq(Link!Messages) /\ answered[j] \in Seq(1 .. MaxRequests)
      /\ out[j].id \in 0 .. MaxRequests /\ out[j].id \in Nat
  <2>1. read[j] \in 0 .. MaxRequests /\ out[j] \in Link!Messages /\ out[j].id \in 0 .. MaxRequests
    BY DEF Link!TypeOK, Link!Messages
  <2>2. QED  BY <2>1, MessagesTyped DEF Link!TypeOK
<1>3. \A id : Done(j, id) \in Nat /\ Queued(j, id) \in Nat
  BY <1>2, PositionsFinite DEF Done, Queued
<1>4. ASSUME NEW k \in Connections, Link!Serve(k) PROVE Account(j)'
  <2>1. CASE j # k
    BY <1>1, <1>4, <2>1, OthersKept DEF Account, Done, Queued, InHand
  <2>2. CASE j = k
    <3>1. CASE Link!ReadMalformed(k)
      <4>1. /\ phase[k] = "serving" /\ phase'[k] = "writing" /\ out'[k] = Link!Rejection(0)
            /\ read' = read /\ answered' = answered /\ queue' = queue /\ closing' = closing
        BY <3>1 DEF Link!ReadMalformed, Link!Goto, Link!TypeOK
      <4>2. out'[k].id = 0  BY <4>1, MessagesTyped
      <4>3. \A id \in 1 .. read[k] : ~InHand(k, id) /\ ~InHand(k, id)'
        BY <1>2, <2>2, <4>1, <4>2 DEF InHand
      <4>4. QED  BY <1>1, <2>2, <4>1, <4>3 DEF Account, Done, Queued, Link!Running
    <3>2. CASE Link!ReadSubscribe(k) \/ Link!ReadCommand(k)
      <4>1. /\ phase[k] = "serving" /\ phase'[k] \in {"registering", "dispatching"}
            /\ read'[k] = read[k] + 1
            /\ answered' = answered /\ queue' = queue /\ closing' = closing
        BY <3>2 DEF Link!ReadSubscribe, Link!ReadCommand, Link!Goto, Link!TypeOK
      <4>2. ASSUME NEW id \in 1 .. read[k] PROVE ~InHand(k, id) /\ ~InHand(k, id)'
        BY <1>2, <2>2, <4>1 DEF InHand
      <4>0. PICK new \in Nat : new = read[k] + 1  BY <1>2, <2>2
      <4>3. Done(k, new) = 0
        <5>1. \A i \in DOMAIN answered[k] : answered[k][i] \notin {new}
          <6>1. \A i \in DOMAIN answered[k] : answered[k][i] <= read[k]
            BY <1>1, <2>2 DEF Read, Range
          <6>2. ~(new <= read[k])  BY <1>2, <2>2, <4>0
          <6>3. QED  BY <6>1, <6>2
        <5>2. QED  BY <1>2, <2>2, <5>1, PositionsFinite DEF Done
      <4>4. Queued(k, new) = 0
        <5>1. \A i \in DOMAIN queue[k] : queue[k][i].id <= read[k]
          BY <1>1, <2>2 DEF Read, Range
        <5>2. \A i \in DOMAIN queue[k] : queue[k][i] \notin Answers(new)
          <6>1. \A m \in Answers(new) : m.id = new  BY DEF Answers
          <6>2. ~(new <= read[k])  BY <1>2, <2>2, <4>0
          <6>3. QED  BY <5>1, <6>1, <6>2
        <5>3. QED  BY <1>2, <2>2, <5>2, PositionsFinite DEF Queued
      <4>5. InHand(k, new)'  BY <4>1, <4>0 DEF InHand
      <4>6. \A id : Done(k, id)' = Done(k, id) /\ Queued(k, id)' = Queued(k, id)
        BY <4>1 DEF Done, Queued
      <4>7. \A id \in 1 .. read'[k] : id \in 1 .. read[k] \/ id = new
        BY <1>2, <2>2, <4>1, <4>0
      <4>8. ASSUME NEW id \in 1 .. read'[k], ~closing'[k]
            PROVE  Done(k, id)' + Queued(k, id)' + (IF InHand(k, id)' THEN 1 ELSE 0) = 1
        <5>1. CASE id \in 1 .. read[k]
          <6>1. Done(k, id) + Queued(k, id) + (IF InHand(k, id) THEN 1 ELSE 0) = 1
            BY <1>1, <2>2, <4>1, <4>8, <5>1 DEF Account, Link!Running
          <6>2. QED  BY <4>2, <4>6, <5>1, <6>1
        <5>2. CASE id = new
          BY <4>3, <4>4, <4>5, <4>6, <5>2
        <5>3. QED  BY <4>7, <5>1, <5>2
      <4>9. QED  BY <2>2, <4>8 DEF Account
    <3>3. CASE Link!ReadFails(k) \/ Link!SeeClose(k) \/ Link!WriteFails(k) \/ Link!EndConnection(k)
      <4>1. phase'[k] \notin Link!Running
        BY <3>3 DEF Link!ReadFails, Link!SeeClose, Link!WriteFails, Link!EndConnection, Link!Goto,
          Link!TypeOK, Link!Running
      <4>2. QED  BY <2>2, <4>1 DEF Account
    <3>4. CASE Link!DispatchRequest(k)
      <4>1. /\ phase[k] = "dispatching" /\ phase'[k] = "writing"
            /\ out'[k] \in {Link!Reply(read[k]), Link!Rejection(read[k])}
            /\ read' = read /\ answered' = answered /\ queue' = queue /\ closing' = closing
        BY <3>4 DEF Link!DispatchRequest, Link!Goto, Link!TypeOK
      <4>2. out'[k].id = read[k]  BY <1>2, <2>2, <4>1, MessagesTyped
      <4>3. \A id : InHand(k, id)' = InHand(k, id)  BY <4>1, <4>2 DEF InHand
      <4>4. QED  BY <1>1, <2>2, <4>1, <4>3 DEF Account, Done, Queued, Link!Running
    <3>5. CASE Link!RegisterSubscriber(k) \/ Link!RefuseSubscriber(k)
      <4>1. PICK m \in {Link!Reply(read[k]), Link!Rejection(read[k])} :
              /\ Link!TrySend(k, m) /\ read' = read /\ answered' = answered
              /\ phase[k] = "registering" /\ phase'[k] = "confirming"
        BY <3>5 DEF Link!RegisterSubscriber, Link!RefuseSubscriber, Link!Goto, Link!TypeOK
      <4>2. m \in Link!Messages /\ m.id = read[k]  BY <1>2, <2>2, MessagesTyped
      <4>3. CASE Link!Full(k)
        <5>1. closing'[k]  BY <4>1, <4>3 DEF Link!TrySend, Link!TypeOK
        <5>2. QED  BY <2>2, <5>1 DEF Account
      <4>4. CASE ~Link!Full(k)
        <5>1. queue'[k] = Append(queue[k], m) /\ closing' = closing
          BY <4>1, <4>4 DEF Link!TrySend, Link!TypeOK
        <5>2. ASSUME NEW id \in 1 .. read[k]
              PROVE  Queued(k, id)' = Queued(k, id) + (IF id = read[k] THEN 1 ELSE 0)
          <6>1. m \in Answers(id) <=> id = read[k]  BY <4>2 DEF Answers
          <6>2. QED  BY <1>2, <2>2, <4>2, <5>1, <6>1, PositionsOfAppend DEF Queued
        <5>3. \A id : InHand(k, id) <=> id = read[k]  BY <4>1 DEF InHand
        <5>4. \A id : ~InHand(k, id)'  BY <4>1 DEF InHand
        <5>5. \A id : Done(k, id)' = Done(k, id)  BY <4>1 DEF Done
        <5>6. ASSUME NEW id \in 1 .. read'[k], ~closing'[k]
              PROVE  Done(k, id)' + Queued(k, id)' + (IF InHand(k, id)' THEN 1 ELSE 0) = 1
          <6>1. id \in 1 .. read[k] /\ ~closing[k]  BY <4>1, <5>1, <5>6
          <6>2. Done(k, id) + Queued(k, id) + (IF InHand(k, id) THEN 1 ELSE 0) = 1
            BY <1>1, <2>2, <4>1, <6>1 DEF Account, Link!Running
          <6>3. Done(k, id) \in Nat /\ Queued(k, id) \in Nat  BY <1>3, <2>2
          <6>4. QED  BY <5>2, <5>3, <5>4, <5>5, <6>1, <6>2, <6>3
        <5>7. QED  BY <2>2, <5>6 DEF Account
      <4>5. QED  BY <4>3, <4>4
    <3>6. CASE Link!Confirm(k)
      <4>1. /\ phase[k] = "confirming" /\ phase'[k] = "serving"
            /\ read' = read /\ answered' = answered /\ queue' = queue /\ closing' = closing
        BY <3>6 DEF Link!Confirm, Link!Goto, Link!TypeOK
      <4>2. \A id : ~InHand(k, id) /\ ~InHand(k, id)'  BY <4>1 DEF InHand
      <4>3. QED  BY <1>1, <2>2, <4>1, <4>2 DEF Account, Done, Queued, Link!Running
    <3>7. CASE Link!TakeQueued(k)
      <4>1. /\ phase[k] = "serving" /\ phase'[k] = "writing" /\ queue[k] # <<>>
            /\ out'[k] = Head(queue[k]) /\ queue'[k] = Tail(queue[k])
            /\ read' = read /\ answered' = answered /\ closing' = closing
        BY <3>7 DEF Link!TakeQueued, Link!Goto, Link!TypeOK
      <4>2. Head(queue[k]) \in Link!Messages  BY <1>2, <2>2, <4>1, RangeOfTail
      <4>3. ASSUME NEW id
            PROVE  Queued(k, id) = Queued(k, id)' + (IF InHand(k, id)' THEN 1 ELSE 0)
        <5>1. InHand(k, id)' <=> Head(queue[k]) \in Answers(id)
          BY <4>1, <4>2 DEF InHand, Answers
        <5>2. Queued(k, id) = Cardinality(Positions(Tail(queue[k]), Answers(id)))
                                + (IF Head(queue[k]) \in Answers(id) THEN 1 ELSE 0)
          BY <1>2, <2>2, <4>1, PositionsOfTail DEF Queued
        <5>3. Queued(k, id)' = Cardinality(Positions(Tail(queue[k]), Answers(id)))
          BY <4>1 DEF Queued, Answers
        <5>4. QED  BY <5>1, <5>2, <5>3
      <4>4. \A id : ~InHand(k, id) /\ Done(k, id)' = Done(k, id)  BY <4>1 DEF InHand, Done
      <4>5. \A id : Queued(k, id)' \in Nat
        BY <1>2, <2>2, <4>1, RangeOfTail, PositionsFinite DEF Queued, Answers
      <4>6. ASSUME NEW id \in 1 .. read'[k], ~closing'[k]
            PROVE  Done(k, id)' + Queued(k, id)' + (IF InHand(k, id)' THEN 1 ELSE 0) = 1
        <5>1. Done(k, id) + Queued(k, id) + 0 = 1
          BY <1>1, <2>2, <4>1, <4>4, <4>6 DEF Account, Link!Running
        <5>2. Done(k, id) \in Nat /\ Queued(k, id)' \in Nat  BY <1>3, <2>2, <4>5
        <5>3. QED  BY <4>3, <4>4, <5>1, <5>2
      <4>7. QED  BY <2>2, <4>6 DEF Account
    <3>8. CASE Link!WriteMessage(k) \/ Link!WriteOversizeReply(k)
      <4>1. /\ phase[k] = "writing" /\ phase'[k] = "serving"
            /\ answered'[k] = IF out[k].id = 0 THEN answered[k] ELSE Append(answered[k], out[k].id)
            /\ read' = read /\ queue' = queue /\ closing' = closing
        BY <3>8 DEF Link!WriteMessage, Link!WriteOversizeReply, Link!Written, Link!Goto, Link!TypeOK
      <4>2. ASSUME NEW id \in 1 .. read[k]
            PROVE  Done(k, id)' = Done(k, id) + (IF InHand(k, id) THEN 1 ELSE 0)
        <5>1. InHand(k, id) <=> out[k].id = id  BY <4>1 DEF InHand
        <5>2. CASE out[k].id = 0
          <6>1. ~InHand(k, id)  BY <5>1, <5>2
          <6>2. Done(k, id)' = Done(k, id)  BY <4>1, <5>2 DEF Done
          <6>3. QED  BY <1>3, <2>2, <6>1, <6>2
        <5>3. CASE out[k].id # 0
          <6> DEFINE x == out[k].id
          <6>1. x \in 1 .. MaxRequests  BY <1>2, <2>2, <5>3, MessagesTyped
          <6>2. answered'[k] = Append(answered[k], x) /\ answered[k] \in Seq(1 .. MaxRequests)
            BY <1>2, <2>2, <4>1, <5>3
          <6>3. InHand(k, id) <=> x \in {id}  BY <5>1
          <6> HIDE DEF x
          <6>4. Cardinality(Positions(Append(answered[k], x), {id})) =
                  Cardinality(Positions(answered[k], {id})) + (IF x \in {id} THEN 1 ELSE 0)
            <7> DEFINE T == {id}
                       Ids == 1 .. MaxRequests
            <7>1. x \in Ids /\ answered[k] \in Seq(Ids)  BY <6>1, <6>2
            <7> HIDE DEF T, Ids
            <7>2. Cardinality(Positions(Append(answered[k], x), T)) =
                    Cardinality(Positions(answered[k], T)) + (IF x \in T THEN 1 ELSE 0)
              BY <7>1, PositionsOfAppend
            <7>3. QED  BY <7>2 DEF T
          <6>5. QED  BY <6>2, <6>3, <6>4 DEF Done
        <5>4. QED  BY <5>2, <5>3
      <4>3. \A id : ~InHand(k, id)' /\ Queued(k, id)' = Queued(k, id)
        BY <4>1 DEF InHand, Queued, Answers
      <4>4. ASSUME NEW id \in 1 .. read'[k], ~closing'[k]
            PROVE  Done(k, id)' + Queued(k, id)' + (IF InHand(k, id)' THEN 1 ELSE 0) = 1
        <5>1. Done(k, id) + Queued(k, id) + (IF InHand(k, id) THEN 1 ELSE 0) = 1
          BY <1>1, <2>2, <4>1, <4>4 DEF Account, Link!Running
        <5>2. Done(k, id) \in Nat /\ Queued(k, id) \in Nat  BY <1>3, <2>2
        <5>3. Done(k, id)' = Done(k, id) + (IF InHand(k, id) THEN 1 ELSE 0)  BY <4>1, <4>2, <4>4
        <5>4. QED  BY <4>3, <5>1, <5>2, <5>3
      <4>5. QED  BY <2>2, <4>4 DEF Account
    <3>9. QED
      BY <1>4, <3>1, <3>2, <3>3, <3>4, <3>5, <3>6, <3>7, <3>8
      DEF Link!Serve, Link!Register, Link!Write, Link!Read
  <2>3. QED  BY <2>1, <2>2
<1>5. ASSUME NEW s \in Sessions, Link!Broadcast(s) PROVE Account(j)'
  <2>1. /\ phase' = phase /\ read' = read /\ answered' = answered /\ out' = out
        /\ closing[j] => closing'[j]
        /\ (queue'[j] = queue[j] \/ queue'[j] = Append(queue[j], Link!Frame))
    BY <1>5 DEF Link!Broadcast, Link!task
  <2>2. ASSUME NEW id \in 1 .. read[j] PROVE Queued(j, id)' = Queued(j, id)
    <3>1. Link!Frame \notin Answers(id) /\ Link!Frame \in Link!Messages
      BY <1>2, MessagesTyped DEF Answers
    <3>2. CASE queue'[j] = queue[j]  BY <3>2 DEF Queued, Answers
    <3>3. CASE queue'[j] = Append(queue[j], Link!Frame)
      <4>1. Queued(j, id)' = Cardinality(Positions(Append(queue[j], Link!Frame), Answers(id)))
        BY <3>3 DEF Queued, Answers
      <4>2. Cardinality(Positions(Append(queue[j], Link!Frame), Answers(id))) =
              Cardinality(Positions(queue[j], Answers(id))) + 0
        BY <1>2, <3>1, PositionsOfAppend
      <4>3. QED  BY <1>3, <4>1, <4>2 DEF Queued
    <3>4. QED  BY <2>1, <3>2, <3>3
  <2>3. \A id : Done(j, id)' = Done(j, id) /\ (InHand(j, id)' <=> InHand(j, id))
    BY <2>1 DEF Done, InHand
  <2>4. QED  BY <1>1, <2>1, <2>2, <2>3 DEF Account, Link!Running
<1>6. CASE UNCHANGED Link!vars
  BY <1>1, <1>6 DEF Link!vars, Link!task, Account, Done, Queued, InHand
<1>7. QED  BY <1>4, <1>5, <1>6 DEF Link!Next

LEMMA LinkStep ==
  ASSUME Link!HostConnectionAssumption, LinkInv, [Link!Next]_(Link!vars)
  PROVE  LinkInv'
BY LinkTypeStep, RegistryStep, FollowedStep, IdsStep, AccountedStep DEF LinkInv

LEMMA LinkCardinality == ASSUME NEW S PROVE Link!Cardinality(S) = Cardinality(S)
BY DEF Link!Cardinality, Cardinality

\* What the invariant says is what the property counts.
LEMMA LinkAnswers ==
  ASSUME Link!HostConnectionAssumption, LinkInv
  PROVE  Link!ConnectionsAnswer
<1> USE DEF LinkInv
<1>1. ASSUME NEW k \in Connections
      PROVE  /\ Cardinality(Link!Entries(k)) <= 1
             /\ phase[k] = "ended" => Link!Entries(k) = {}
             /\ phase[k] \in Link!Running \ {"confirming"} /\ guard[k] # NoSession =>
                  \/ closing[k]
                  \/ \E e \in Link!Entries(k) : e[1] = guard[k]
  <2>1. ASSUME NEW e \in Link!Entries(k)
        PROVE  \E i \in DOMAIN registry[Owner(k)] :
                 /\ e = <<Owner(k), i>> /\ registry[Owner(k)][i] = k /\ Owner(k) \in Sessions
                 /\ phase[k] # "ended"
    <3>1. PICK s \in Sessions : \E i \in DOMAIN registry[s] : registry[s][i] = k /\ e = <<s, i>>
      BY <2>1 DEF Link!Entries
    <3>2. k \in Range(registry[s])  BY <3>1 DEF Range
    <3>3. s = Owner(k) /\ phase[k] # "ended"  BY <3>2 DEF RegistryInv
    <3>4. QED  BY <3>1, <3>3
  <2>2. \A e, f \in Link!Entries(k) : e = f
    BY <2>1 DEF RegistryInv, OccursOnce
  <2>3. Cardinality(Link!Entries(k)) <= 1
    <3>1. CASE Link!Entries(k) = {}
      BY <3>1, FS_EmptySet
    <3>2. CASE Link!Entries(k) # {}
      <4>1. PICK e \in Link!Entries(k) : TRUE  BY <3>2
      <4>2. Link!Entries(k) = {e}  BY <2>2, <4>1
      <4>3. QED  BY <4>2, FS_Singleton
    <3>3. QED  BY <3>1, <3>2
  <2>4. ASSUME phase[k] \in Link!Running \ {"confirming"}, guard[k] # NoSession, ~closing[k]
        PROVE  \E e \in Link!Entries(k) : e[1] = guard[k]
    <3>1. Owner(k) = guard[k]  BY <2>4 DEF Owner
    <3>2. guard[k] \in Sessions  BY <2>4 DEF Link!TypeOK
    <3>3. k \in Range(registry[guard[k]])  BY <2>4, <3>1 DEF FollowedInv
    <3>4. PICK i \in DOMAIN registry[guard[k]] : registry[guard[k]][i] = k  BY <3>3 DEF Range
    <3>5. <<guard[k], i>> \in Link!Entries(k)  BY <3>2, <3>4 DEF Link!Entries
    <3>6. QED  BY <3>5
  <2>5. QED  BY <2>1, <2>3, <2>4
<1>2. Link!OneRegistrationPerConnection  BY <1>1, LinkCardinality DEF Link!OneRegistrationPerConnection
<1>3. ASSUME NEW k \in Connections, NEW id \in 1 .. read[k]
      PROVE  /\ {i \in DOMAIN answered[k] : answered[k][i] = id} = Positions(answered[k], {id})
             /\ {i \in DOMAIN queue[k] : queue[k][i].id = id} = Positions(queue[k], Answers(id))
  <2>1. \A i \in DOMAIN queue[k] : queue[k][i] \in Link!Messages
    BY DEF Link!TypeOK
  <2>2. QED  BY <2>1 DEF Positions, Answers
<1>4. Link!RequestsAreAccountedFor
  <2>1. ASSUME NEW k \in Connections, phase[k] \in Link!Running, ~closing[k], NEW id \in 1 .. read[k]
        PROVE  LET Told == {i \in DOMAIN answered[k] : answered[k][i] = id}
                   Waiting == {i \in DOMAIN queue[k] : queue[k][i].id = id}
               IN  Cardinality(Told) + Cardinality(Waiting) + (IF InHand(k, id) THEN 1 ELSE 0) = 1
    <3>1. Accounted(k, id)  BY <2>1 DEF AccountedInv
    <3>2. QED  BY <1>3, <3>1, Zenon DEF Accounted
  <2>2. QED  BY <2>1, LinkCardinality DEF InHand, Link!RequestsAreAccountedFor
<1>5. QED  BY <1>2, <1>4 DEF Link!ConnectionsAnswer

-----------------------------------------------------------------------------
(* The daemon's database is reached.                                          *)

\* What is at the path, by how far the process has come: a journal lies beside a
\* current file exactly where a crash tore it, and a stale one loses its journal
\* before itself.
FileInv ==
  /\ journal => G!Exists
  /\ file.stamp = "current" => (journal <=> file.torn)
  /\ file.stamp = "absent" => file = G!NoFile
  /\ stage \in {"discarding", "unlinking"} => file.stamp # "current"
  /\ stage \in {"unlinking", "creating", "stamping", "accepting", "recovering", "ready"} => ~journal
  /\ stage = "creating" => (G!Exists => file.stamp = "current")
  /\ stage = "stamping" => file.stamp \in {"unstamped", "current"} /\ ~file.torn
  /\ stage \in {"accepting", "recovering", "ready"} => file.stamp = "current"
  /\ stage \in {"recovering", "ready"} => starts \in file.content.revisions
  /\ stage # "down" => starts > 0

\* An identity names the root its caller asked for, a session its root, and a first
\* turn a revision that is in the database, no later than that of the process.
ContentInv ==
  /\ \A r \in Roots :
       file.content.bound[r] # Nobody => rootOf[file.content.bound[r]] = r
  /\ \A c \in Clients :
       /\ file.content.session[c] # Nobody =>
            /\ file.content.session[c] = rootOf[c]
            /\ file.content.bound[rootOf[c]] # Nobody
       /\ file.content.turn[c] # 0 => file.content.turn[c] \in file.content.revisions
       /\ file.content.turn[c] <= starts

\* A creation under way holds the gate, so the binding it read is still the one of
\* its root; what is answered is in the database.
CallInv ==
  \A c \in Clients :
    /\ call[c] \in {"joined", "made"} => stage = "ready" /\ gate = c
    /\ call[c] = "joined" =>
         joined[c] = IF file.content.bound[rootOf[c]] = Nobody
                     THEN c ELSE file.content.bound[rootOf[c]]
    /\ call[c] = "made" => file.content.session[c] = rootOf[c]
    /\ call[c] \in {"created", "refused"} =>
         /\ file.stamp = "current"
         /\ file.content.session[c] = rootOf[c] /\ file.content.turn[c] # 0
    /\ call[c] = "refused" => file.content.turn[c] < starts
    /\ call[c] # "conflict"

CatalogInv == G!TypeOK /\ FileInv /\ ContentInv /\ CallInv /\ G!SnapshotsFitTheirBudget

\* A document that is not refused resolves to known values.
LEMMA Resolved ==
  ASSUME NEW document \in G!Document
  PROVE  G!Resolve(document) \in {G!Refused} \cup
           [attempts : {"one", "two"}, window : {"small", "large"}, theme : {"light", "dark"}]
BY DEF G!Document, G!Resolve, G!Refused, G!OnlyItsUserReads, G!WindowAllowed, G!SelectionAllowed,
       G!ExecutionAllowed, G!ThemeKnown, G!DriverSelected, G!MaxAttempts, G!AttemptTimeout,
       G!WindowTokens, G!Theme, G!OrDefault

\* No answer is an answer without rows.
LEMMA NoAnswerTyped ==
  G!NoAnswer \in [rows : Seq(Sizes), projection : Sizes \cup {0}, from : Nat]
<1>1. <<>> \in Seq(Sizes)  OBVIOUS
<1>2. QED  BY <1>1 DEF G!NoAnswer

Files == [stamp : {"absent", "earlier", "unstamped", "current"}, torn : BOOLEAN,
          content : G!Contents]

\* The files a step writes are files.
LEMMA FilesTyped ==
  ASSUME G!CatalogAssumption
  PROVE  /\ G!NoFile \in Files /\ G!NoFile.content = G!Nothing
         /\ \A stamp \in {"earlier", "unstamped"} :
              /\ G!Written(stamp, G!Nothing) \in Files
              /\ [G!Written(stamp, G!Nothing) EXCEPT !.torn = TRUE] \in Files
         /\ \A f \in Files :
              /\ \A torn \in BOOLEAN : [f EXCEPT !.torn = torn] \in Files
              /\ [f EXCEPT !.stamp = "current"] \in Files
              /\ \A content \in G!Contents : [f EXCEPT !.content = content] \in Files
<1>1. G!Nothing \in G!Contents
  BY DEF G!Nothing, G!Contents, G!CatalogAssumption
<1>2. G!NoFile \in Files /\ G!NoFile.content = G!Nothing
  BY <1>1 DEF G!NoFile, Files
<1>3. ASSUME NEW stamp \in {"earlier", "unstamped"}
      PROVE  /\ G!Written(stamp, G!Nothing) \in Files
             /\ [G!Written(stamp, G!Nothing) EXCEPT !.torn = TRUE] \in Files
  BY <1>1 DEF G!Written, Files
<1>4. ASSUME NEW f \in Files
      PROVE  /\ \A torn \in BOOLEAN : [f EXCEPT !.torn = torn] \in Files
             /\ [f EXCEPT !.stamp = "current"] \in Files
             /\ \A content \in G!Contents : [f EXCEPT !.content = content] \in Files
  BY DEF Files
<1>5. QED  BY <1>2, <1>3, <1>4

LEMMA CatalogInit == ASSUME G!CatalogAssumption, G!Init PROVE CatalogInv
<1>1. file \in Files
  BY FilesTyped DEF G!Init
<1>2. G!TypeOK
  BY <1>1, NoAnswerTyped DEF G!TypeOK, G!Init, G!CatalogAssumption, G!Places, Files
<1>3. FileInv
  BY DEF FileInv, G!Init, G!NoFile, G!Written, G!Exists
<1>4. file.content = G!Nothing
  BY DEF G!Init, G!NoFile, G!Written
<1>5. ContentInv
  BY <1>4 DEF ContentInv, G!Nothing, G!Init
<1>6. CallInv
  BY DEF CallInv, G!Init
<1>7. G!SnapshotsFitTheirBudget
  BY DEF G!Init, G!NoAnswer, G!SnapshotsFitTheirBudget
<1>8. QED  BY <1>2, <1>3, <1>5, <1>6, <1>7 DEF CatalogInv

\* What a creation does to the content keeps its types.
LEMMA CatalogTypeStep ==
  ASSUME G!CatalogAssumption, G!TypeOK, FileInv, [G!Next]_(G!vars)
  PROVE  \/ G!TypeOK'
         \/ G!SessionSnapshot
<1> USE NoAnswerTyped DEF G!process, G!disk, G!commands, G!Places
<1>1. CASE G!LoadProviderConfiguration
  <2>1. PICK document \in Documents :
          G!Resolve(document) # G!Refused /\ selected' = G!Resolve(document)
    BY <1>1 DEF G!LoadProviderConfiguration
  <2>2. document \in G!Document
    BY DEF G!CatalogAssumption
  <2>3. starts' \in 0 .. MaxStarts
    BY <1>1 DEF G!LoadProviderConfiguration, G!TypeOK, G!CatalogAssumption
  <2>4. QED
    BY <1>1, <2>1, <2>2, <2>3, Resolved
       DEF G!LoadProviderConfiguration, G!TypeOK, G!Silent
<1>2. CASE G!RecreateStaleDatabase
  <2>1. file' \in Files
    <3>1. file \in Files /\ [file EXCEPT !.torn = FALSE] \in Files
      BY FilesTyped DEF G!TypeOK, Files
    <3>2. QED  BY <1>2, <3>1 DEF G!RecreateStaleDatabase
  <2>2. QED
    BY <1>2, <2>1 DEF G!RecreateStaleDatabase, G!TypeOK, G!Silent, Files
<1>3. CASE G!DiscardStale
  <2>1. file' \in Files
    BY <1>3, FilesTyped DEF G!DiscardStale, G!Discard, G!TypeOK, Files
  <2>2. QED
    BY <1>3, <2>1 DEF G!DiscardStale, G!Discard, G!TypeOK, G!Silent, Files
<1>4. CASE G!CreateSchema
  <2>1. file' \in Files
    BY <1>4, FilesTyped DEF G!CreateSchema, G!Created, G!TypeOK, Files
  <2>2. QED
    BY <1>4, <2>1 DEF G!CreateSchema, G!TypeOK, G!Silent, Files
<1>5. CASE G!StampSchema
  <2>1. file' \in Files
    BY <1>5, FilesTyped DEF G!StampSchema, G!TypeOK, Files
  <2>2. QED
    BY <1>5, <2>1 DEF G!StampSchema, G!TypeOK, G!Silent, Files
<1>6. CASE G!AcceptConfigurationRevision
  <2>1. starts \in 1 .. MaxStarts
    BY <1>6 DEF FileInv, G!AcceptConfigurationRevision, G!TypeOK, G!CatalogAssumption
  <2>2. [file.content EXCEPT !.revisions = @ \cup {starts}] \in G!Contents
    BY <2>1 DEF G!TypeOK, G!Contents
  <2>3. file' \in Files
    BY <1>6, <2>2, FilesTyped DEF G!AcceptConfigurationRevision, G!Commit, G!TypeOK, Files
  <2>4. QED
    BY <1>6, <2>3 DEF G!AcceptConfigurationRevision, G!Commit, G!TypeOK, G!Silent, Files
<1>7. CASE G!Crash
  <2>1. file' \in Files
    <3>1. file \in Files /\ G!Created \in Files
      BY FilesTyped DEF G!TypeOK, G!Created, Files
    <3>2. [G!Created EXCEPT !.torn = TRUE] \in Files
      BY <3>1, FilesTyped
    <3>3. QED  BY <1>7, <3>1, <3>2 DEF G!Crash
  <2>2. call' \in [Clients -> G!Places]
    BY <1>7 DEF G!Crash, G!TypeOK
  <2>3. QED
    BY <1>7, <2>1, <2>2 DEF G!Crash, G!TypeOK, G!Silent, Files
<1>8. ASSUME NEW c \in Clients, G!JoinWorkspaceBinding(c) PROVE G!TypeOK'
  <2>1. G!WorkspaceBinding(rootOf[c]) \in Clients \cup {Nobody}
    BY DEF G!TypeOK, G!Contents, G!WorkspaceBinding
  <2>2. QED
    BY <1>8, <2>1
       DEF G!JoinWorkspaceBinding, G!EnterGate, G!Goto, G!TypeOK, G!Silent
<1>9. ASSUME NEW c \in Clients, G!CreateSession(c) PROVE G!TypeOK'
  <2>1. [file.content EXCEPT !.bound[rootOf[c]] = joined[c], !.session[c] = rootOf[c]]
          \in G!Contents
    BY DEF G!TypeOK, G!Contents
  <2>2. file' \in Files
    BY <1>9, <2>1, FilesTyped DEF G!CreateSession, G!Commit, G!TypeOK, Files
  <2>3. QED
    BY <1>9, <2>2
       DEF G!CreateSession, G!LeaveGate, G!Goto, G!Commit, G!TypeOK, G!Silent, Files
<1>10. ASSUME NEW c \in Clients, G!AcceptFirstTurn(c) PROVE G!TypeOK'
  <2>1. starts \in 1 .. MaxStarts
    BY <1>10 DEF FileInv, G!AcceptFirstTurn, G!Holds, G!TypeOK, G!CatalogAssumption
  <2>2. [file.content EXCEPT !.turn[c] = starts, !.revisions = @ \cup {starts}] \in G!Contents
    BY <2>1 DEF G!TypeOK, G!Contents
  <2>3. file' \in Files
    <3>1. file \in Files  BY DEF G!TypeOK, Files
    <3>2. file' = file \/ file' = [file EXCEPT !.content =
            [file.content EXCEPT !.turn[c] = starts, !.revisions = @ \cup {starts}]]
      BY <1>10 DEF G!AcceptFirstTurn, G!Commit
    <3>3. QED  BY <2>2, <3>1, <3>2, FilesTyped
  <2>4. PICK place \in {"created", "refused", "lost"} : call' = [call EXCEPT ![c] = place]
    BY <1>10 DEF G!AcceptFirstTurn, G!Goto, G!ReplayedTurn
  <2>5. QED
    BY <1>10, <2>3, <2>4 DEF G!AcceptFirstTurn, G!LeaveGate, G!Commit, G!TypeOK, G!Silent, Files
<1>11. ASSUME NEW c \in Clients, G!CreationFails(c) PROVE G!TypeOK'
  BY <1>11 DEF G!CreationFails, G!LeaveGate, G!Goto, G!TypeOK, G!Silent
<1>12. CASE G!RecoverBeforeReady
  BY <1>12 DEF G!RecoverBeforeReady, G!TypeOK, G!Silent
<1>13. CASE UNCHANGED G!vars
  BY <1>13 DEF G!vars, G!TypeOK
<1>14. QED
  BY <1>12, <1>1, <1>2, <1>3, <1>4, <1>5, <1>6, <1>7, <1>8, <1>9, <1>10, <1>11, <1>13 DEF G!Next

\* Every write of the file, by what it does to its columns.
LEMMA FileStep ==
  ASSUME G!CatalogAssumption, G!TypeOK, FileInv, [G!Next]_(G!vars)
  PROVE  FileInv'
<1> USE DEF G!process, G!disk, G!commands
<1>1. file \in Files
  BY DEF G!TypeOK, Files
<1>2. CASE G!LoadProviderConfiguration
  BY <1>2 DEF G!LoadProviderConfiguration, FileInv, G!Exists, G!TypeOK
<1>3. CASE G!RecreateStaleDatabase
  <2>1. CASE ~G!Exists
    BY <1>3, <2>1 DEF G!RecreateStaleDatabase, FileInv, G!Exists
  <2>2. CASE G!Exists
    <3>1. file.stamp # "absent"
      BY <2>2 DEF FileInv, G!Exists
    <3>2. /\ file'.stamp = file.stamp /\ file'.content = file.content
          /\ file'.torn = (file.torn /\ ~G!HotJournal)
          /\ journal' = (journal /\ ~G!HotJournal)
          /\ stage' = IF G!CarriesCurrentSchemaStamp THEN "creating" ELSE "discarding"
          /\ starts' = starts /\ stage = "configured"
      BY <1>1, <1>3, <2>2 DEF G!RecreateStaleDatabase, G!HotJournal, Files
    <3>3. G!Exists'
      BY <3>1, <3>2 DEF G!Exists, G!NoFile
    <3>4. QED
      BY <3>1, <3>2, <3>3 DEF FileInv, G!HotJournal, G!CarriesCurrentSchemaStamp, G!NoFile
  <2>3. QED  BY <2>1, <2>2
<1>4. CASE G!DiscardStale
  BY <1>4 DEF G!DiscardStale, G!Discard, FileInv, G!Exists, G!NoFile
<1>5. CASE G!CreateSchema
  <2>1. file' = IF G!Exists THEN file ELSE G!Written("unstamped", G!Nothing)
    BY <1>5 DEF G!CreateSchema, G!Created
  <2>2. file'.stamp \in {"unstamped", "current"} /\ ~file'.torn /\ G!Exists'
    BY <1>5, <2>1 DEF G!CreateSchema, FileInv, G!Exists, G!Written, G!NoFile
  <2>3. QED  BY <1>5, <2>2 DEF G!CreateSchema, FileInv, G!Exists
<1>6. CASE G!StampSchema
  <2>1. file'.stamp = "current" /\ file'.torn = file.torn /\ G!Exists'
    BY <1>1, <1>6 DEF G!StampSchema, Files, G!Exists, G!NoFile
  <2>2. QED  BY <1>6, <2>1 DEF G!StampSchema, FileInv, G!Exists
<1>7. CASE G!AcceptConfigurationRevision
  <2>1. /\ file'.stamp = file.stamp /\ file'.torn = file.torn
        /\ starts \in file'.content.revisions
    BY <1>1, <1>7 DEF G!AcceptConfigurationRevision, G!Commit, Files, G!Contents
  <2>2. QED
    BY <1>7, <2>1 DEF G!AcceptConfigurationRevision, G!Commit, FileInv, G!Exists, G!NoFile
<1>8. CASE G!Crash
  <2>1. CASE UNCHANGED <<file, journal>>
    BY <1>8, <2>1 DEF G!Crash, FileInv, G!Exists
  <2>2. CASE G!Writing /\ file' = [G!Created EXCEPT !.torn = TRUE] /\ journal'
    <3>1. file'.stamp = G!Created.stamp /\ file'.torn /\ file'.stamp # "absent"
      <4>1. G!Created \in Files
        BY <1>1, FilesTyped DEF G!Created
      <4>2. G!Created.stamp # "absent"
        BY <2>2 DEF G!Created, G!Written, G!Writing, G!Exists, FileInv
      <4>3. QED  BY <2>2, <4>1, <4>2 DEF Files
    <3>2. QED  BY <1>8, <2>2, <3>1 DEF G!Crash, FileInv, G!Exists, G!NoFile
  <2>3. QED  BY <1>8, <2>1, <2>2 DEF G!Crash
<1>9. ASSUME stage = "ready" /\ UNCHANGED <<stage, starts, journal>>,
             UNCHANGED file \/ \E content : /\ file' = [file EXCEPT !.content = content]
                                            /\ starts \in content.revisions
      PROVE  FileInv'
  <2>1. file'.stamp = file.stamp /\ file'.torn = file.torn /\ starts \in file'.content.revisions
    BY <1>1, <1>9 DEF Files, FileInv
  <2>2. QED  BY <1>9, <2>1 DEF FileInv, G!Exists, G!NoFile
<1>10. ASSUME NEW c \in Clients,
              G!JoinWorkspaceBinding(c) \/ G!CreationFails(c)
       PROVE  FileInv'
  BY <1>9, <1>10 DEF G!JoinWorkspaceBinding, G!CreationFails, G!Holds
<1>11. ASSUME NEW c \in Clients, G!CreateSession(c) PROVE FileInv'
  <2>1. starts \in [file.content EXCEPT !.bound[rootOf[c]] = joined[c],
                                        !.session[c] = rootOf[c]].revisions
    BY <1>1, <1>11 DEF G!CreateSession, G!Holds, FileInv, Files, G!Contents
  <2>2. QED  BY <1>9, <1>11, <2>1 DEF G!CreateSession, G!Commit, G!Holds
<1>12. ASSUME NEW c \in Clients, G!AcceptFirstTurn(c) PROVE FileInv'
  <2>1. starts \in [file.content EXCEPT !.turn[c] = starts,
                                        !.revisions = @ \cup {starts}].revisions
    BY <1>1 DEF Files, G!Contents
  <2>2. QED  BY <1>9, <1>12, <2>1 DEF G!AcceptFirstTurn, G!Commit, G!Holds
<1>13. CASE G!SessionSnapshot
  BY <1>9, <1>13 DEF G!SessionSnapshot
<1>14. CASE G!RecoverBeforeReady
  BY <1>14 DEF G!RecoverBeforeReady, FileInv, G!Exists
<1>15. CASE UNCHANGED G!vars
  BY <1>15 DEF G!vars, FileInv, G!Exists
<1>16. QED
  BY <1>14, <1>2, <1>3, <1>4, <1>5, <1>6, <1>7, <1>8, <1>10, <1>11, <1>12, <1>13, <1>15 DEF G!Next

\* The end of the process tears a file at most.
LEMMA CrashKeepsContent ==
  ASSUME G!TypeOK, G!Crash
  PROVE  file'.content = file.content /\ (file.stamp = "current" => file'.stamp = "current")
<1>1. file \in Files
  BY DEF G!TypeOK, Files
<1>2. CASE G!Exists
  BY <1>1, <1>2 DEF G!Crash, G!Created, G!disk, Files
<1>3. CASE ~G!Exists
  BY <1>3 DEF G!Crash, G!Created, G!disk, G!Exists, G!NoFile, G!Written
<1>4. QED  BY <1>2, <1>3

\* What a step leaves of the content where it commits nothing of a creation.
SameContent ==
  /\ file'.content.bound = file.content.bound
  /\ file'.content.session = file.content.session
  /\ file'.content.turn = file.content.turn
  /\ file.content.revisions \subseteq file'.content.revisions

\* A later process has a later number.
LEMMA StartsGrow ==
  ASSUME G!CatalogAssumption, G!TypeOK, [G!Next]_(G!vars)
  PROVE  starts \in Nat /\ starts' \in Nat /\ starts <= starts'
<1>1. starts \in Nat  BY DEF G!CatalogAssumption, G!TypeOK
<1>2. starts' = starts \/ starts' = starts + 1
  BY DEF G!Next, G!vars, G!process, G!LoadProviderConfiguration, G!RecreateStaleDatabase,
         G!DiscardStale, G!CreateSchema, G!StampSchema, G!AcceptConfigurationRevision,
         G!RecoverBeforeReady, G!Crash, G!JoinWorkspaceBinding, G!CreateSession,
         G!AcceptFirstTurn, G!CreationFails, G!SessionSnapshot
<1>3. QED  BY <1>1, <1>2

\* Only creations commit to sessions and turns; a file is only taken away, or made
\* anew, where none of the current schema is.
LEMMA ContentStep ==
  ASSUME G!CatalogAssumption, G!TypeOK, FileInv, [G!Next]_(G!vars)
  PROVE  /\ rootOf' = rootOf
         /\ \/ SameContent /\ (file.stamp = "current" => file'.stamp = "current")
            \/ file'.content = G!Nothing /\ file.stamp # "current" /\ stage # "ready"
            \/ \E c \in Clients : G!CreateSession(c) \/ G!AcceptFirstTurn(c)
<1> USE DEF G!process, G!disk, G!commands
<1>1. file \in Files
  BY DEF G!TypeOK, Files
<1>2. CASE G!LoadProviderConfiguration \/ G!RecoverBeforeReady \/ G!SessionSnapshot
  BY <1>2 DEF G!LoadProviderConfiguration, G!RecoverBeforeReady, G!SessionSnapshot, SameContent
<1>3. CASE G!RecreateStaleDatabase
  <2>1. file'.content = file.content /\ file'.stamp = file.stamp
    BY <1>1, <1>3 DEF G!RecreateStaleDatabase, Files
  <2>2. QED  BY <1>3, <2>1 DEF G!RecreateStaleDatabase, SameContent
<1>4. CASE G!DiscardStale
  BY <1>4 DEF G!DiscardStale, G!Discard, FileInv, SameContent, G!NoFile
<1>5. CASE G!CreateSchema
  <2>1. CASE G!Exists
    BY <1>5, <2>1 DEF G!CreateSchema, G!Created, SameContent
  <2>2. CASE ~G!Exists
    BY <1>5, <2>2 DEF G!CreateSchema, G!Created, G!Exists, G!Written, G!NoFile
  <2>3. QED  BY <2>1, <2>2
<1>6. CASE G!StampSchema
  <2>1. file'.content = file.content /\ file'.stamp = "current"
    BY <1>1, <1>6 DEF G!StampSchema, Files
  <2>2. QED  BY <1>6, <2>1 DEF G!StampSchema, SameContent
<1>7. CASE G!AcceptConfigurationRevision
  <2>1. SameContent /\ file'.stamp = file.stamp
    BY <1>1, <1>7 DEF G!AcceptConfigurationRevision, G!Commit, Files, G!Contents, SameContent
  <2>2. QED  BY <1>7, <2>1 DEF G!AcceptConfigurationRevision
<1>8. CASE G!Crash
  <2>1. file'.content = file.content /\ (file.stamp = "current" => file'.stamp = "current")
    BY <1>1, <1>8, CrashKeepsContent
  <2>2. QED  BY <1>8, <2>1 DEF G!Crash, SameContent
<1>9. ASSUME NEW c \in Clients, G!JoinWorkspaceBinding(c) \/ G!CreationFails(c)
      PROVE  rootOf' = rootOf /\ SameContent /\ file' = file
  BY <1>9 DEF G!JoinWorkspaceBinding, G!CreationFails, SameContent
<1>10. ASSUME NEW c \in Clients, G!CreateSession(c) \/ G!AcceptFirstTurn(c)
       PROVE  rootOf' = rootOf
  BY <1>10 DEF G!CreateSession, G!AcceptFirstTurn
<1>11. CASE UNCHANGED G!vars
  BY <1>11 DEF G!vars, SameContent
<1>12. QED
  BY <1>2, <1>3, <1>4, <1>5, <1>6, <1>7, <1>8, <1>9, <1>10, <1>11 DEF G!Next

\* The content of the file after the two transactions of a creation.
LEMMA CreationContent ==
  ASSUME G!TypeOK, NEW c \in Clients
  PROVE  /\ G!CreateSession(c) =>
              \/ UNCHANGED file
              \/ /\ file.content.session[c] = Nobody
                 /\ file.content.bound[rootOf[c]] \in {Nobody, joined[c]}
                 /\ file'.stamp = file.stamp
                 /\ file'.content.bound = [file.content.bound EXCEPT ![rootOf[c]] = joined[c]]
                 /\ file'.content.session = [file.content.session EXCEPT ![c] = rootOf[c]]
                 /\ file'.content.turn = file.content.turn
                 /\ file'.content.revisions = file.content.revisions
                 /\ call' = [call EXCEPT ![c] = "made"] /\ UNCHANGED <<gate, joined>>
         /\ G!AcceptFirstTurn(c) =>
              \/ UNCHANGED file /\ file.content.turn[c] # 0
              \/ /\ file'.stamp = file.stamp
                 /\ file'.content.bound = file.content.bound
                 /\ file'.content.session = file.content.session
                 /\ file'.content.turn = [file.content.turn EXCEPT ![c] = starts]
                 /\ file'.content.revisions = file.content.revisions \cup {starts}
<1> DEFINE content == file.content
           made == [content EXCEPT !.bound[rootOf[c]] = joined[c], !.session[c] = rootOf[c]]
           turned == [content EXCEPT !.turn[c] = starts, !.revisions = @ \cup {starts}]
<1>1. file \in Files
  BY DEF G!TypeOK, Files
<1>2. /\ made.bound = [content.bound EXCEPT ![rootOf[c]] = joined[c]]
      /\ made.session = [content.session EXCEPT ![c] = rootOf[c]]
      /\ made.turn = content.turn /\ made.revisions = content.revisions
      /\ turned.bound = content.bound /\ turned.session = content.session
      /\ turned.turn = [content.turn EXCEPT ![c] = starts]
      /\ turned.revisions = content.revisions \cup {starts}
  BY <1>1 DEF Files, G!Contents
<1>3. /\ [file EXCEPT !.content = made].content = made
      /\ [file EXCEPT !.content = turned].content = turned
      /\ [file EXCEPT !.content = made].stamp = file.stamp
      /\ [file EXCEPT !.content = turned].stamp = file.stamp
  BY <1>1 DEF Files
<1>4. ASSUME G!CreateSession(c)
      PROVE  \/ UNCHANGED file
             \/ /\ content.session[c] = Nobody
                /\ content.bound[rootOf[c]] \in {Nobody, joined[c]}
                /\ file' = [file EXCEPT !.content = made]
                /\ call' = [call EXCEPT ![c] = "made"] /\ UNCHANGED <<gate, joined>>
  BY <1>4 DEF G!CreateSession, G!Commit, G!Goto, G!disk
<1>5. ASSUME G!AcceptFirstTurn(c)
      PROVE  \/ UNCHANGED file /\ content.turn[c] # 0
             \/ file' = [file EXCEPT !.content = turned]
  BY <1>5 DEF G!AcceptFirstTurn, G!Commit, G!disk
<1> HIDE DEF made, turned
<1>6. QED  BY <1>2, <1>3, <1>4, <1>5

\* A creation binds its root to its own identity or to the one it was bound to.
LEMMA ContentInvStep ==
  ASSUME G!CatalogAssumption, CatalogInv, [G!Next]_(G!vars)
  PROVE  ContentInv'
<1>1. G!TypeOK /\ FileInv /\ ContentInv /\ CallInv
  BY DEF CatalogInv
<1>2. /\ rootOf' = rootOf /\ rootOf \in [Clients -> Roots] /\ Nobody \notin Clients \cup Roots
      /\ file.content.bound \in [Roots -> Clients \cup {Nobody}]
      /\ file.content.session \in [Clients -> Roots \cup {Nobody}]
      /\ file.content.turn \in [Clients -> 0 .. MaxStarts]
      /\ joined \in [Clients -> Clients \cup {Nobody}]
      /\ starts \in Nat /\ starts' \in Nat /\ starts <= starts' /\ MaxStarts \in Nat
  BY <1>1, ContentStep, StartsGrow DEF G!TypeOK, G!Contents, G!CatalogAssumption
<1>3. CASE SameContent
  BY <1>1, <1>2, <1>3 DEF SameContent, ContentInv
<1>4. CASE file'.content = G!Nothing
  <2>1. \A c \in Clients : file'.content.turn[c] = 0 /\ file'.content.session[c] = Nobody
    BY <1>4 DEF G!Nothing
  <2>2. \A r \in Roots : file'.content.bound[r] = Nobody
    BY <1>4 DEF G!Nothing
  <2>3. QED  BY <1>2, <2>1, <2>2 DEF ContentInv
<1>5. ASSUME NEW c \in Clients, G!CreateSession(c) PROVE ContentInv'
  <2>1. CASE UNCHANGED file
    BY <1>1, <1>2, <2>1 DEF ContentInv
  <2>2. CASE /\ file.content.session[c] = Nobody
             /\ file.content.bound[rootOf[c]] \in {Nobody, joined[c]}
             /\ file'.content.bound = [file.content.bound EXCEPT ![rootOf[c]] = joined[c]]
             /\ file'.content.session = [file.content.session EXCEPT ![c] = rootOf[c]]
             /\ file'.content.turn = file.content.turn
             /\ file'.content.revisions = file.content.revisions
    <3>1. call[c] = "joined"
      BY <1>5 DEF G!CreateSession
    <3>2. joined[c] # Nobody /\ rootOf[joined[c]] = rootOf[c]
      BY <1>1, <1>2, <3>1 DEF CallInv, ContentInv
    <3>3. \A r \in Roots : file'.content.bound[r] # Nobody => rootOf'[file'.content.bound[r]] = r
      BY <1>1, <1>2, <2>2, <3>2 DEF ContentInv
    <3>4. \A d \in Clients : file'.content.session[d] # Nobody =>
            file'.content.session[d] = rootOf'[d] /\ file'.content.bound[rootOf'[d]] # Nobody
      BY <1>1, <1>2, <2>2, <3>2 DEF ContentInv
    <3>5. \A d \in Clients : file'.content.turn[d] <= starts'
      BY <1>1, <1>2, <2>2 DEF ContentInv
    <3>6. QED  BY <1>1, <2>2, <3>3, <3>4, <3>5 DEF ContentInv
  <2>3. QED  BY <1>1, <1>5, <2>1, <2>2, CreationContent
<1>6. ASSUME NEW c \in Clients, G!AcceptFirstTurn(c) PROVE ContentInv'
  <2>1. CASE UNCHANGED file
    BY <1>1, <1>2, <2>1 DEF ContentInv
  <2>2. CASE /\ file'.content.bound = file.content.bound
             /\ file'.content.session = file.content.session
             /\ file'.content.turn = [file.content.turn EXCEPT ![c] = starts]
             /\ file'.content.revisions = file.content.revisions \cup {starts}
    <3>1. \A d \in Clients : file'.content.turn[d] # 0 =>
            file'.content.turn[d] \in file'.content.revisions
      BY <1>1, <1>2, <2>2 DEF ContentInv
    <3>2. \A d \in Clients : file'.content.turn[d] <= starts'
      BY <1>1, <1>2, <2>2 DEF ContentInv
    <3>3. QED  BY <1>1, <1>2, <2>2, <3>1, <3>2 DEF ContentInv
  <2>3. QED  BY <1>1, <1>6, <2>1, <2>2, CreationContent
<1>7. QED  BY <1>1, <1>3, <1>4, <1>5, <1>6, ContentStep

\* The gate keeps what a creation read true until it commits, and what was answered
\* stays.
LEMMA CallsStep ==
  ASSUME G!CatalogAssumption, CatalogInv, [G!Next]_(G!vars)
  PROVE  CallInv'
<1> USE DEF G!process, G!disk, G!commands
<1>1. G!TypeOK /\ FileInv /\ ContentInv /\ CallInv
  BY DEF CatalogInv
<1>2. /\ rootOf' = rootOf /\ rootOf \in [Clients -> Roots] /\ Nobody \notin Clients \cup Roots
      /\ file.content.bound \in [Roots -> Clients \cup {Nobody}]
      /\ file.content.session \in [Clients -> Roots \cup {Nobody}]
      /\ file.content.turn \in [Clients -> 0 .. MaxStarts]
      /\ joined \in [Clients -> Clients \cup {Nobody}]
      /\ call \in [Clients -> G!Places]
      /\ starts \in Nat /\ starts' \in Nat /\ starts <= starts' /\ MaxStarts \in Nat
  BY <1>1, ContentStep, StartsGrow DEF G!TypeOK, G!Contents, G!CatalogAssumption
<1>3. ASSUME UNCHANGED <<call, joined>>, stage # "ready" \/ UNCHANGED <<stage, gate>>,
             \/ SameContent /\ (file.stamp = "current" => file'.stamp = "current")
             \/ file'.content = G!Nothing /\ file.stamp # "current" /\ stage # "ready"
      PROVE  CallInv'
  BY <1>1, <1>2, <1>3 DEF CallInv, SameContent
<1>4. CASE \/ G!LoadProviderConfiguration \/ G!RecreateStaleDatabase \/ G!DiscardStale
           \/ G!CreateSchema \/ G!StampSchema \/ G!AcceptConfigurationRevision
           \/ G!RecoverBeforeReady \/ G!SessionSnapshot \/ UNCHANGED G!vars
  <2>1. UNCHANGED <<call, joined>> /\ (stage # "ready" \/ UNCHANGED <<stage, gate>>)
    BY <1>4 DEF G!LoadProviderConfiguration, G!RecreateStaleDatabase, G!DiscardStale, G!Discard,
                G!CreateSchema, G!StampSchema, G!AcceptConfigurationRevision,
                G!RecoverBeforeReady, G!SessionSnapshot, G!vars
  <2>2. \A c \in Clients : ~G!CreateSession(c) /\ ~G!AcceptFirstTurn(c)
    <3>1. ASSUME NEW c \in Clients, G!CreateSession(c) \/ G!AcceptFirstTurn(c) PROVE FALSE
      <4>1. call'[c] # call[c]
        BY <1>2, <3>1 DEF G!CreateSession, G!AcceptFirstTurn, G!Goto, G!ReplayedTurn
      <4>2. QED  BY <2>1, <4>1
    <3>2. QED  BY <3>1
  <2>3. QED  BY <1>1, <1>3, <2>1, <2>2, ContentStep
<1>5. CASE G!Crash
  <2>1. \A c \in Clients : call'[c] = IF call[c] \in {"joined", "made"} THEN "lost" ELSE call[c]
    BY <1>5 DEF G!Crash
  <2>2. file'.content = file.content /\ (file.stamp = "current" => file'.stamp = "current")
    BY <1>1, <1>5, CrashKeepsContent
  <2>3. QED  BY ONLY <1>1, <1>2, <2>1, <2>2 DEF CallInv
<1>6. ASSUME NEW c \in Clients, G!JoinWorkspaceBinding(c) PROVE CallInv'
  <2>1. /\ gate = Nobody /\ gate' = c /\ stage = "ready" /\ stage' = "ready" /\ file' = file
        /\ call' = [call EXCEPT ![c] = "joined"]
        /\ joined'[c] = IF file.content.bound[rootOf[c]] = Nobody
                        THEN c ELSE file.content.bound[rootOf[c]]
        /\ \A d \in Clients \ {c} : joined'[d] = joined[d]
    BY <1>2, <1>6 DEF G!JoinWorkspaceBinding, G!EnterGate, G!Goto, G!WorkspaceBinding
  <2>2. \A d \in Clients : call[d] \notin {"joined", "made"}
    BY <1>1, <1>2, <2>1 DEF CallInv
  <2>3. QED  BY ONLY <1>1, <1>2, <2>1, <2>2 DEF CallInv
<1>7. ASSUME NEW c \in Clients, stage = "ready", G!Holds(c), call[c] \in {"joined", "made"}
      PROVE  gate = c /\ \A d \in Clients \ {c} : call[d] \notin {"joined", "made"}
  BY <1>1, <1>2, <1>7 DEF CallInv
<1>8. ASSUME NEW c \in Clients, G!CreateSession(c) PROVE CallInv'
  <2>1. /\ stage = "ready" /\ stage' = stage /\ call[c] = "joined" /\ gate = c
        /\ \A d \in Clients \ {c} : call[d] \notin {"joined", "made"}
    BY <1>7, <1>8 DEF G!CreateSession, G!Holds
  <2>2. joined[c] = IF file.content.bound[rootOf[c]] = Nobody
                    THEN c ELSE file.content.bound[rootOf[c]]
    BY <1>1, <2>1 DEF CallInv
  <2>3. /\ file.content.bound[rootOf[c]] \in {Nobody, joined[c]}
        /\ \A r \in Roots \ {rootOf[c]} : file.content.bound[r] # joined[c]
    BY <1>1, <1>2, <2>2 DEF ContentInv
  <2>4. CASE file.content.session[c] # Nobody
    <3>1. file' = file /\ gate' = gate /\ call' = [call EXCEPT ![c] = "made"]
      BY <1>8, <2>4 DEF G!CreateSession, G!Goto
    <3>2. file.content.session[c] = rootOf[c]
      BY <1>1, <2>4 DEF ContentInv
    <3>3. QED  BY ONLY <1>1, <1>2, <2>1, <3>1, <3>2 DEF CallInv
  <2>5. CASE file.content.session[c] = Nobody
    <3>1. file' # file => call' = [call EXCEPT ![c] = "made"] /\ gate' = gate
      BY <1>1, <1>8, CreationContent
    <3>2. call' = [call EXCEPT ![c] = "made"] /\ gate' = gate
          /\ file'.content.session = [file.content.session EXCEPT ![c] = rootOf[c]]
          /\ file'.content.turn = file.content.turn
          /\ file'.stamp = file.stamp
      <4>1. G!Commit([file.content EXCEPT !.bound[rootOf[c]] = joined[c],
                                          !.session[c] = rootOf[c]])
            /\ call' = [call EXCEPT ![c] = "made"] /\ gate' = gate
        BY <1>8, <2>3, <2>5 DEF G!CreateSession, G!Goto
      <4>2. QED  BY <1>1, <4>1 DEF G!Commit, G!TypeOK, G!Contents
    <3>3. QED  BY ONLY <1>1, <1>2, <2>1, <3>2 DEF CallInv
  <2>6. QED  BY <2>4, <2>5
<1>9. ASSUME NEW c \in Clients, G!AcceptFirstTurn(c) PROVE CallInv'
  <2>1. /\ stage = "ready" /\ stage' = stage /\ call[c] = "made"
        /\ \A d \in Clients \ {c} : call[d] \notin {"joined", "made"}
    BY <1>7, <1>9 DEF G!AcceptFirstTurn, G!Holds
  <2>2. PICK place \in {"created", "refused", "lost"} :
          /\ call' = [call EXCEPT ![c] = place]
          /\ place = "refused" => file.content.turn[c] \notin {0, starts} /\ file' = file
    BY <1>9 DEF G!AcceptFirstTurn, G!Goto, G!ReplayedTurn
  <2>3. file.stamp = "current" /\ starts # 0 /\ file.content.session[c] = rootOf[c]
    BY <1>1, <2>1 DEF FileInv, CallInv
  <2>4. /\ file'.stamp = file.stamp /\ file'.content.session = file.content.session
        /\ file'.content.turn[c] # 0
        /\ \A d \in Clients \ {c} : file'.content.turn[d] = file.content.turn[d]
    <3>1. CASE UNCHANGED file /\ file.content.turn[c] # 0
      BY <3>1
    <3>2. CASE /\ file'.stamp = file.stamp
               /\ file'.content.session = file.content.session
               /\ file'.content.turn = [file.content.turn EXCEPT ![c] = starts]
      BY <1>2, <2>3, <3>2
    <3>3. QED  BY <1>1, <1>9, <3>1, <3>2, CreationContent
  <2>5. place = "refused" => file'.content.turn[c] < starts'
    <3>1. starts' = starts  BY <1>9 DEF G!AcceptFirstTurn
    <3>2. file.content.turn[c] \in Nat /\ file.content.turn[c] <= starts
      BY <1>1, <1>2 DEF ContentInv
    <3>3. QED  BY <1>2, <2>2, <3>1, <3>2
  <2>6. QED  BY ONLY <1>1, <1>2, <2>1, <2>2, <2>3, <2>4, <2>5 DEF CallInv, G!Places
<1>10. ASSUME NEW c \in Clients, G!CreationFails(c) PROVE CallInv'
  <2>1. \A d \in Clients \ {c} : call[d] \notin {"joined", "made"}
    BY <1>7, <1>10 DEF G!CreationFails, G!Holds
  <2>2. call' = [call EXCEPT ![c] = "lost"] /\ file' = file
    BY <1>10 DEF G!CreationFails, G!Goto
  <2>3. QED  BY ONLY <1>1, <1>2, <2>1, <2>2 DEF CallInv
<1>11. QED
  BY <1>4, <1>5, <1>6, <1>8, <1>9, <1>10 DEF G!Next

\* The bytes of the newest rows, as a recursive function of their number.
IsSum(f, rows, k) ==
  f = [i \in 0 .. k |-> IF i = 0 THEN 0 ELSE f[i - 1] + G!Newest(rows, i)]

LEMMA BytesGrow ==
  ASSUME NEW rows \in Seq(Nat \ {0})
  PROVE  /\ \A k \in 0 .. Len(rows) : G!Bytes(rows, k) \in Nat
         /\ G!Bytes(rows, 0) = 0
         /\ \A k \in 1 .. Len(rows) :
              /\ G!Newest(rows, k) \in Nat \ {0}
              /\ G!Bytes(rows, k) = G!Bytes(rows, k - 1) + G!Newest(rows, k)
<1> DEFINE n == Len(rows)
           F == [x \in Nat \X Nat |-> IF x[2] \in 1 .. n THEN x[1] + G!Newest(rows, x[2]) ELSE 0]
<1>1. n \in Nat /\ \A k \in 1 .. n : G!Newest(rows, k) \in Nat \ {0}
  BY DEF G!Newest
<1>2. F \in [Nat \X Nat -> Nat]  BY <1>1
<1> HIDE DEF n
<1>3. PICK f \in [0 .. n -> Nat] : Recursion(f, 0, F, n)
  <2> HIDE DEF F
  <2> QED  BY <1>1, <1>2, RecursionExists
<1>4. f[0] = 0 /\ \A k \in 1 .. n : k - 1 \in 0 .. n /\ f[k] = f[k - 1] + G!Newest(rows, k)
  <2>1. ASSUME NEW k \in 1 .. n PROVE k - 1 \in 0 .. n /\ f[k] = f[k - 1] + G!Newest(rows, k)
    <3>1. k \in 0 .. n /\ k # 0 /\ k - 1 \in 0 .. n /\ k \in Nat  BY <1>1
    <3>2. f[k] = F[<<f[k - 1], k>>] /\ f[k - 1] \in Nat  BY <1>3, <3>1 DEF Recursion
    <3>3. QED  BY <3>1, <3>2
  <2>2. 0 \in 0 .. n  BY <1>1
  <2>3. QED  BY <1>3, <2>1, <2>2 DEF Recursion
<1> HIDE DEF F
<1>5. ASSUME NEW k \in 0 .. n PROVE G!Bytes(rows, k) = f[k]
  <2> DEFINE g == [i \in 0 .. k |-> f[i]]
             s == CHOOSE h : IsSum(h, rows, k)
             P == {i \in Nat : i <= k => s[i] = f[i]}
  <2>1. IsSum(g, rows, k)
    <3>1. ASSUME NEW i \in 0 .. k
          PROVE  f[i] = IF i = 0 THEN 0 ELSE g[i - 1] + G!Newest(rows, i)
      <4>1. i # 0 => i \in 1 .. n /\ i - 1 \in 0 .. k  BY <1>1
      <4>2. QED  BY <1>4, <4>1
    <3>2. QED  BY <3>1 DEF IsSum
  <2> HIDE DEF g
  <2>2. IsSum(s, rows, k)  BY <2>1
  <2>3. G!Bytes(rows, k) = s[k]  BY DEF G!Bytes, IsSum
  <2> HIDE DEF s
  <2>4. 0 \in P  BY <1>4, <2>2 DEF IsSum
  <2>5. ASSUME NEW i \in P PROVE i + 1 \in P
    <3>1. SUFFICES ASSUME i + 1 <= k PROVE s[i + 1] = f[i + 1]  OBVIOUS
    <3>2. i + 1 \in 0 .. k /\ i + 1 # 0 /\ (i + 1) - 1 = i /\ i + 1 \in 1 .. n /\ i <= k
      BY <1>1, <3>1
    <3>3. s[i + 1] = s[i] + G!Newest(rows, i + 1)  BY <2>2, <3>2 DEF IsSum
    <3>4. f[i + 1] = f[i] + G!Newest(rows, i + 1)  BY <1>4, <3>2
    <3>5. QED  BY <3>2, <3>3, <3>4
  <2>6. P = Nat
    <3> HIDE DEF P
    <3> QED  BY <2>4, <2>5, SetInduction DEF P
  <2>7. k \in P
    <3>1. k \in Nat  BY <1>1
    <3> HIDE DEF P
    <3>2. QED  BY <2>6, <3>1
  <2>8. QED  BY <1>1, <2>3, <2>7
<1>6. QED
  <2>1. 0 \in 0 .. n /\ \A k \in 1 .. n : k \in 0 .. n /\ k - 1 \in 0 .. n  BY <1>1
  <2>2. G!Bytes(rows, 0) = 0  BY <1>4, <1>5, <2>1
  <2>3. \A k \in 0 .. n : G!Bytes(rows, k) \in Nat  BY <1>3, <1>5
  <2>4. \A k \in 1 .. n : G!Bytes(rows, k) = G!Bytes(rows, k - 1) + G!Newest(rows, k)
    BY <1>4, <1>5, <2>1
  <2>5. QED  BY <1>1, <2>2, <2>3, <2>4 DEF n

LEMMA BytesMonotone ==
  ASSUME NEW rows \in Seq(Nat \ {0}), NEW j \in 0 .. Len(rows), NEW k \in 0 .. Len(rows), j <= k
  PROVE  G!Bytes(rows, j) <= G!Bytes(rows, k)
<1> DEFINE P == {d \in Nat : j + d <= Len(rows) => G!Bytes(rows, j) <= G!Bytes(rows, j + d)}
<1>1. Len(rows) \in Nat /\ j \in Nat /\ k - j \in Nat /\ j + (k - j) = k  OBVIOUS
<1>2. 0 \in P
  <2>1. j + 0 = j /\ G!Bytes(rows, j) \in Nat  BY BytesGrow
  <2>2. QED  BY <2>1
<1>3. ASSUME NEW d \in P PROVE d + 1 \in P
  <2>1. SUFFICES ASSUME j + (d + 1) <= Len(rows)
                 PROVE  G!Bytes(rows, j) <= G!Bytes(rows, j + (d + 1))
    OBVIOUS
  <2>2. /\ j + (d + 1) \in 1 .. Len(rows) /\ j + (d + 1) - 1 = j + d
        /\ j + d \in 0 .. Len(rows) /\ j + d <= Len(rows)
    BY <1>1, <2>1
  <2>3. G!Bytes(rows, j + (d + 1)) = G!Bytes(rows, j + d) + G!Newest(rows, j + (d + 1))
        /\ G!Newest(rows, j + (d + 1)) \in Nat
        /\ G!Bytes(rows, j + d) \in Nat /\ G!Bytes(rows, j) \in Nat
    BY <2>2, BytesGrow
  <2>4. G!Bytes(rows, j) <= G!Bytes(rows, j + d)  BY <2>2
  <2>5. QED  BY <2>3, <2>4
<1>4. P = Nat
  <2> HIDE DEF P
  <2> QED  BY <1>2, <1>3, SetInduction DEF P
<1>5. k - j \in P  BY <1>1, <1>4
<1>6. QED  BY <1>1, <1>5

\* Where a snapshot stops after its k newest rows: kept whole so far, or full.
KeptRows(reached, projection, rows, k) ==
  LET n == Len(rows) IN
  /\ reached.from \in n + 1 - k .. n
  /\ ~reached.full => /\ reached.from = n + 1 - k
                   /\ reached.budget = G!Monus(Budget, projection + G!Bytes(rows, k))
  /\ reached.from < n => G!Bytes(rows, n + 1 - reached.from) + projection <= Budget
  /\ reached.full => /\ reached.from > n + 1 - k
                  /\ G!Bytes(rows, n + 2 - reached.from) + projection > Budget

NextKept(reached, rows, k) ==
  IF reached.full \/ (G!Newest(rows, k) > reached.budget /\ k # 1)
  THEN [reached EXCEPT !.full = TRUE]
  ELSE [budget |-> G!Monus(reached.budget, G!Newest(rows, k)), from |-> Len(rows) + 1 - k,
        full |-> FALSE]

NoneKept(projection, rows) ==
  [budget |-> G!Monus(Budget, projection), from |-> Len(rows) + 1, full |-> FALSE]

IsKeeping(f, projection, rows) ==
  f = [k \in 0 .. Len(rows) |->
         IF k = 0 THEN NoneKept(projection, rows) ELSE NextKept(f[k - 1], rows, k)]

LEMMA KeepingExists ==
  ASSUME Budget \in Nat, NEW rows \in Seq(Nat \ {0}), NEW projection \in Nat
  PROVE  \E f : /\ IsKeeping(f, projection, rows)
                /\ f \in [0 .. Len(rows) -> [budget : Nat, from : Nat, full : BOOLEAN]]
                /\ G!BoundedSnapshotMessages(projection, rows) = f[Len(rows)].from
<1> DEFINE n == Len(rows)
           S == [budget : Nat, from : Nat, full : BOOLEAN]
           F == [x \in S \X Nat |-> IF x[2] \in 1 .. n THEN NextKept(x[1], rows, x[2]) ELSE x[1]]
           f == CHOOSE h : IsKeeping(h, projection, rows)
<1>1. n \in Nat /\ \A k \in 1 .. n : G!Newest(rows, k) \in Nat /\ n + 1 - k \in Nat
  BY DEF G!Newest
<1>2. F \in [S \X Nat -> S]
  <2>1. ASSUME NEW reached \in S, NEW k \in 1 .. n PROVE NextKept(reached, rows, k) \in S
    <3>1. [reached EXCEPT !.full = TRUE] \in S  OBVIOUS
    <3>2. G!Newest(rows, k) \in Nat /\ reached.budget \in Nat /\ n + 1 - k \in Nat  BY <1>1
    <3>3. G!Monus(reached.budget, G!Newest(rows, k)) \in Nat  BY <3>2 DEF G!Monus
    <3>4. QED  BY <3>1, <3>2, <3>3 DEF NextKept
  <2> HIDE DEF S, n
  <2>2. QED  BY <2>1
<1>3. NoneKept(projection, rows) \in S  BY <1>1 DEF NoneKept, G!Monus
<1> HIDE DEF n
<1>4. PICK g \in [0 .. n -> S] : Recursion(g, NoneKept(projection, rows), F, n)
  <2> HIDE DEF F, S
  <2> QED  BY <1>1, <1>2, <1>3, RecursionExists
<1>5. ASSUME NEW k \in 0 .. n
      PROVE  g[k] = IF k = 0 THEN NoneKept(projection, rows) ELSE NextKept(g[k - 1], rows, k)
  <2>1. k # 0 => k - 1 \in 0 .. n /\ k \in 1 .. n /\ k \in Nat  BY <1>1
  <2> HIDE DEF S
  <2>2. QED  BY <1>4, <2>1 DEF Recursion
<1> HIDE DEF F
<1>6. IsKeeping(g, projection, rows)
  BY <1>4, <1>5 DEF IsKeeping, n
<1>7. G!BoundedSnapshotMessages(projection, rows) = f[n].from /\ IsKeeping(f, projection, rows)
  BY <1>6 DEF G!BoundedSnapshotMessages, IsKeeping, NextKept, NoneKept, n
<1> HIDE DEF f
<1>8. ASSUME NEW k \in 0 .. n
      PROVE  f[k] = IF k = 0 THEN NoneKept(projection, rows) ELSE NextKept(f[k - 1], rows, k)
  BY <1>7 DEF IsKeeping, n
<1> DEFINE P == {k \in Nat : k <= n => f[k] = g[k]}
<1>9. 0 \in P
  <2>1. 0 \in 0 .. n  BY <1>1
  <2>2. QED  BY <1>5, <1>8, <2>1
<1>10. ASSUME NEW k \in P PROVE k + 1 \in P
  <2>1. k + 1 <= n => k + 1 \in 0 .. n /\ k + 1 # 0 /\ (k + 1) - 1 = k /\ k <= n  BY <1>1
  <2>2. QED  BY <1>5, <1>8, <2>1
<1>11. P = Nat
  <2> HIDE DEF P
  <2> QED  BY <1>9, <1>10, SetInduction DEF P
<1>12. \A k \in 0 .. n : f[k] \in S
  <2> HIDE DEF S
  <2> QED  BY <1>1, <1>4, <1>11
<1>13. f \in [0 .. n -> S]
  <2> HIDE DEF S
  <2> QED  BY <1>7, <1>12 DEF IsKeeping, n
<1>14. QED  BY <1>7, <1>13 DEF n

LEMMA SnapshotsFit ==
  ASSUME Budget \in Nat, NEW rows \in Seq(Nat \ {0}), NEW projection \in Nat,
         NEW from, from = G!BoundedSnapshotMessages(projection, rows)
  PROVE  LET n == Len(rows)
             Fits(first) == G!Bytes(rows, n + 1 - first) + projection <= Budget
         IN  /\ from \in Nat
             /\ n > 0 =>
                  /\ from \in 1 .. n
                  /\ from < n => Fits(from)
                  /\ \A first \in 1 .. from - 1 : ~Fits(first)
<1> DEFINE n == Len(rows)
           S == [budget : Nat, from : Nat, full : BOOLEAN]
<1>1. PICK f : /\ IsKeeping(f, projection, rows) /\ f \in [0 .. n -> S]
               /\ from = f[n].from
  BY KeepingExists
<1>2. n \in Nat /\ n \in 0 .. n  OBVIOUS
<1>3. from \in Nat  BY <1>1, <1>2
<1>4. ASSUME NEW k \in 0 .. n
      PROVE  f[k] = IF k = 0 THEN NoneKept(projection, rows) ELSE NextKept(f[k - 1], rows, k)
  BY <1>1 DEF IsKeeping
<1> DEFINE Spent(k) == G!Bytes(rows, k)
<1>5. /\ \A k \in 0 .. n : Spent(k) \in Nat
      /\ Spent(0) = 0
      /\ \A k \in 1 .. n : G!Newest(rows, k) \in Nat \ {0} /\ Spent(k) = Spent(k - 1) + G!Newest(rows, k)
  BY BytesGrow
<1> DEFINE P == {k \in Nat : k + 1 <= n => KeptRows(f[k + 1], projection, rows, k + 1)}
<1>6. 0 \in P
  <2>1. SUFFICES ASSUME 1 <= n PROVE KeptRows(f[1], projection, rows, 1)  OBVIOUS
  <2>2. 1 \in 0 .. n /\ 1 \in 1 .. n /\ 0 \in 0 .. n  BY <1>2, <2>1
  <2>3. f[0] = NoneKept(projection, rows) /\ f[1] = NextKept(f[0], rows, 1)
    BY <1>4, <2>2
  <2> DEFINE m == G!Newest(rows, 1)
  <2>4. Spent(1) = m /\ m \in Nat
    BY <1>5, <2>2
  <2>5. f[1] = [budget |-> G!Monus(G!Monus(Budget, projection), m), from |-> n, full |-> FALSE]
    BY <1>2, <2>3 DEF NoneKept, NextKept
  <2>6. f[1].budget = G!Monus(Budget, projection + Spent(1))
    <3> HIDE DEF m, Spent
    <3> QED  BY <2>4, <2>5 DEF G!Monus
  <2>7. QED  BY <1>2, <2>1, <2>5, <2>6 DEF KeptRows
<1>7. ASSUME NEW j \in P PROVE j + 1 \in P
  <2> DEFINE k == j + 1
  <2>1. SUFFICES ASSUME k + 1 <= n PROVE KeptRows(f[k + 1], projection, rows, k + 1)  OBVIOUS
  <2>2. /\ k \in Nat \ {0} /\ k \in 0 .. n /\ k + 1 \in 0 .. n /\ k + 1 \in 1 .. n
        /\ (k + 1) - 1 = k /\ k + 1 # 0 /\ k + 1 # 1 /\ k <= n
    BY <1>2, <2>1
  <2>3. KeptRows(f[k], projection, rows, k)  BY <2>2
  <2> HIDE DEF k
  <2> DEFINE old == f[k]
             new == f[k + 1]
             m == G!Newest(rows, k + 1)
  <2>4. new = NextKept(old, rows, k + 1)  BY <1>4, <2>2
  <2>5. old \in S  BY <1>1, <2>2
  <2>6. m \in Nat \ {0} /\ Spent(k + 1) = Spent(k) + m /\ Spent(k) \in Nat /\ Spent(k + 1) \in Nat
    BY <1>5, <2>2
  <2> HIDE DEF old, new, m, n
  <2>7. CASE old.full
    <3>1. new.from = old.from /\ new.budget = old.budget /\ new.full
      BY <2>4, <2>5, <2>7 DEF NextKept
    <3>2. old.from \in n + 1 - k .. n /\ old.from > n + 1 - k
          /\ (old.from < n => Spent(n + 1 - old.from) + projection <= Budget)
          /\ Spent(n + 2 - old.from) + projection > Budget
      BY <2>3, <2>7 DEF KeptRows, n, old
    <3> HIDE DEF Spent
    <3>3. new.from \in n + 1 - (k + 1) .. n /\ new.from > n + 1 - (k + 1)
      BY <1>2, <2>2, <3>1, <3>2
    <3>4. QED  BY <3>1, <3>2, <3>3 DEF KeptRows, Spent, n, new
  <2>8. CASE ~old.full /\ m > old.budget
    <3>1. new.from = old.from /\ new.full
      BY <2>2, <2>4, <2>5, <2>8 DEF NextKept, m
    <3>2. old.from = n + 1 - k /\ old.budget = G!Monus(Budget, projection + Spent(k))
          /\ (old.from < n => Spent(n + 1 - old.from) + projection <= Budget)
      BY <2>3, <2>8 DEF KeptRows, n, old
    <3>3. Spent(k + 1) + projection > Budget
      <4> HIDE DEF Spent
      <4>1. CASE Budget > projection + Spent(k)
        BY <2>6, <2>8, <3>2, <4>1 DEF G!Monus
      <4>2. CASE ~(Budget > projection + Spent(k))
        BY <2>6, <4>2
      <4>3. QED  BY <4>1, <4>2
    <3>4. n + 2 - new.from = k + 1 /\ new.from \in n + 1 - (k + 1) .. n
          /\ new.from > n + 1 - (k + 1)
      BY <1>2, <2>2, <3>1, <3>2
    <3>5. QED  BY <3>1, <3>2, <3>3, <3>4 DEF KeptRows, n, new
  <2>9. CASE ~old.full /\ ~(m > old.budget)
    <3>1. new.from = n + 1 - (k + 1) /\ ~new.full /\ new.budget = G!Monus(old.budget, m)
      BY <2>2, <2>4, <2>5, <2>9 DEF NextKept, m, n
    <3>2. old.budget = G!Monus(Budget, projection + Spent(k))
      BY <2>3, <2>9 DEF KeptRows, n, old
    <3>3. Budget > projection + Spent(k) /\ m <= Budget - (projection + Spent(k))
      <4> HIDE DEF Spent
      <4>1. CASE ~(Budget > projection + Spent(k))
        <5>1. old.budget = 0  BY <3>2, <4>1 DEF G!Monus
        <5>2. QED  BY <2>6, <2>9, <5>1
      <4>2. CASE Budget > projection + Spent(k)
        BY <2>6, <2>9, <3>2, <4>2 DEF G!Monus
      <4>3. QED  BY <4>1, <4>2
    <3>4. Spent(k + 1) + projection <= Budget /\ new.budget = G!Monus(Budget, projection + Spent(k + 1))
      <4> HIDE DEF Spent
      <4>1. Spent(k + 1) + projection <= Budget
        BY <2>6, <3>3
      <4>2. old.budget = Budget - (projection + Spent(k))  BY <3>2, <3>3 DEF G!Monus
      <4>3. QED  BY <2>6, <3>1, <3>3, <4>1, <4>2 DEF G!Monus
    <3>5. n + 1 - new.from = k + 1 /\ new.from \in n + 1 - (k + 1) .. n
      BY <1>2, <2>2, <3>1
    <3>6. QED  BY <3>1, <3>4, <3>5 DEF KeptRows, n, new
  <2>10. QED  BY <2>7, <2>8, <2>9
<1>8. P = Nat
  <2> HIDE DEF P
  <2> QED  BY <1>6, <1>7, SetInduction DEF P
<1>9. ASSUME n > 0
      PROVE  /\ from \in 1 .. n
             /\ from < n => Spent(n + 1 - from) + projection <= Budget
             /\ \A first \in 1 .. from - 1 : ~(Spent(n + 1 - first) + projection <= Budget)
  <2>1. KeptRows(f[n], projection, rows, n)
    <3>1. n - 1 \in Nat /\ (n - 1) + 1 = n /\ (n - 1) + 1 <= n  BY <1>2, <1>9
    <3>2. QED  BY <1>8, <3>1
  <2>2. from \in 1 .. n /\ (from < n => Spent(n + 1 - from) + projection <= Budget)
        /\ (f[n].full => Spent(n + 2 - from) + projection > Budget)
        /\ (~f[n].full => from = 1)
    BY <1>1, <1>2, <2>1 DEF KeptRows
  <2>3. ASSUME NEW first \in 1 .. from - 1 PROVE ~(Spent(n + 1 - first) + projection <= Budget)
    <3>1. f[n].full  BY <2>2
    <3>2. n + 2 - from \in 0 .. n /\ n + 1 - first \in 0 .. n /\ n + 2 - from <= n + 1 - first
      BY <1>2, <2>2
    <3>3. Spent(n + 2 - from) <= Spent(n + 1 - first) /\ Spent(n + 2 - from) \in Nat /\ Spent(n + 1 - first) \in Nat
      BY <3>2, <1>5, BytesMonotone
    <3> HIDE DEF Spent
    <3>4. QED  BY <2>2, <3>1, <3>3
  <2>4. QED  BY <2>2, <2>3
<1>10. QED  BY <1>3, <1>9

\* A snapshot is of rows as long as they may be, and only it answers with rows.
LEMMA AnswerStep ==
  ASSUME G!CatalogAssumption, CatalogInv, [G!Next]_(G!vars)
  PROVE  /\ G!SnapshotsFitTheirBudget'
         /\ G!SessionSnapshot => G!TypeOK'
<1>1. CASE G!SessionSnapshot
  <2>1. PICK rows \in G!BoundedSeq(Sizes, MaxRows), projection \in Sizes :
          answer' = [rows |-> rows, projection |-> projection,
                     from |-> G!BoundedSnapshotMessages(projection, rows)]
    BY <1>1 DEF G!SessionSnapshot
  <2>2. Budget \in Nat /\ projection \in Nat /\ rows \in Seq(Sizes) /\ rows \in Seq(Nat \ {0})
    <3>1. Sizes \subseteq Nat \ {0} /\ Budget \in Nat  BY DEF G!CatalogAssumption
    <3>2. PICK m \in 0 .. MaxRows : rows \in [1 .. m -> Sizes]
      BY DEF G!BoundedSeq, G!SeqOf
    <3>3. m \in Nat  BY DEF G!CatalogAssumption
    <3>4. rows \in Seq(Sizes)  BY <3>2, <3>3, SeqDef
    <3>5. rows \in Seq(Nat \ {0})
      <4>1. rows \in [1 .. m -> Nat \ {0}]  BY <3>1, <3>2
      <4>2. QED  BY <3>3, <4>1, SeqDef
    <3>6. QED  BY <3>1, <3>4, <3>5
  <2> DEFINE from == G!BoundedSnapshotMessages(projection, rows)
             n == Len(rows)
             Fits(first) == G!Bytes(rows, n + 1 - first) + projection <= Budget
  <2>3. /\ from \in Nat
        /\ n > 0 => /\ from \in 1 .. n
                    /\ from < n => Fits(from)
                    /\ \A first \in 1 .. from - 1 : ~Fits(first)
    BY <2>2, SnapshotsFit
  <2>4. answer'.rows = rows /\ answer'.projection = projection /\ answer'.from = from
    BY <2>1
  <2> HIDE DEF from
  <2>5. G!SnapshotsFitTheirBudget'
    BY <2>3, <2>4 DEF G!SnapshotsFitTheirBudget, G!Bytes, G!Newest
  <2>6. answer' \in [rows : Seq(Sizes), projection : Sizes \cup {0}, from : Nat]
    BY <2>1, <2>2, <2>3 DEF from
  <2>7. G!TypeOK'
    BY <1>1, <2>6 DEF CatalogInv, G!SessionSnapshot, G!TypeOK, G!process, G!disk, G!commands
  <2>8. QED  BY <2>5, <2>7
<1>2. ASSUME answer' = G!NoAnswer PROVE G!SnapshotsFitTheirBudget'
  BY <1>2 DEF G!NoAnswer, G!SnapshotsFitTheirBudget
<1>3. ASSUME answer' = answer PROVE G!SnapshotsFitTheirBudget'
  BY <1>3 DEF G!SnapshotsFitTheirBudget, CatalogInv
<1>4. G!SessionSnapshot \/ answer' = G!NoAnswer \/ answer' = answer
  BY DEF G!Next, G!vars, G!Silent, G!LoadProviderConfiguration, G!RecreateStaleDatabase,
         G!DiscardStale, G!CreateSchema, G!StampSchema, G!AcceptConfigurationRevision,
         G!RecoverBeforeReady, G!Crash, G!JoinWorkspaceBinding, G!CreateSession, G!AcceptFirstTurn, G!CreationFails
<1>5. QED
  <2>1. G!SessionSnapshot => G!SnapshotsFitTheirBudget' /\ G!TypeOK'  BY <1>1
  <2>2. QED  BY <1>2, <1>3, <1>4, <2>1

LEMMA CatalogStep ==
  ASSUME G!CatalogAssumption, CatalogInv, [G!Next]_(G!vars)
  PROVE  CatalogInv'
<1>1. G!TypeOK'  BY CatalogTypeStep, AnswerStep DEF CatalogInv
<1>2. FileInv'  BY FileStep DEF CatalogInv
<1>3. ContentInv' /\ CallInv' /\ G!SnapshotsFitTheirBudget'
  BY ContentInvStep, CallsStep, AnswerStep
<1>4. QED  BY <1>1, <1>2, <1>3 DEF CatalogInv

\* What was answered is in the database, and the database is whole.
LEMMA CatalogKept == ASSUME G!CatalogAssumption, CatalogInv PROVE G!CatalogIsKept
<1>1. G!TypeOK /\ FileInv /\ ContentInv /\ CallInv /\ G!SnapshotsFitTheirBudget
  BY DEF CatalogInv
<1>2. G!ServedDatabaseIsWhole
  BY <1>1 DEF FileInv, G!ServedDatabaseIsWhole
<1>3. ASSUME NEW c \in Clients, call[c] \in {"created", "refused"}
      PROVE  /\ G!CarriesCurrentSchemaStamp
             /\ file.content.session[c] = rootOf[c]
             /\ file.content.bound[rootOf[c]] # Nobody
             /\ file.content.turn[c] \in file.content.revisions
  <2>1. file.stamp = "current" /\ file.content.session[c] = rootOf[c]
        /\ file.content.turn[c] # 0
    BY <1>1, <1>3 DEF CallInv
  <2>2. rootOf[c] # Nobody  BY <1>1 DEF G!TypeOK, G!CatalogAssumption
  <2>3. QED  BY <1>1, <2>1, <2>2 DEF FileInv, ContentInv, G!CarriesCurrentSchemaStamp
<1>4. G!AnsweredCreationsAreDurable
  BY <1>1, <1>3 DEF CallInv, G!AnsweredCreationsAreDurable
<1>5. QED  BY <1>1, <1>2, <1>4 DEF G!CatalogIsKept

-----------------------------------------------------------------------------
(* Every request fits the window, unless nothing is left to compress.      *)

\* ContextWindow; its phase is passing
input == x1
extra == x2
messages == x3
request == x4
marked == x5
tokens == x6
characters == x7
reasoning == x8
unanswered == x9
attempt == x10
passing == x11
next == x12
USE DEF input, extra, messages, request, marked, tokens, characters, reasoning,
        unanswered, attempt, passing, next

\* What the messages of an attempt are.
Sized == [role : {"system", "user", "assistant", "tool"}, size : Nat]

\* What the next request of this context is sure of: within the window by the
\* provider's own measure once it counted, and marked at two places of its own.
ContextFits ==
  /\ \/ tokens = Fit!NotReported
     \/ Fit!Characters(messages, reasoning) + Overhead <= Tokens
     \/ Fit!Compressible = {}
  /\ Fit!Cardinality(marked) <= 2
  /\ marked \subseteq {Len(messages)} \cup Fit!SystemBlock

\* The calibration is of one request, and a pass leaves a context that fits.
WindowInv ==
  /\ Fit!TypeOK
  /\ input \in Seq(Sized) /\ extra \in Seq(Sized) /\ messages \in Seq(Sized)
  /\ input # <<>> /\ messages # <<>>
  /\ tokens \in {Fit!NotReported, <<characters + Overhead>>}
  /\ next \in {"send", "batch"}
  /\ passing \in {"send", "stream"} => ContextFits
  /\ passing = "stream" => request = Fit!Characters(messages, reasoning)

LEMMA CharactersTyped ==
  ASSUME NEW list \in Seq(Sized), NEW thought \in Nat
  PROVE  Fit!Characters(list, thought) \in Nat
<1> DEFINE q == [i \in DOMAIN list |-> list[i].size]
<1>1. q \in Seq(Nat)
  <2>1. DOMAIN list = 1 .. Len(list) /\ Len(list) \in Nat  OBVIOUS
  <2>2. ASSUME NEW i \in 1 .. Len(list) PROVE list[i].size \in Nat
    <3>1. list[i] \in Sized  BY <2>1
    <3>2. QED  BY <3>1 DEF Sized
  <2>3. q \in [1 .. Len(list) -> Nat]  BY <2>1, <2>2
  <2>4. QED  BY <2>1, <2>3, SeqDef
<1>2. Fit!Characters(list, thought) = Total(q, thought)
  BY DEF Fit!Characters, Fit!Total, Total
<1>3. QED  BY <1>1, <1>2, TotalTyped

LEMMA WindowInit == ASSUME Fit!ContextWindowAssumption, Fit!Init PROVE WindowInv
<1>1. input \in Seq(Sized) /\ input # <<>>
  <2>1. {Fit!Message("system", 1), Fit!Message("user", 1), Fit!Message("user", 2)} \subseteq Sized
    BY DEF Fit!Message, Sized
  <2>2. CASE input = <<Fit!Message("system", 1), Fit!Message("user", 1)>>
    BY <2>1, <2>2
  <2>3. CASE input = <<Fit!Message("user", 2)>>
    BY <2>1, <2>3
  <2>4. QED  BY <2>2, <2>3 DEF Fit!Init
<1>2. messages = input /\ extra \in Seq(Sized)  BY DEF Fit!Init
<1>3. Fit!TypeOK
  BY <1>2 DEF Fit!Init, Fit!ContextWindowAssumption, Fit!TypeOK, Fit!NotReported
<1>4. QED  BY <1>1, <1>2, <1>3 DEF Fit!Init, WindowInv

\* A pass compresses a result of the context, and keeps what the messages are.
LEMMA CompressStep ==
  ASSUME Fit!ContextWindowAssumption, WindowInv, Fit!Compress
  PROVE  WindowInv'
<1> DEFINE k == Fit!Largest
<1>1. messages' \in Seq(Sized) /\ Len(messages') = Len(messages) /\ messages' # <<>>
  <2>1. messages \in Seq(Sized) /\ messages # <<>>  BY DEF WindowInv
  <2>2. messages' = [messages EXCEPT ![k].size = Compressed]  BY DEF Fit!Compress
  <2> HIDE DEF k
  <2>3. Compressed \in Nat  BY DEF Fit!ContextWindowAssumption
  <2>4. DOMAIN messages' = 1 .. Len(messages) /\ Len(messages) \in Nat  BY <2>1, <2>2
  <2>5. ASSUME NEW i \in 1 .. Len(messages) PROVE messages'[i] \in Sized
    <3>1. messages[i] \in Sized  BY <2>1
    <3>2. messages'[i] = IF i = k THEN [messages[i] EXCEPT !.size = Compressed] ELSE messages[i]
      BY <2>1, <2>2
    <3>3. QED  BY <2>3, <3>1, <3>2 DEF Sized
  <2>6. messages' \in [1 .. Len(messages) -> Sized]  BY <2>2, <2>4, <2>5, Zenon
  <2>7. messages' \in Seq(Sized) /\ Len(messages') = Len(messages)  BY <2>4, <2>6, SeqDef
  <2>8. QED  BY <2>1, <2>7
<1>2. DOMAIN messages' = DOMAIN messages  BY <1>1 DEF WindowInv
<1>3. passing = "pass" /\ UNCHANGED <<input, extra, reasoning, marked, tokens, characters,
                                   request, unanswered, attempt, passing, next>>
  BY DEF Fit!Compress, Fit!calibration
<1>4. QED  BY ONLY WindowInv, <1>1, <1>2, <1>3 DEF WindowInv, Fit!TypeOK, Fit!NotReported

\* A message joins the context at its end.
LEMMA Joined ==
  ASSUME NEW q \in Seq(Sized), NEW m \in Sized
  PROVE  /\ Append(q, m) \in Seq(Sized) /\ Append(q, m) # <<>>
         /\ DOMAIN q \subseteq DOMAIN Append(q, m)
OBVIOUS

\* A set of two has no more than two elements.
LEMMA Pairs == ASSUME NEW a, NEW b PROVE Cardinality({a}) = 1 /\ Cardinality({a, b}) <= 2
<1>1. IsFiniteSet({a}) /\ Cardinality({a}) = 1  BY FS_Singleton, Zenon
<1>2. {a, b} = {a} \cup {b}  OBVIOUS
<1>3. QED  BY <1>1, <1>2, FS_AddElement

\* A pass that ends leaves a context that fits, and marks it.
LEMMA PassEndsStep ==
  ASSUME Fit!ContextWindowAssumption, WindowInv, Fit!PassEnds
  PROVE  WindowInv'
<1> DEFINE now == Fit!Characters(messages, reasoning)
           block == IF Fit!SystemBlock = {} THEN {} ELSE {Fit!Max(Fit!SystemBlock)}
<1>1. now \in Nat /\ {Tokens, Overhead} \subseteq Nat /\ characters \in Nat
  BY CharactersTyped DEF WindowInv, Fit!TypeOK, Fit!ContextWindowAssumption
<1>2. \/ tokens = Fit!NotReported
      \/ now + Overhead <= Tokens
      \/ Fit!Compressible = {}
  <2>1. SUFFICES ASSUME Fit!Estimate <= Tokens, tokens = <<characters + Overhead>>
                 PROVE  now + Overhead <= Tokens
    BY DEF Fit!PassEnds, WindowInv
  <2>2. tokens # Fit!NotReported /\ tokens[1] = characters + Overhead
    BY <2>1 DEF Fit!NotReported
  <2>3. Fit!Estimate = characters + Overhead + (IF now > characters THEN now - characters ELSE 0)
    BY <2>2 DEF Fit!Estimate
  <2> HIDE DEF now
  <2>4. QED  BY <1>1, <2>1, <2>3
<1>3. marked' = {Len(messages)} \cup block  BY DEF Fit!PassEnds, Fit!Mark
<1>4. block \subseteq Fit!SystemBlock
  <2>1. SUFFICES ASSUME Fit!SystemBlock # {} PROVE Fit!Max(Fit!SystemBlock) \in Fit!SystemBlock
    OBVIOUS
  <2>2. Len(messages) \in Nat /\ DOMAIN messages = 1 .. Len(messages)  BY DEF WindowInv
  <2>3. Fit!SystemBlock \subseteq 0 .. Len(messages)  BY <2>2 DEF Fit!SystemBlock
  <2>4. \E x \in Fit!SystemBlock : \A y \in Fit!SystemBlock : x >= y
    BY <2>1, <2>2, <2>3, GreatestElement, Zenon
  <2>5. QED  BY <2>4 DEF Fit!Max
<1>5. Fit!Cardinality(marked') <= 2
  <2> HIDE DEF block
  <2>1. block = {} \/ \E e : block = {e}  BY Zenon DEF block
  <2>2. marked' = {Len(messages)} \/ \E e : marked' = {Len(messages), e}  BY <1>3, <2>1, Zenon
  <2>3. Cardinality(marked') <= 2  BY <2>2, Pairs, Zenon
  <2>4. QED  BY <2>3 DEF Fit!Cardinality, Cardinality
<1>6. UNCHANGED <<messages, reasoning, tokens, input, extra, characters, request, unanswered, attempt, next>>
  BY DEF Fit!PassEnds, Fit!calibration
<1>7. Fit!SystemBlock' = Fit!SystemBlock /\ Fit!Compressible' = Fit!Compressible
  BY <1>6 DEF Fit!SystemBlock, Fit!Compressible
<1>8. Fit!Characters(messages, reasoning)' = now  BY <1>6 DEF Fit!Characters
<1>9. ContextFits'
  <2> HIDE DEF now, block
  <2>1. QED  BY <1>2, <1>3, <1>4, <1>5, <1>6, <1>7, <1>8 DEF ContextFits, now
<1>10. Fit!TypeOK'
  <2>1. Len(messages) \in DOMAIN messages /\ Fit!SystemBlock \subseteq DOMAIN messages
    BY DEF WindowInv, Fit!SystemBlock
  <2>2. passing' \in {"send", "batch"}  BY DEF Fit!PassEnds, WindowInv
  <2> HIDE DEF block
  <2>3. QED  BY <1>3, <1>4, <1>6, <2>1, <2>2 DEF WindowInv, Fit!TypeOK, Fit!NotReported
<1>11. passing' # "stream"  BY DEF Fit!PassEnds, WindowInv
<1>12. QED  BY ONLY WindowInv, <1>6, <1>9, <1>10, <1>11 DEF WindowInv, Fit!NotReported

LEMMA WindowStep ==
  ASSUME Fit!ContextWindowAssumption, WindowInv, [Fit!Next]_(Fit!vars)
  PROVE  WindowInv'
<1> USE DEF Fit!context, Fit!calibration
<1>1. CASE Fit!Send
  <2>1. request' = Fit!Characters(messages, reasoning) /\ request' \in Nat
    BY <1>1, CharactersTyped DEF Fit!Send, WindowInv, Fit!TypeOK
  <2>2. ContextFits' = ContextFits /\ Fit!Characters(messages, reasoning)' = request'
    BY <1>1, <2>1 DEF Fit!Send, ContextFits, Fit!Characters, Fit!SystemBlock, Fit!Compressible
  <2>3. ContextFits  BY <1>1 DEF Fit!Send, WindowInv
  <2>4. passing' = "stream" /\ UNCHANGED <<input, extra, messages, reasoning, marked, tokens,
                                         characters, unanswered, attempt, next>>
    BY <1>1 DEF Fit!Send
  <2>5. QED  BY ONLY WindowInv, <2>1, <2>2, <2>3, <2>4 DEF WindowInv, Fit!TypeOK, Fit!NotReported
<1>2. CASE Fit!ReportUsage
  <2>1. request + Overhead \in Nat /\ request \in Nat
    BY DEF WindowInv, Fit!TypeOK, Fit!ContextWindowAssumption
  <2>2. \/ tokens' = <<characters' + Overhead>> /\ characters' = request
        \/ tokens' = Fit!NotReported /\ characters' = 0
    BY <1>2 DEF Fit!ReportUsage
  <2>3. passing' = "used" /\ UNCHANGED <<input, extra, messages, reasoning, marked, request,
                                       unanswered, attempt, next>>
    BY <1>2 DEF Fit!ReportUsage
  <2>4. (tokens = Fit!NotReported \/ tokens[1] \in Nat)'  BY <2>1, <2>2
  <2>5. QED
    BY ONLY WindowInv, <2>1, <2>2, <2>3, <2>4 DEF WindowInv, Fit!TypeOK, Fit!NotReported
<1>3. CASE Fit!ReceiveCalls
  <2>1. PICK n \in {1, 2}, thought \in {0, 1} :
          /\ messages' = Append(messages, Fit!Message("assistant", n))
          /\ reasoning' = reasoning + thought /\ unanswered' = n
    BY <1>3 DEF Fit!ReceiveCalls
  <2>2. messages' \in Seq(Sized) /\ messages' # <<>> /\ DOMAIN messages \subseteq DOMAIN messages'
    BY <2>1, Joined DEF WindowInv, Sized, Fit!Message
  <2>3. passing' = "batch" /\ UNCHANGED <<input, extra, marked, tokens, characters, request,
                                        attempt, next>>
    BY <1>3 DEF Fit!ReceiveCalls
  <2>4. reasoning' \in Nat /\ unanswered' \in 0 .. 2  BY <2>1 DEF WindowInv, Fit!TypeOK
  <2>5. QED  BY ONLY WindowInv, <2>2, <2>3, <2>4 DEF WindowInv, Fit!TypeOK, Fit!NotReported
<1>4. CASE Fit!AppendResult
  <2>1. PICK size \in Fit!Sizes : messages' = Append(messages, Fit!Message("tool", size))
    BY <1>4 DEF Fit!AppendResult
  <2>2. Fit!Message("tool", size) \in Sized
    BY DEF Fit!Message, Fit!Sizes, Sized, Fit!ContextWindowAssumption
  <2>3. messages' \in Seq(Sized) /\ messages' # <<>> /\ DOMAIN messages \subseteq DOMAIN messages'
    BY <2>1, <2>2, Joined DEF WindowInv
  <2>4. passing' = "pass" /\ next' = "batch" /\ unanswered' \in 0 .. 2
        /\ UNCHANGED <<input, extra, reasoning, marked, tokens, characters, request, attempt>>
    BY <1>4 DEF Fit!AppendResult, Fit!Pass, WindowInv, Fit!TypeOK
  <2>5. QED  BY ONLY WindowInv, <2>3, <2>4 DEF WindowInv, Fit!TypeOK, Fit!NotReported
<1>5. CASE Fit!ContinueJoined
  <2>1. PICK n \in {1, 2} : /\ messages' = Append(messages, Fit!Message("user", n))
                            /\ extra' = Append(extra, Fit!Message("user", n))
    BY <1>5 DEF Fit!ContinueJoined, Fit!Join
  <2>2. Fit!Message("user", n) \in Sized  BY DEF Fit!Message, Sized
  <2>3. /\ messages' \in Seq(Sized) /\ messages' # <<>> /\ extra' \in Seq(Sized)
        /\ DOMAIN messages \subseteq DOMAIN messages'
    BY <2>1, <2>2, Joined DEF WindowInv
  <2>4. passing' = "pass" /\ next' = "send"
        /\ UNCHANGED <<input, reasoning, marked, tokens, characters, request, unanswered, attempt>>
    BY <1>5 DEF Fit!ContinueJoined, Fit!Join, Fit!Pass
  <2>5. QED  BY ONLY WindowInv, <2>3, <2>4 DEF WindowInv, Fit!TypeOK, Fit!NotReported
<1>6. CASE Fit!ContinueBatch
  <2>1. passing' = "pass" /\ next' = "send"
        /\ UNCHANGED <<input, extra, messages, reasoning, marked, tokens, characters, request,
                       unanswered, attempt>>
    BY <1>6 DEF Fit!ContinueBatch, Fit!Pass
  <2>2. QED  BY ONLY WindowInv, <2>1 DEF WindowInv, Fit!TypeOK, Fit!NotReported
<1>7. CASE Fit!Retry
  <2>1. PICK notice \in {<<>>, <<Fit!Message("user", 1)>>} :
          extra' = extra \o notice /\ messages' = input \o extra'
    BY <1>7 DEF Fit!Retry
  <2>2. notice \in Seq(Sized)
    <3>1. Fit!Message("user", 1) \in Sized  BY DEF Fit!Message, Sized
    <3>2. <<>> \in Seq(Sized) /\ <<Fit!Message("user", 1)>> \in Seq(Sized)  BY <3>1
    <3>3. QED  BY <3>2
  <2>3. extra' \in Seq(Sized) /\ messages' \in Seq(Sized) /\ Len(messages') = Len(input) + Len(extra')
    BY <2>1, <2>2, ConcatProperties DEF WindowInv
  <2>4. messages' # <<>>  BY <2>3 DEF WindowInv
  <2>5. /\ passing' = "pass" /\ next' = "send" /\ reasoning' = 0 /\ marked' = {}
        /\ tokens' = Fit!NotReported /\ characters' = 0 /\ attempt' \in 1 .. Attempts
        /\ UNCHANGED <<input, request, unanswered>>
    BY <1>7 DEF Fit!Retry, Fit!Pass, WindowInv, Fit!TypeOK, Fit!ContextWindowAssumption
  <2>6. QED  BY ONLY WindowInv, <2>3, <2>4, <2>5 DEF WindowInv, Fit!TypeOK, Fit!NotReported
<1>8. CASE Fit!RunEnds
  <2>1. passing' = "ended" /\ UNCHANGED <<input, extra, messages, reasoning, marked, tokens,
                                        characters, request, unanswered, attempt, next>>
    BY <1>8 DEF Fit!RunEnds
  <2>2. QED  BY ONLY WindowInv, <2>1 DEF WindowInv, Fit!TypeOK, Fit!NotReported
<1>9. CASE UNCHANGED Fit!vars
  <2>1. UNCHANGED <<input, extra, messages, reasoning, marked, tokens, characters, request,
                   unanswered, attempt, next, passing>>
    BY <1>9 DEF Fit!vars
  <2>2. QED
    BY ONLY WindowInv, <2>1 DEF WindowInv, Fit!TypeOK, Fit!NotReported, ContextFits,
      Fit!Characters, Fit!SystemBlock, Fit!Compressible
<1>10. QED
  BY <1>1, <1>2, <1>3, <1>4, <1>5, <1>6, <1>7, <1>8, <1>9, CompressStep, PassEndsStep
  DEF Fit!Next

LEMMA RequestsFit == ASSUME WindowInv PROVE Fit!RequestsAreWindowed
BY DEF WindowInv, ContextFits, Fit!RequestsAreWindowed

-----------------------------------------------------------------------------
(***************************************************************************)
(* replay: the first request of a run.  Every row of the session is well   *)
(* formed: a result follows its call directly.  So a call replays exactly  *)
(* when the next row is its result, and the kept rows, which rise, have    *)
(* the two as neighbours.                                                  *)
(***************************************************************************)

\* Numbers that grow along a sequence.
Rising(s) == \A i, j \in DOMAIN s : i < j => s[i] < s[j]

\* What is kept of them grows too.
LEMMA WithinRises ==
  ASSUME NEW s \in Seq(Nat), NEW T, Rising(s)
  PROVE  Rising(Within(s, T))
<1> DEFINE P == {n \in Nat : \A v \in Seq(Nat) : Len(v) = n /\ Rising(v) => Rising(Within(v, T))}
<1>1. 0 \in P
  <2>1. \A v \in Seq(Nat) : Len(v) = 0 => v = <<>>  OBVIOUS
  <2>2. Within(<<>>, T) = <<>>  BY WithinGrows
  <2>3. Rising(<<>>)  BY DEF Rising
  <2>4. QED BY <2>1, <2>2, <2>3
<1>2. ASSUME NEW n \in P PROVE n + 1 \in P
  <2>1. SUFFICES ASSUME NEW v \in Seq(Nat), Len(v) = n + 1, Rising(v)
                 PROVE  Rising(Within(v, T))
    OBVIOUS
  <2>2. PICK u \in Seq(Nat), e \in Nat : v = Append(u, e) /\ Len(u) = n  BY <2>1, Split
  <2>3. /\ DOMAIN u = 1 .. n /\ DOMAIN v = 1 .. n + 1 /\ v[n + 1] = e /\ n \in Nat
        /\ \A i \in 1 .. n : v[i] = u[i] /\ i \in 1 .. n + 1 /\ i < n + 1
        /\ n + 1 \in 1 .. n + 1
    BY <2>2
  <2>4. Rising(u) /\ \A i \in DOMAIN u : u[i] < e
    <3>1. \A i, j \in 1 .. n + 1 : i < j => v[i] < v[j]  BY <2>1, <2>3 DEF Rising
    <3>2. \A i, j \in 1 .. n : i < j => u[i] < u[j]  BY <2>3, <3>1
    <3>3. \A i \in 1 .. n : u[i] < e  BY <2>3, <3>1
    <3>4. QED BY <2>3, <3>2, <3>3 DEF Rising
  <2> DEFINE w == Within(u, T)
  <2>5. Rising(w)  BY <2>2, <2>4
  <2>6. w \in Seq(Nat) /\ Range(w) = Range(u) \cap T  BY WithinRange
  <2> HIDE DEF w
  <2>7. \A i \in DOMAIN w : w[i] < e
    <3>1. ASSUME NEW i \in DOMAIN w PROVE w[i] < e
      <4>1. w[i] \in Range(u)  BY <2>6 DEF Range
      <4>2. PICK j \in DOMAIN u : u[j] = w[i]  BY <4>1 DEF Range
      <4>3. QED BY <2>4, <4>2
    <3>2. QED BY <3>1
  <2>8. Rising(Append(w, e))
    <3>1. /\ DOMAIN Append(w, e) = 1 .. Len(w) + 1 /\ DOMAIN w = 1 .. Len(w) /\ Len(w) \in Nat
          /\ Append(w, e)[Len(w) + 1] = e
          /\ \A i \in 1 .. Len(w) : Append(w, e)[i] = w[i]
      BY <2>6
    <3>2. SUFFICES ASSUME NEW i \in 1 .. Len(w) + 1, NEW j \in 1 .. Len(w) + 1, i < j
                   PROVE  Append(w, e)[i] < Append(w, e)[j]
      BY <3>1 DEF Rising
    <3>3. i \in 1 .. Len(w) /\ (j \in 1 .. Len(w) \/ j = Len(w) + 1)
      <4>1. ASSUME NEW m \in Nat, NEW a \in 1 .. m + 1, NEW b \in 1 .. m + 1, a < b
            PROVE  a \in 1 .. m /\ (b \in 1 .. m \/ b = m + 1)
        BY <4>1
      <4>2. QED BY <3>1, <3>2, <4>1
    <3>4. CASE j \in 1 .. Len(w)
      <4>1. w[i] < w[j]  BY <2>5, <3>1, <3>2, <3>3, <3>4 DEF Rising
      <4>2. QED BY <3>1, <3>3, <3>4, <4>1
    <3>5. CASE j = Len(w) + 1  BY <2>7, <3>1, <3>3, <3>5
    <3>6. QED BY <3>3, <3>4, <3>5
  <2>9. Within(v, T) = IF e \in T THEN Append(w, e) ELSE w  BY <2>2, WithinGrows DEF w
  <2>10. QED BY <2>5, <2>8, <2>9
<1>3. P = Nat
  <2> HIDE DEF P
  <2> QED BY <1>1, <1>2, SetInduction DEF P
<1>4. Len(s) \in Nat  OBVIOUS
<1>5. QED BY <1>3, <1>4

Images(s, g) == [i \in DOMAIN s |-> g[s[i]]]
SamePlaces(s, g, T, R) == \A i \in DOMAIN s : s[i] \in T <=> g[s[i]] \in R

\* Two sequences that keep the same places, the elements of the one images of
\* those of the other, keep images.
LEMMA WithinImages ==
  ASSUME NEW S, NEW s \in Seq(S), NEW g, NEW T, NEW R, SamePlaces(s, g, T, R)
  PROVE  Images(Within(s, T), g) = Within(Images(s, g), R)
<1> DEFINE U == {g[x] : x \in S}
           Image(v) == Images(v, g)
           Agree(v) == SamePlaces(v, g, T, R)
           P == {n \in Nat : \A v \in Seq(S) :
                  Len(v) = n /\ Agree(v) => Image(Within(v, T)) = Within(Image(v), R)}
<1>1. 0 \in P
  <2>1. \A v \in Seq(S) : Len(v) = 0 => v = <<>>  OBVIOUS
  <2>2. Within(<<>>, T) = <<>> /\ Within(<<>>, R) = <<>>  BY WithinGrows
  <2>3. Image(<<>>) = <<>>  BY DEF Images
  <2> HIDE DEF Image, Agree
  <2>4. QED BY <2>1, <2>2, <2>3
<1>2. ASSUME NEW v \in Seq(S), NEW e \in S
      PROVE  Image(Append(v, e)) = Append(Image(v), g[e]) /\ Image(v) \in Seq(U)
  <2>1. /\ Image(v) \in Seq(U) /\ Len(Image(v)) = Len(v) /\ Len(v) \in Nat /\ g[e] \in U
        /\ \A i \in 1 .. Len(v) : Image(v)[i] = g[v[i]]
    BY DEF Images
  <2>2. /\ Append(v, e) \in Seq(S) /\ DOMAIN Append(v, e) = 1 .. Len(v) + 1
        /\ Append(v, e)[Len(v) + 1] = e
        /\ \A i \in 1 .. Len(v) : Append(v, e)[i] = v[i] /\ i \in 1 .. Len(v) + 1
        /\ Len(v) + 1 \in 1 .. Len(v) + 1
    BY <2>1
  <2>3. /\ Image(Append(v, e)) \in Seq(U) /\ Len(Image(Append(v, e))) = Len(v) + 1
        /\ \A i \in 1 .. Len(v) : Image(Append(v, e))[i] = Image(v)[i]
        /\ Image(Append(v, e))[Len(v) + 1] = g[e]
    BY <2>1, <2>2 DEF Images
  <2> HIDE DEF Image, U
  <2>4. Image(Append(v, e)) = Append(Image(v), g[e])  BY <2>1, <2>3, IsAppend
  <2>5. QED BY <2>1, <2>4
<1>3. ASSUME NEW n \in Nat, NEW v \in Seq(S), Len(v) = n + 1
      PROVE  \E u \in Seq(S) : \E e \in S : v = Append(u, e) /\ Len(u) = n
  BY <1>3, Split
<1>4. ASSUME NEW n \in P PROVE n + 1 \in P
  <2>1. SUFFICES ASSUME NEW v \in Seq(S), Len(v) = n + 1, Agree(v)
                 PROVE  Image(Within(v, T)) = Within(Image(v), R)
    OBVIOUS
  <2>2. PICK u \in Seq(S), e \in S : v = Append(u, e) /\ Len(u) = n   BY <1>3, <2>1
  <2>3. /\ DOMAIN u = 1 .. n /\ DOMAIN v = 1 .. n + 1 /\ v[n + 1] = e /\ n \in Nat
        /\ \A i \in 1 .. n : v[i] = u[i] /\ i \in 1 .. n + 1
        /\ n + 1 \in 1 .. n + 1
    BY <2>2
  <2>4. Agree(u) /\ (e \in T <=> g[e] \in R)  BY <2>1, <2>3 DEF SamePlaces
  <2>5. Image(Within(u, T)) = Within(Image(u), R)  BY <2>2, <2>4
  <2>6. Within(u, T) \in Seq(S)  BY WithinType
  <2>7. Image(Append(Within(u, T), e)) = Append(Image(Within(u, T)), g[e])  BY <1>2, <2>6
  <2>8. Image(v) = Append(Image(u), g[e]) /\ Image(u) \in Seq(U) /\ g[e] \in U
    BY <1>2, <2>2
  <2> HIDE DEF Image, Agree, U
  <2>9. Within(v, T) = IF e \in T THEN Append(Within(u, T), e) ELSE Within(u, T)
    BY <2>2, WithinGrows
  <2>10. Within(Append(Image(u), g[e]), R) =
           IF g[e] \in R THEN Append(Within(Image(u), R), g[e]) ELSE Within(Image(u), R)
    <3>1. Image(u) \in Seq(U) /\ g[e] \in U  BY <2>8
    <3>2. \A x \in U : Within(Append(Image(u), x), R) =
             IF x \in R THEN Append(Within(Image(u), R), x) ELSE Within(Image(u), R)
      BY ONLY <3>1, WithinGrows
    <3>3. QED BY ONLY <3>1, <3>2
  <2>11. QED BY <2>4, <2>5, <2>7, <2>8, <2>9, <2>10
<1>5. P = Nat
  <2> HIDE DEF P
  <2> QED BY <1>1, <1>4, SetInduction DEF P
<1>6. Len(s) \in Nat /\ Agree(s)  OBVIOUS
<1>7. Image(Within(s, T)) = Within(Image(s), R)
  <2> HIDE DEF Image, Agree
  <2> QED BY <1>5, <1>6 DEF P
<1>8. QED BY <1>7

\* What is kept of what was kept is what is of both sets.
LEMMA WithinTwice ==
  ASSUME NEW S, NEW s \in Seq(S), NEW T, NEW U, U \subseteq T
  PROVE  Within(Within(s, T), U) = Within(s, U)
<1> DEFINE P == {n \in Nat : \A v \in Seq(S) :
                   Len(v) = n => Within(Within(v, T), U) = Within(v, U)}
<1>1. 0 \in P
  <2>1. \A v \in Seq(S) : Len(v) = 0 => v = <<>>  OBVIOUS
  <2>2. Within(<<>>, T) = <<>> /\ Within(<<>>, U) = <<>>  BY WithinGrows
  <2>3. QED BY <2>1, <2>2
<1>2. ASSUME NEW n \in P PROVE n + 1 \in P
  <2>1. SUFFICES ASSUME NEW v \in Seq(S), Len(v) = n + 1
                 PROVE  Within(Within(v, T), U) = Within(v, U)
    OBVIOUS
  <2>2. PICK u \in Seq(S), e \in S : v = Append(u, e) /\ Len(u) = n  BY <2>1, Split
  <2>3. Within(Within(u, T), U) = Within(u, U) /\ Within(u, T) \in Seq(S)  BY <2>2, WithinType
  <2>4. Within(v, T) = IF e \in T THEN Append(Within(u, T), e) ELSE Within(u, T)
    BY <2>2, WithinGrows
  <2>5. Within(v, U) = IF e \in U THEN Append(Within(u, U), e) ELSE Within(u, U)
    BY <2>2, WithinGrows
  <2>6. Within(Append(Within(u, T), e), U) =
          IF e \in U THEN Append(Within(Within(u, T), U), e) ELSE Within(Within(u, T), U)
    BY <2>2, <2>3, WithinGrows
  <2>7. QED BY <2>3, <2>4, <2>5, <2>6
<1>3. P = Nat
  <2> HIDE DEF P
  <2> QED BY <1>1, <1>2, SetInduction DEF P
<1>4. Len(s) \in Nat  OBVIOUS
<1>5. QED BY <1>3, <1>4

\* In numbers that rise, those that follow each other are neighbours.
LEMMA Neighbours ==
  ASSUME NEW s \in Seq(Nat), Rising(s), NEW k \in DOMAIN s, s[k] + 1 \in Range(s)
  PROVE  k + 1 \in DOMAIN s /\ s[k + 1] = s[k] + 1
<1>1. PICK j \in DOMAIN s : s[j] = s[k] + 1  BY DEF Range
<1>2. DOMAIN s = 1 .. Len(s) /\ Len(s) \in Nat /\ \A i \in DOMAIN s : s[i] \in Nat  OBVIOUS
<1>3. k < j
  <2>1. SUFFICES ASSUME j <= k PROVE FALSE  BY <1>2
  <2>2. j = k \/ j < k  BY <1>2, <2>1
  <2>3. s[j] <= s[k]  BY <1>2, <2>2 DEF Rising
  <2>4. QED BY <1>1, <1>2, <2>3
<1>4. k + 1 \in DOMAIN s /\ k < k + 1 /\ (k + 1 = j \/ k + 1 < j)  BY <1>2, <1>3
<1>5. s[k] < s[k + 1] /\ (k + 1 = j \/ s[k + 1] < s[j])  BY <1>4 DEF Rising
<1>6. k + 1 = j  BY <1>1, <1>2, <1>4, <1>5
<1>7. QED BY <1>1, <1>4, <1>6

RowKinds == {"user", "answer", "notice", "thought", "call", "result"}
Entries == [kind : RowKinds, call : Nat]

\* A call names itself; a result follows its call directly.
WellFormed(list) ==
  /\ list \in Seq(Entries)
  /\ \A i \in DOMAIN list :
       /\ list[i].kind = "call" => list[i].call = i
       /\ list[i].kind = "result" =>
            i > 1 /\ list[i - 1].kind = "call" /\ list[i].call = i - 1

\* A call replays if the next row is its result, and in no other case.
LEMMA CallsReplay ==
  ASSUME NEW list, WellFormed(list), NEW i \in DOMAIN list, list[i].kind = "call"
  PROVE  Replay!Replays(list, i) <=> (i + 1 \in DOMAIN list /\ list[i + 1].kind = "result")
<1>1. list[i].call = i /\ i \in Nat /\ DOMAIN list = 1 .. Len(list) /\ Len(list) \in Nat
  BY DEF WellFormed
<1>2. \A j \in DOMAIN list : list[j].kind = "result" => list[j].call = j - 1 /\ j \in Nat
  BY <1>1 DEF WellFormed
<1>3. Replay!ResultsOf(list, i) = {j \in DOMAIN list : list[j].kind = "result" /\ j = i + 1}
  BY <1>1, <1>2 DEF Replay!ResultsOf
<1>4. \A j \in Replay!ResultsOf(list, i) : j = i + 1 /\ j > i  BY <1>1, <1>3
<1>5. Replay!Replays(list, i) <=> Replay!ResultsOf(list, i) # {}
  BY <1>1, <1>4 DEF Replay!Replays
<1>6. QED BY <1>3, <1>5

\* A result answers the call before it, which replays.
LEMMA ResultsAnswer ==
  ASSUME NEW list, WellFormed(list), NEW i \in DOMAIN list, list[i].kind = "result"
  PROVE  /\ i - 1 \in DOMAIN list /\ list[i - 1].kind = "call" /\ Replay!Replays(list, i - 1)
         /\ Replay!Answers(list, i)
<1>1. /\ i > 1 /\ list[i - 1].kind = "call" /\ list[i].call = i - 1
      /\ DOMAIN list = 1 .. Len(list) /\ Len(list) \in Nat
  BY DEF WellFormed
<1>2. /\ i \in Nat /\ i - 1 \in 1 .. Len(list) /\ i - 1 \in 1 .. i - 1
      /\ (i - 1) + 1 = i /\ (i - 1) + 1 .. i - 1 = {}
  BY <1>1
<1>3. list[i - 1].call = i - 1  BY <1>1, <1>2 DEF WellFormed
<1>4. Replay!Replays(list, i - 1)  BY <1>1, <1>2, CallsReplay
<1>5. Replay!Answers(list, i)  BY <1>1, <1>2, <1>3, <1>4 DEF Replay!Answers
<1>6. QED BY <1>1, <1>2, <1>4, <1>5

Rows(list) == [k \in DOMAIN list |-> list[k].row]
Places(list, kinds) == {i \in DOMAIN list : list[i].kind \in kinds}
Numbers(list) == [i \in DOMAIN list |-> i]
Kept(list) == Within(Numbers(list), Replay!Replayed(list))
MessageOf(list) == [i \in DOMAIN list |-> [role |-> Replay!Role(list[i].kind), row |-> i]]

LEMMA ReplayWithin == ASSUME NEW s, NEW T PROVE Replay!Within(s, T) = Within(s, T)
BY DEF Replay!Within, Within

\* The rows that are kept rise, and they are the replayed ones.
LEMMA KeptRise ==
  ASSUME NEW list, WellFormed(list)
  PROVE  /\ Kept(list) \in Seq(DOMAIN list) /\ Kept(list) \in Seq(Nat)
         /\ Rising(Kept(list)) /\ Range(Kept(list)) = Replay!Replayed(list)
         /\ Replay!Replayed(list) \subseteq DOMAIN list /\ Numbers(list) \in Seq(Nat)
         /\ DOMAIN list = 1 .. Len(list) /\ Len(list) \in Nat
<1> DEFINE n == Len(list)
           ids == Numbers(list)
           K == Replay!Replayed(list)
<1>1. DOMAIN list = 1 .. n /\ n \in Nat  BY DEF WellFormed
<1>2. ids \in Seq(Nat) /\ ids \in Seq(DOMAIN list) /\ DOMAIN ids = 1 .. n
      /\ \A i \in 1 .. n : ids[i] = i
  BY <1>1 DEF Numbers
<1> HIDE DEF n, ids
<1>3. Rising(ids)  BY <1>1, <1>2 DEF Rising
<1>4. Range(ids) = DOMAIN list  BY <1>1, <1>2 DEF Range
<1>5. K \subseteq DOMAIN list  BY DEF Replay!Replayed
<1> HIDE DEF K
<1>6. /\ Within(ids, K) \in Seq(DOMAIN list) /\ Within(ids, K) \in Seq(Nat)
  BY <1>2, WithinType
<1>7. Range(Within(ids, K)) = Range(ids) \cap K  BY <1>2, WithinRange
<1>8. Rising(Within(ids, K))  BY <1>2, <1>3, WithinRises
<1>9. QED BY <1>1, <1>2, <1>4, <1>5, <1>6, <1>7, <1>8 DEF Kept, ids, K, n

\* The messages are those of the kept rows.
LEMMA MessagesOfKept ==
  ASSUME NEW list, WellFormed(list)
  PROVE  LET m == Replay!ModelContextMessages(list)
         IN  /\ m = [k \in DOMAIN Kept(list) |-> MessageOf(list)[Kept(list)[k]]]
             /\ DOMAIN m = DOMAIN Kept(list)
             /\ \A k \in DOMAIN m :
                  /\ Kept(list)[k] \in Replay!Replayed(list) /\ Kept(list)[k] \in DOMAIN list
                  /\ m[k] = [role |-> Replay!Role(list[Kept(list)[k]].kind),
                             row |-> Kept(list)[k]]
<1>1. /\ Kept(list) \in Seq(DOMAIN list) /\ Range(Kept(list)) = Replay!Replayed(list)
  BY KeptRise
<1>2. Replay!ModelContextMessages(list) =
        [k \in DOMAIN Kept(list) |->
           [role |-> Replay!Role(list[Kept(list)[k]].kind), row |-> Kept(list)[k]]]
  BY ReplayWithin DEF Replay!ModelContextMessages, Kept, Numbers
<1> DEFINE q == Kept(list)
<1> HIDE DEF q
<1>3. \A k \in DOMAIN q : q[k] \in DOMAIN list /\ q[k] \in Range(q)  BY <1>1 DEF q, Range
<1>4. QED BY <1>1, <1>2, <1>3 DEF q, MessageOf

\* Those of some roles are the rows of the kinds that have them, if all of these
\* are replayed.
LEMMA RowsOfRoles ==
  ASSUME NEW list, WellFormed(list), NEW kinds, NEW roles,
         \A kind \in RowKinds : kind \in kinds <=> Replay!Role(kind) \in roles,
         Places(list, kinds) \subseteq Replay!Replayed(list)
  PROVE  Rows(Within(Replay!ModelContextMessages(list), [role : roles, row : Nat])) =
           Within(Numbers(list), Places(list, kinds))
<1> DEFINE q == Kept(list)
           g == MessageOf(list)
           T == Places(list, kinds)
           R == [role : roles, row : Nat]
           w == Within(q, T)
           m == Replay!ModelContextMessages(list)
<1>1. /\ q \in Seq(DOMAIN list) /\ Numbers(list) \in Seq(Nat) /\ DOMAIN list \subseteq Nat
  BY KeptRise
<1>2. \A i \in DOMAIN list : list[i].kind \in RowKinds
  <2>1. \A i \in DOMAIN list : list[i] \in Entries  BY DEF WellFormed
  <2>2. QED BY <2>1 DEF Entries
<1>3. \A i \in DOMAIN list : i \in T <=> g[i] \in R
  BY <1>1, <1>2 DEF Places, MessageOf
<1>4. m = Images(q, g)  BY MessagesOfKept DEF Images
<1>5. \A i \in DOMAIN list : g[i].row = i  BY DEF MessageOf
<1>6. T \subseteq Replay!Replayed(list)  OBVIOUS
<1>7. w = Within(Numbers(list), T)
  <2> HIDE DEF T
  <2> QED BY <1>1, <1>6, WithinTwice DEF Kept
<1> HIDE DEF q, g, T, R, m
<1>8. SamePlaces(q, g, T, R)
  <2>1. \A i \in DOMAIN q : q[i] \in DOMAIN list  BY <1>1
  <2>2. QED BY <1>3, <2>1 DEF SamePlaces
<1>9. Images(w, g) = Within(Images(q, g), R)  BY <1>1, <1>8, WithinImages DEF w
<1>10. w \in Seq(DOMAIN list)  BY <1>1, WithinType
<1> HIDE DEF w
<1>11. \A k \in DOMAIN w : w[k] \in DOMAIN list  BY <1>10
<1>12. Rows(Images(w, g)) = [k \in DOMAIN w |-> w[k]]  BY <1>5, <1>11 DEF Rows, Images
<1>13. [k \in DOMAIN w |-> w[k]] = w  BY <1>10
<1>14. QED BY <1>4, <1>7, <1>9, <1>12, <1>13 DEF m, R, T

\* What a request that opens with a user's row carries.
LEMMA FirstRequests ==
  ASSUME NEW list, WellFormed(list), NEW n \in DOMAIN list, n = Len(list),
         list[n].kind = "user"
  PROVE  LET m == Replay!ModelContextMessages(list)
         IN  /\ Rows(Within(m, [role : Replay!Spoken, row : Nat])) =
                  Within(Numbers(list), Places(list, Replay!Spoken))
             /\ Rows(Within(m, [role : {"tool"}, row : Nat])) =
                  Within(Numbers(list), Places(list, {"result"}))
             /\ m[Len(m)] = [role |-> "user", row |-> n]
             /\ \A k \in DOMAIN m :
                  /\ m[k].role = "calls" =>
                       k < Len(m) /\ m[k + 1] = [role |-> "tool", row |-> m[k].row + 1]
                  /\ m[k].role = "tool" => k > 1 /\ m[k - 1].role = "calls"
<1> DEFINE m == Replay!ModelContextMessages(list)
           q == Kept(list)
           K == Replay!Replayed(list)
           kind(i) == list[i].kind
<1>1. \A i \in DOMAIN list : kind(i) \in RowKinds
  <2>1. \A i \in DOMAIN list : list[i] \in Entries  BY DEF WellFormed
  <2>2. QED BY <2>1 DEF Entries
<1>2. /\ \A a \in RowKinds : a \in Replay!Spoken <=> Replay!Role(a) \in Replay!Spoken
      /\ \A a \in RowKinds : a \in {"result"} <=> Replay!Role(a) \in {"tool"}
      /\ \A a \in RowKinds : a = "call" <=> Replay!Role(a) = "calls"
      /\ Replay!Role("user") = "user" /\ Replay!Role("result") = "tool"
      /\ Replay!Role("call") = "calls"
  BY DEF RowKinds, Replay!Role, Replay!Spoken
<1>3. Places(list, Replay!Spoken) \subseteq K  BY DEF Places, Replay!Replayed
<1>4. Places(list, {"result"}) \subseteq K
  <2>1. \A i \in DOMAIN list : kind(i) = "result" => Replay!Answers(list, i)  BY ResultsAnswer
  <2>2. QED BY <2>1 DEF Places, Replay!Replayed
<1>5. /\ q \in Seq(Nat) /\ Rising(q) /\ Range(q) = K /\ K \subseteq DOMAIN list
      /\ DOMAIN list = 1 .. Len(list) /\ Len(list) \in Nat
  BY KeptRise
<1>6. /\ DOMAIN m = DOMAIN q
      /\ \A k \in DOMAIN m : /\ q[k] \in K /\ q[k] \in DOMAIN list
                             /\ m[k] = [role |-> Replay!Role(kind(q[k])), row |-> q[k]]
  BY MessagesOfKept
<1>7. m \in Seq({m[k] : k \in DOMAIN q}) /\ Len(m) = Len(q) /\ DOMAIN q = 1 .. Len(q)
      /\ Len(q) \in Nat
  <2>1. m = [k \in DOMAIN q |-> MessageOf(list)[q[k]]]  BY MessagesOfKept
  <2> HIDE DEF m, q
  <2>2. QED BY <1>5, <2>1
<1>8. Rows(Within(m, [role : Replay!Spoken, row : Nat])) =
        Within(Numbers(list), Places(list, Replay!Spoken))
  BY <1>2, <1>3, RowsOfRoles
<1>9. Rows(Within(m, [role : {"tool"}, row : Nat])) =
        Within(Numbers(list), Places(list, {"result"}))
  BY <1>2, <1>4, RowsOfRoles
<1>10. n \in K  BY DEF Replay!Replayed, Replay!Spoken
<1>11. \A i \in K : kind(i) = "call" => i + 1 \in K /\ kind(i + 1) = "result"
  <2>1. SUFFICES ASSUME NEW i \in K, kind(i) = "call"
                 PROVE  i + 1 \in K /\ kind(i + 1) = "result"
    OBVIOUS
  <2>2. i \in DOMAIN list /\ Replay!Replays(list, i)
    BY <2>1 DEF Replay!Replayed, Replay!Spoken
  <2>3. i + 1 \in DOMAIN list /\ kind(i + 1) = "result"  BY <2>1, <2>2, CallsReplay
  <2>4. QED BY <1>4, <2>3 DEF Places
<1>12. \A i \in K : kind(i) = "result" => i - 1 \in K /\ kind(i - 1) = "call"
  <2>1. SUFFICES ASSUME NEW i \in K, kind(i) = "result"
                 PROVE  i - 1 \in K /\ kind(i - 1) = "call"
    OBVIOUS
  <2>2. i \in DOMAIN list  BY <1>5, <2>1
  <2>3. i - 1 \in DOMAIN list /\ kind(i - 1) = "call" /\ Replay!Replays(list, i - 1)
    BY <2>1, <2>2, ResultsAnswer
  <2>4. QED BY <2>3 DEF Replay!Replayed
<1> HIDE DEF m, q, K, kind
<1>13. m[Len(m)] = [role |-> "user", row |-> n]
  <2>1. PICK k \in DOMAIN q : q[k] = n  BY <1>5, <1>10 DEF Range
  <2>2. k = Len(q)
    <3>1. SUFFICES ASSUME k < Len(q) PROVE FALSE  BY <1>7, <2>1
    <3>2. Len(q) \in DOMAIN q  BY <1>7, <2>1
    <3>3. q[k] < q[Len(q)]  BY <1>5, <2>1, <3>1, <3>2 DEF Rising
    <3>4. q[Len(q)] \in 1 .. n  BY <1>5, <1>6, <3>2
    <3>5. QED BY <1>5, <2>1, <3>3, <3>4
  <2>3. kind(n) = "user"  BY DEF kind
  <2>4. QED BY <1>2, <1>6, <1>7, <2>1, <2>2, <2>3
<1>14. ASSUME NEW k \in DOMAIN m, m[k].role = "calls"
       PROVE  k < Len(m) /\ m[k + 1] = [role |-> "tool", row |-> m[k].row + 1]
  <2>1. kind(q[k]) = "call" /\ m[k].row = q[k] /\ q[k] \in K /\ k \in DOMAIN q
    <3>1. m[k].role = Replay!Role(kind(q[k])) /\ kind(q[k]) \in RowKinds  BY <1>1, <1>6, <1>14
    <3>2. QED BY <1>2, <1>6, <1>14, <3>1
  <2>2. q[k] + 1 \in Range(q) /\ kind(q[k] + 1) = "result"  BY <1>5, <1>11, <2>1
  <2>3. k + 1 \in DOMAIN q /\ q[k + 1] = q[k] + 1  BY <1>5, <2>1, <2>2, Neighbours
  <2>4. m[k + 1] = [role |-> "tool", row |-> q[k] + 1]  BY <1>2, <1>6, <2>2, <2>3
  <2>5. k < Len(m)  BY <1>7, <2>1, <2>3
  <2>6. QED BY <2>1, <2>4, <2>5
<1>15. ASSUME NEW k \in DOMAIN m, m[k].role = "tool"
       PROVE  k > 1 /\ m[k - 1].role = "calls"
  <2>1. kind(q[k]) = "result" /\ q[k] \in K /\ k \in DOMAIN q
    <3>1. m[k].role = Replay!Role(kind(q[k])) /\ kind(q[k]) \in RowKinds  BY <1>1, <1>6, <1>15
    <3>2. QED BY <1>2, <1>6, <1>15, <3>1
  <2>2. q[k] - 1 \in K /\ kind(q[k] - 1) = "call"  BY <1>12, <2>1
  <2>3. PICK j \in DOMAIN q : q[j] = q[k] - 1  BY <1>5, <2>2 DEF Range
  <2>4. /\ q[j] + 1 = q[k] /\ q[j] + 1 \in Range(q) /\ k \in Nat /\ j \in Nat /\ q[k] \in Nat
        /\ j \in 1 .. Len(q)
    <3>1. q[k] \in Nat /\ q[j] \in Nat /\ k \in Nat /\ j \in Nat /\ j \in 1 .. Len(q)
      BY <1>5, <1>7, <2>1
    <3>2. q[j] + 1 = q[k]  BY <2>3, <3>1
    <3>3. QED BY <2>1, <3>1, <3>2 DEF Range
  <2>5. j + 1 \in DOMAIN q /\ q[j + 1] = q[k]  BY <1>5, <2>3, <2>4, Neighbours
  <2>6. j + 1 = k
    <3>1. j + 1 < k \/ j + 1 = k \/ k < j + 1  BY <2>4
    <3>2. ~(j + 1 < k) /\ ~(k < j + 1)  BY <1>5, <2>1, <2>4, <2>5 DEF Rising
    <3>3. QED BY <3>1, <3>2
  <2>7. m[j].role = "calls"  BY <1>2, <1>6, <2>2, <2>3
  <2>8. k - 1 = j /\ k > 1  BY <2>4, <2>6
  <2>9. QED BY <2>7, <2>8
<1>16. QED BY <1>8, <1>9, <1>13, <1>14, <1>15 DEF m

\* The rows are well formed, the run was opened by a user's row, and its request
\* is made of the rows up to that one.
ReplayInv ==
  /\ WellFormed(x2)
  /\ x1 \in {"none", "starting", "running"} /\ x3 \in 0 .. Len(x2)
  /\ (x3 = 0) = (x1 = "none")
  /\ x3 # 0 => x2[x3].kind = "user"
  /\ x4 # <<>> => x1 = "running" /\ x4 = Replay!ModelContextMessages(SubSeq(x2, 1, x3))

LEMMA ReplayInit == Replay!Init => ReplayInv
BY DEF Replay!Init, ReplayInv, WellFormed, Entries

\* Rows up to one are well formed.
LEMMA RowsUpTo ==
  ASSUME NEW list, WellFormed(list), NEW n \in DOMAIN list
  PROVE  LET before == SubSeq(list, 1, n)
         IN  WellFormed(before) /\ Len(before) = n /\ n \in DOMAIN before /\ before[n] = list[n]
<1> DEFINE before == SubSeq(list, 1, n)
<1>1. list \in Seq(Entries) /\ DOMAIN list = 1 .. Len(list) /\ Len(list) \in Nat
  BY DEF WellFormed
<1>2. /\ before \in Seq(Entries) /\ Len(before) = n /\ DOMAIN before = 1 .. n /\ n \in Nat
      /\ \A i \in 1 .. n : before[i] = list[i] /\ i \in DOMAIN list
  BY <1>1
<1> HIDE DEF before
<1>3. ASSUME NEW i \in DOMAIN before
      PROVE  /\ before[i].kind = "call" => before[i].call = i
             /\ before[i].kind = "result" =>
                  i > 1 /\ before[i - 1].kind = "call" /\ before[i].call = i - 1
  <2>1. i \in 1 .. n /\ before[i] = list[i] /\ i \in DOMAIN list  BY <1>2
  <2>2. /\ list[i].kind = "call" => list[i].call = i
        /\ list[i].kind = "result" =>
             i > 1 /\ list[i - 1].kind = "call" /\ list[i].call = i - 1
    BY <2>1 DEF WellFormed
  <2>3. i > 1 => i - 1 \in 1 .. n  BY <1>2, <2>1
  <2>4. i > 1 => before[i - 1] = list[i - 1]  BY <1>2, <2>3
  <2>5. QED BY <2>1, <2>2, <2>4
<1>4. WellFormed(before)  BY <1>2, <1>3 DEF WellFormed
<1>5. Len(before) = n /\ n \in DOMAIN before /\ before[n] = list[n]
  <2>1. n \in 1 .. n  BY <1>2
  <2>2. QED BY <1>2, <2>1
<1>6. QED BY <1>4, <1>5 DEF before

\* A row that is added after well-formed ones keeps them, and those up to the row
\* that opened the run are what they were.
LEMMA AddKeeps ==
  ASSUME NEW list, WellFormed(list), NEW row \in Entries,
         row.kind = "call" => row.call = Len(list) + 1,
         row.kind = "result" =>
           Len(list) > 0 /\ list[Len(list)].kind = "call" /\ row.call = Len(list)
  PROVE  /\ WellFormed(Append(list, row)) /\ Len(Append(list, row)) = Len(list) + 1
         /\ Len(list) \in Nat /\ Append(list, row)[Len(list) + 1] = row
         /\ \A n \in 1 .. Len(list) : /\ Append(list, row)[n] = list[n]
                                      /\ SubSeq(Append(list, row), 1, n) = SubSeq(list, 1, n)
<1> DEFINE n == Len(list)
           more == Append(list, row)
<1>1. /\ list \in Seq(Entries) /\ n \in Nat /\ DOMAIN list = 1 .. n
      /\ \A i \in 1 .. n : /\ list[i].kind = "call" => list[i].call = i
                           /\ list[i].kind = "result" =>
                                i > 1 /\ list[i - 1].kind = "call" /\ list[i].call = i - 1
  BY DEF WellFormed
<1>2. /\ more \in Seq(Entries) /\ Len(more) = n + 1 /\ DOMAIN more = 1 .. n + 1
      /\ more[n + 1] = row /\ \A i \in 1 .. n : more[i] = list[i]
  BY <1>1
<1>3. ASSUME NEW k \in 1 .. n PROVE SubSeq(more, 1, k) = SubSeq(list, 1, k)
  <2> HIDE DEF more
  <2>1. k \in Nat /\ k <= n /\ \A i \in 1 .. k : more[i] = list[i]  BY <1>1, <1>2, <1>3
  <2>2. QED BY <1>1, <1>2, <2>1
<1>4. ASSUME NEW i \in 1 .. n + 1
      PROVE  /\ more[i].kind = "call" => more[i].call = i
             /\ more[i].kind = "result" =>
                  i > 1 /\ more[i - 1].kind = "call" /\ more[i].call = i - 1
  <2>1. i = n + 1 \/ i \in 1 .. n  BY <1>1, <1>4
  <2>2. CASE i = n + 1
    <3>1. (n + 1) - 1 = n /\ (n > 0 => n + 1 > 1 /\ n \in 1 .. n)  BY <1>1
    <3> HIDE DEF n, more
    <3>2. n > 0 => more[n] = list[n]  BY <1>2, <3>1
    <3>3. row.kind = "call" => row.call = n + 1  BY DEF n
    <3>4. row.kind = "result" => n > 0 /\ list[n].kind = "call" /\ row.call = n  BY DEF n
    <3>5. QED BY <1>2, <2>2, <3>1, <3>2, <3>3, <3>4
  <2>3. CASE i \in 1 .. n
    <3>1. i > 1 => i - 1 \in 1 .. n  BY <1>1, <2>3
    <3> HIDE DEF n, more
    <3>2. more[i] = list[i] /\ (i > 1 => more[i - 1] = list[i - 1])  BY <1>2, <2>3, <3>1
    <3>3. QED BY <1>1, <2>3, <3>2
  <2>4. QED BY <2>1, <2>2, <2>3
<1> HIDE DEF n, more
<1>5. WellFormed(more)  BY <1>2, <1>4 DEF WellFormed
<1>6. QED BY <1>1, <1>2, <1>3, <1>5 DEF n, more

LEMMA ReplayStep == ReplayInv /\ Replay!Next => ReplayInv'
<1> SUFFICES ASSUME ReplayInv, Replay!Next PROVE ReplayInv'  OBVIOUS
<1>1. /\ WellFormed(x2) /\ Len(x2) \in Nat /\ x3 \in 0 .. Len(x2)
      /\ (x3 = 0) = (x1 = "none") /\ (x3 # 0 => x2[x3].kind = "user" /\ x3 \in 1 .. Len(x2))
  BY DEF ReplayInv, WellFormed
<1>2. CASE Replay!AcceptTurn
  <2> DEFINE row == [kind |-> "user", call |-> 0]
  <2>1. x2' = Append(x2, row) /\ x1' = "starting" /\ x3' = Len(x2) + 1 /\ x4' = x4 /\ x4 = <<>>
    BY <1>2 DEF Replay!AcceptTurn, Replay!Add, ReplayInv
  <2>2. /\ row \in Entries /\ row.kind = "user"  BY DEF Entries, RowKinds
  <2> HIDE DEF row
  <2>3. /\ WellFormed(x2') /\ Len(x2') = Len(x2) + 1 /\ x2'[Len(x2) + 1] = row
    BY <1>1, <2>1, <2>2, AddKeeps
  <2>4. QED BY <1>1, <2>1, <2>2, <2>3 DEF ReplayInv
<1>3. CASE Replay!Schedule
  <2>1. /\ x1 = "starting" /\ x1' = "running" /\ x2' = x2 /\ x3' = x3
        /\ x4' = Replay!ModelContextMessages(SubSeq(x2, 1, x3))
    BY <1>3 DEF Replay!Schedule, Replay!StartingContextMessages
  <2>2. x4' = Replay!ModelContextMessages(SubSeq(x2', 1, x3'))  BY <2>1
  <2>3. QED BY <1>1, <2>1, <2>2 DEF ReplayInv
<1>4. CASE Replay!Write
  <2>1. /\ x1 = "running" /\ x1' = x1 /\ x3' = x3 /\ x4' = x4
    BY <1>4 DEF Replay!Write
  <2>2. PICK row \in Entries :
          /\ x2' = Append(x2, row)
          /\ row.kind = "call" => row.call = Len(x2) + 1
          /\ row.kind = "result" =>
               Len(x2) > 0 /\ x2[Len(x2)].kind = "call" /\ row.call = Len(x2)
    <3>1. CASE Replay!Open
      <4> DEFINE row == [kind |-> "result", call |-> x2[Len(x2)].call]
      <4>1. x2' = Append(x2, row)  BY <1>4, <3>1 DEF Replay!Write, Replay!Add
      <4>2. x2 \in Seq(Entries) /\ x2 # <<>> /\ x2[Len(x2)].kind = "call"
        BY <1>1, <3>1 DEF Replay!Open, WellFormed
      <4>3. Len(x2) > 0 /\ Len(x2) \in DOMAIN x2  BY <4>2
      <4>4. x2[Len(x2)].call = Len(x2)  BY <1>1, <4>2, <4>3 DEF WellFormed
      <4>5. row \in Entries /\ row.kind = "result" /\ row.call = Len(x2)
        BY <1>1, <4>4 DEF Entries, RowKinds
      <4> HIDE DEF row
      <4>6. QED BY <4>1, <4>2, <4>3, <4>5
    <3>2. CASE ~Replay!Open
      <4>1. \/ \E kind \in {"user", "answer", "thought", "notice"} :
                 x2' = Append(x2, [kind |-> kind, call |-> 0])
            \/ x2' = Append(x2, [kind |-> "call", call |-> Len(x2) + 1])
        BY <1>4, <3>2 DEF Replay!Write, Replay!Add
      <4>2. [kind |-> "call", call |-> Len(x2) + 1] \in Entries  BY <1>1 DEF Entries, RowKinds
      <4>3. \A kind \in {"user", "answer", "thought", "notice"} :
              [kind |-> kind, call |-> 0] \in Entries
        BY DEF Entries, RowKinds
      <4>4. QED BY <4>1, <4>2, <4>3
    <3>3. QED BY <3>1, <3>2
  <2>3. /\ WellFormed(x2') /\ Len(x2') = Len(x2) + 1
        /\ \A n \in 1 .. Len(x2) : x2'[n] = x2[n] /\ SubSeq(x2', 1, n) = SubSeq(x2, 1, n)
    BY <1>1, <2>2, AddKeeps
  <2>4. x3 \in 1 .. Len(x2)  BY <1>1, <2>1
  <2>5. x4' # <<>> => x4' = Replay!ModelContextMessages(SubSeq(x2', 1, x3'))
    <3>1. SubSeq(x2', 1, x3') = SubSeq(x2, 1, x3)  BY <2>1, <2>3, <2>4
    <3>2. x4 # <<>> => x4 = Replay!ModelContextMessages(SubSeq(x2, 1, x3))  BY DEF ReplayInv
    <3>3. QED BY <2>1, <3>1, <3>2
  <2>6. QED BY <1>1, <2>1, <2>3, <2>4, <2>5 DEF ReplayInv
<1>5. CASE Replay!End
  <2>1. x1' = "none" /\ x3' = 0 /\ x4' = <<>> /\ x2' = x2  BY <1>5 DEF Replay!End
  <2>2. QED BY <1>1, <2>1 DEF ReplayInv
<1>6. QED BY <1>2, <1>3, <1>4, <1>5 DEF Replay!Next

LEMMA ReplayStays == ReplayInv /\ UNCHANGED Replay!vars => ReplayInv'
<1> SUFFICES ASSUME ReplayInv, UNCHANGED Replay!vars PROVE ReplayInv'  OBVIOUS
<1>1. x1' = x1 /\ x2' = x2 /\ x3' = x3 /\ x4' = x4  BY DEF Replay!vars
<1>2. QED  BY <1>1 DEF ReplayInv

\* What the session said is replayed whole.
LEMMA ContextsReplay == ReplayInv => Replay!TypeOK /\ Replay!ContextsReplayWhole
<1> SUFFICES ASSUME ReplayInv PROVE Replay!TypeOK /\ Replay!ContextsReplayWhole  OBVIOUS
<1>1. Replay!TypeOK  BY DEF ReplayInv, Replay!TypeOK
<1>2. ASSUME x4 # <<>> PROVE Replay!ContextsReplayWhole
  <2> DEFINE before == SubSeq(x2, 1, x3)
  <2>1. x4 = Replay!ModelContextMessages(before) /\ x1 = "running"  BY <1>2 DEF ReplayInv
  <2>2. /\ WellFormed(x2) /\ x3 \in DOMAIN x2 /\ x2[x3].kind = "user"
    BY <2>1 DEF ReplayInv, WellFormed
  <2>3. /\ WellFormed(before) /\ x3 \in DOMAIN before /\ x3 = Len(before)
        /\ before[x3].kind = "user"
    BY <2>2, RowsUpTo
  <2> HIDE DEF before
  <2>4. /\ Rows(Within(x4, [role : Replay!Spoken, row : Nat])) =
             Within(Numbers(before), Places(before, Replay!Spoken))
        /\ Rows(Within(x4, [role : {"tool"}, row : Nat])) =
             Within(Numbers(before), Places(before, {"result"}))
        /\ x4[Len(x4)] = [role |-> "user", row |-> x3]
        /\ \A k \in DOMAIN x4 :
             /\ x4[k].role = "calls" =>
                  k < Len(x4) /\ x4[k + 1] = [role |-> "tool", row |-> x4[k].row + 1]
             /\ x4[k].role = "tool" => k > 1 /\ x4[k - 1].role = "calls"
    BY <2>1, <2>3, FirstRequests
  <2>5. QED BY <2>4, ReplayWithin
    DEF Replay!ContextsReplayWhole, Replay!StartingContextMessages, before, Rows, Numbers, Places
<1>3. QED BY <1>1, <1>2 DEF Replay!ContextsReplayWhole

-----------------------------------------------------------------------------
(* The events of a response, and the calls that come out of its fragments. *)

\* ProviderStream; its outcome is settled
adapter == x1
native == x2
pending == x3
terminal == x4
fragments == x5
reason == x6
presence == x8
lifecycle == x9
delivered == x10
reported == x7
settled == x11
USE DEF adapter, native, pending, terminal, fragments, reason, presence, lifecycle,
        delivered, settled, reported

Facts == {"started", "presence", "reasoning", "text", "failed", "finished"}
Events == [kind : Facts] \cup [kind : {"usage"}, item : Nat]
          \cup [kind : {"call"}, index : Nat, arguments : Seq(Nat)]
Ending(e) == e.kind \in {"finished", "failed"}
Holds(s, kind) == \E i \in 1 .. Len(s) : s[i].kind = kind

\* One start, before everything else; one end, behind everything else, once the
\* response has ended; at most one usage summary.
Starts(s) == s # <<>> /\ \A i \in 1 .. Len(s) : s[i].kind = "started" <=> i = 1
Ends(s, ended) == \A i \in 1 .. Len(s) : Ending(s[i]) <=> ended /\ i = Len(s)
Counts(s) == \A i, j \in 1 .. Len(s) : s[i].kind = "usage" /\ s[j].kind = "usage" => i = j

\* What the adapter said so far.
Said == delivered \o pending

OrderInv ==
  /\ delivered \in Seq(Events) /\ pending \in Seq(Events) /\ terminal \in BOOLEAN
  /\ Starts(Said) /\ Ends(Said, terminal) /\ Counts(Said)
  /\ Holds(Said, "usage") /\ ~terminal => adapter = "generic" /\ reported
  /\ ~terminal => \A i \in DOMAIN native : native[i].kind # "done"

RoundInv ==
  /\ settled \in {"none", "finished", "calls", "failed", "dropped"}
  /\ settled = "none" =>
       /\ lifecycle = [started |-> delivered # <<>>, terminal |-> FALSE,
                       usage |-> Holds(delivered, "usage")]
       /\ \A i \in 1 .. Len(delivered) : ~Ending(delivered[i])
  /\ settled \in {"finished", "calls"} =>
       delivered # <<>> /\ delivered[Len(delivered)].kind = "finished"

\* The events of a list of some, up to its first end.
LEMMA UpTo ==
  ASSUME NEW events \in Seq(Events)
  PROVE  /\ Answer!UpToTerminal(events) \in Seq(Events)
         /\ Len(Answer!UpToTerminal(events)) <= Len(events)
         /\ \A i \in 1 .. Len(Answer!UpToTerminal(events)) : Answer!UpToTerminal(events)[i] = events[i]
         /\ Ends(Answer!UpToTerminal(events), \E i \in DOMAIN events : Ending(events[i]))
         /\ (\E i \in DOMAIN events : Ending(events[i])) => Answer!UpToTerminal(events) # <<>>
         /\ Ends(events, TRUE) /\ events # <<>> => Answer!UpToTerminal(events) = events
<1> DEFINE Last2 == {i \in DOMAIN events : Answer!IsTerminal(events[i])}
           m == CHOOSE i \in Last2 : \A j \in Last2 : i <= j
           up == Answer!UpToTerminal(events)
<1>1. /\ Len(events) \in Nat /\ DOMAIN events = 1 .. Len(events)
      /\ \A i \in DOMAIN events : Answer!IsTerminal(events[i]) <=> Ending(events[i])
  BY DEF Answer!IsTerminal, Ending
<1>2. up = IF Last2 = {} THEN events ELSE SubSeq(events, 1, m)  BY DEF Answer!UpToTerminal
<1>3. CASE Last2 = {}
  <2>1. up = events /\ \A i \in 1 .. Len(events) : ~Ending(events[i])  BY <1>1, <1>2, <1>3
  <2> HIDE DEF up
  <2>2. Ends(up, \E i \in DOMAIN events : Ending(events[i]))  BY <1>1, <2>1, Zenon DEF Ends
  <2>3. Len(up) <= Len(events) /\ up \in Seq(Events) /\ \A i \in 1 .. Len(up) : up[i] = events[i]
    BY <1>1, <2>1
  <2>4. ~\E i \in DOMAIN events : Ending(events[i])  BY <1>1, <2>1
  <2>5. QED  BY <2>1, <2>2, <2>3, <2>4 DEF up
<1>4. CASE Last2 # {}
  <2>1. Last2 \subseteq Nat  BY <1>1
  <2>2. m \in Last2 /\ \A j \in Last2 : m <= j
    <3>1. \E i \in Last2 : \A j \in Last2 : i <= j
      <4> HIDE DEF Last2
      <4> QED  BY <1>4, <2>1, LeastElement
    <3> HIDE DEF Last2
    <3>2. QED  BY <3>1
  <2>3. m \in 1 .. Len(events) /\ Ending(events[m]) /\ up = SubSeq(events, 1, m)
    BY <1>1, <1>2, <1>4, <2>2
  <2>4. \A i \in 1 .. Len(events) : Ending(events[i]) => m <= i  BY <1>1, <2>2
  <2> HIDE DEF up, m, Last2
  <2>5. up \in Seq(Events) /\ Len(up) = m /\ \A i \in 1 .. m : up[i] = events[i]
    BY <1>1, <2>3
  <2>6. \A i \in 1 .. m : Ending(up[i]) <=> i = m
    BY <1>1, <2>3, <2>4, <2>5
  <2>7. \E i \in DOMAIN events : Ending(events[i])  BY <1>1, <2>3
  <2>8. Ends(up, \E i \in DOMAIN events : Ending(events[i])) /\ up # <<>>
    BY <2>3, <2>5, <2>6, <2>7 DEF Ends
  <2>9. ASSUME Ends(events, TRUE), events # <<>> PROVE up = events
    <3>1. m = Len(events)  BY <1>1, <2>3, <2>9, Zenon DEF Ends
    <3>2. SubSeq(events, 1, Len(events)) = events  OBVIOUS
    <3>3. QED  BY <2>3, <3>1, <3>2
  <2>10. m <= Len(events)  BY <1>1, <2>3
  <2>11. QED  BY <2>5, <2>8, <2>9, <2>10 DEF up
<1>5. QED  BY <1>3, <1>4

\* What is said, and behind it: where each event comes from.
LEMMA SaidNext ==
  ASSUME NEW s \in Seq(Events), NEW t \in Seq(Events)
  PROVE  /\ s \o t \in Seq(Events) /\ Len(s \o t) = Len(s) + Len(t)
         /\ Len(s) \in Nat /\ Len(t) \in Nat
         /\ \A i \in 1 .. Len(s) : (s \o t)[i] = s[i]
         /\ \A i \in 1 .. Len(t) : (s \o t)[Len(s) + i] = t[i]
         /\ \A i \in 1 .. Len(s) + Len(t) :
              \/ i \in 1 .. Len(s) /\ (s \o t)[i] = s[i]
              \/ i - Len(s) \in 1 .. Len(t) /\ (s \o t)[i] = t[i - Len(s)]
<1>1. s \o t \in Seq(Events) /\ Len(s \o t) = Len(s) + Len(t) /\ Len(s) \in Nat /\ Len(t) \in Nat
  OBVIOUS
<1>2. /\ \A i \in 1 .. Len(s) : (s \o t)[i] = s[i]
      /\ \A i \in 1 .. Len(t) : (s \o t)[Len(s) + i] = t[i]
  OBVIOUS
<1>3. ASSUME NEW i \in 1 .. Len(s) + Len(t)
      PROVE  \/ i \in 1 .. Len(s) /\ (s \o t)[i] = s[i]
             \/ i - Len(s) \in 1 .. Len(t) /\ (s \o t)[i] = t[i - Len(s)]
  OBVIOUS
<1>4. QED  BY <1>1, <1>2, <1>3

LEMMA EndsNext ==
  ASSUME NEW s \in Seq(Events), NEW t \in Seq(Events), NEW ended \in BOOLEAN,
         Starts(s), Ends(s, FALSE), Counts(s),
         ~Holds(t, "started"), Ends(t, ended), ended => t # <<>>, Counts(t),
         ~(Holds(s, "usage") /\ Holds(t, "usage"))
  PROVE  Starts(s \o t) /\ Ends(s \o t, ended) /\ Counts(s \o t)
<1> DEFINE c == s \o t
           n == Len(s)
           k == Len(t)
<1>1. /\ c \in Seq(Events) /\ Len(c) = n + k /\ n \in Nat /\ k \in Nat
      /\ \A i \in 1 .. n + k : \/ i \in 1 .. n /\ c[i] = s[i]
                               \/ i - n \in 1 .. k /\ c[i] = t[i - n]
  BY SaidNext
<1>2. n > 0 /\ s # <<>>  BY DEF Starts
<1>3. k = 0 => ~ended  BY <1>1
<1> HIDE DEF c, n, k
<1>4. c # <<>>  BY <1>1, <1>2
<1>5. \A i \in 1 .. n + k : c[i].kind = "started" <=> i = 1
  <2> SUFFICES ASSUME NEW i \in 1 .. n + k PROVE c[i].kind = "started" <=> i = 1
    OBVIOUS
  <2>1. CASE i \in 1 .. n /\ c[i] = s[i]
    <3>1. s[i].kind = "started" <=> i = 1  BY <2>1 DEF Starts, n
    <3>2. QED  BY <2>1, <3>1
  <2>2. CASE i - n \in 1 .. k /\ c[i] = t[i - n]
    <3>1. t[i - n].kind # "started"  BY <2>2 DEF Holds, k
    <3>2. i # 1  BY <1>1, <1>2, <2>2
    <3>3. QED  BY <2>2, <3>1, <3>2
  <2>3. QED  BY <1>1, <2>1, <2>2
<1>6. \A i \in 1 .. n + k : Ending(c[i]) <=> ended /\ i = n + k
  <2> SUFFICES ASSUME NEW i \in 1 .. n + k PROVE Ending(c[i]) <=> ended /\ i = n + k
    OBVIOUS
  <2>1. CASE i \in 1 .. n /\ c[i] = s[i]
    <3>1. ~Ending(s[i])  BY <2>1 DEF Ends, n
    <3>2. i = n + k => k = 0  BY <1>1, <2>1
    <3>3. QED  BY <1>3, <2>1, <3>1, <3>2
  <2>2. CASE i - n \in 1 .. k /\ c[i] = t[i - n]
    <3>1. Ending(t[i - n]) <=> ended /\ i - n = k  BY <2>2 DEF Ends, k
    <3>2. i - n = k <=> i = n + k  BY <1>1
    <3>3. QED  BY <2>2, <3>1, <3>2
  <2>3. QED  BY <1>1, <2>1, <2>2
<1>7. ASSUME NEW i \in 1 .. n + k, NEW j \in 1 .. n + k, c[i].kind = "usage", c[j].kind = "usage"
      PROVE  i = j
  <2>1. CASE i \in 1 .. n /\ c[i] = s[i]
    <3>1. Holds(s, "usage")  BY <1>7, <2>1 DEF Holds, n
    <3>2. ~(j - n \in 1 .. k /\ c[j] = t[j - n])  BY <1>7, <3>1 DEF Holds, k
    <3>3. j \in 1 .. n /\ c[j] = s[j]  BY <1>1, <3>2
    <3>4. QED  BY <1>7, <2>1, <3>3 DEF Counts, n
  <2>2. CASE i - n \in 1 .. k /\ c[i] = t[i - n]
    <3>1. Holds(t, "usage")  BY <1>7, <2>2 DEF Holds, k
    <3>2. ~(j \in 1 .. n /\ c[j] = s[j])  BY <1>7, <3>1 DEF Holds, n
    <3>3. j - n \in 1 .. k /\ c[j] = t[j - n]  BY <1>1, <3>2
    <3>4. i - n = j - n  BY <1>7, <2>2, <3>3 DEF Counts, k
    <3>5. QED  BY <1>1, <3>4
  <2>3. QED  BY <1>1, <2>1, <2>2
<1>8. QED  BY <1>1, <1>4, <1>5, <1>6, <1>7 DEF Starts, Ends, Counts, c

\* A list of events that an adapter may add to what it said.
May(events) ==
  /\ events \in Seq(Events) /\ ~Holds(events, "started") /\ Counts(events)
  /\ Holds(events, "usage") => ~Holds(delivered, "usage")

\* It is queued when the queue is empty.
LEMMA QueuedNext ==
  ASSUME NEW events, OrderInv, RoundInv, Answer!Polled, May(events), Answer!Queue(events),
         delivered' = delivered, settled' = settled, lifecycle' = lifecycle
  PROVE  /\ pending' = Answer!UpToTerminal(events) /\ pending' \in Seq(Events)
         /\ Said = delivered
         /\ terminal' = (\E i \in DOMAIN events : Ending(events[i]))
         /\ Starts(Said') /\ Ends(Said', terminal') /\ Counts(Said')
         /\ Said' = delivered \o pending'
         /\ \A kind : Holds(Said', kind) => Holds(delivered, kind) \/ Holds(events, kind)
         /\ RoundInv'
<1> DEFINE up == Answer!UpToTerminal(events)
<1>1. /\ settled = "none" /\ pending = <<>> /\ terminal = FALSE
      /\ delivered \in Seq(Events) /\ pending \in Seq(Events) /\ events \in Seq(Events)
  BY DEF Answer!Polled, OrderInv, May
<1>2. Said = delivered  BY <1>1 DEF Said
<1>3. /\ up \in Seq(Events) /\ Len(up) <= Len(events)
      /\ \A i \in 1 .. Len(up) : up[i] = events[i]
      /\ Ends(up, \E i \in DOMAIN events : Ending(events[i]))
      /\ (\E i \in DOMAIN events : Ending(events[i])) => up # <<>>
  BY <1>1, UpTo
<1>4. Len(up) \in Nat /\ Len(events) \in Nat  BY <1>1, <1>3
<1>5. pending' = up /\ terminal' = (\E i \in DOMAIN events : Ending(events[i]))
  <2>1. pending' = pending \o up  BY DEF Answer!Queue
  <2>2. terminal' = \E i \in DOMAIN events : Ending(events[i])
    BY DEF Answer!Queue, Answer!IsTerminal, Ending
  <2>3. <<>> \o up = up  BY <1>3
  <2>4. QED  BY <1>1, <2>1, <2>2, <2>3
<1> HIDE DEF up
<1>6. ~Holds(up, "started") /\ Counts(up) /\ (Holds(up, "usage") => ~Holds(delivered, "usage"))
  <2>1. \A i \in 1 .. Len(up) : i \in 1 .. Len(events) /\ up[i] = events[i]  BY <1>3, <1>4
  <2>2. /\ ~Holds(events, "started") /\ Counts(events)
        /\ Holds(events, "usage") => ~Holds(delivered, "usage")
    BY DEF May
  <2>3. \A kind : Holds(up, kind) => Holds(events, kind)  BY ONLY <2>1 DEF Holds
  <2>4. Counts(up)  BY ONLY <2>1, <2>2 DEF Counts
  <2>5. QED  BY ONLY <2>2, <2>3, <2>4
<1>7. Starts(delivered) /\ Ends(delivered, FALSE) /\ Counts(delivered)
  BY <1>1, <1>2 DEF OrderInv
<1> DEFINE ended == \E i \in DOMAIN events : Ending(events[i])
<1>8. ended \in BOOLEAN /\ Ends(up, ended) /\ (ended => up # <<>>)  BY <1>3
<1> HIDE DEF ended
<1>9. Starts(delivered \o up) /\ Ends(delivered \o up, ended) /\ Counts(delivered \o up)
  BY <1>1, <1>3, <1>6, <1>7, <1>8, EndsNext
<1>10. Said' = delivered \o up  BY <1>5 DEF Said
<1>11. ASSUME NEW kind, Holds(delivered \o up, kind) PROVE Holds(delivered, kind) \/ Holds(events, kind)
  <2> DEFINE c == delivered \o up
             n == Len(delivered)
             k == Len(up)
  <2>1. /\ Len(c) = n + k /\ n \in Nat /\ k \in Nat
        /\ \A i \in 1 .. n + k : \/ i \in 1 .. n /\ c[i] = delivered[i]
                                 \/ i - n \in 1 .. k /\ c[i] = up[i - n]
    BY <1>1, <1>3, SaidNext
  <2> HIDE DEF c
  <2>2. PICK i \in 1 .. n + k : c[i].kind = kind  BY <1>11, <2>1 DEF Holds, c
  <2>3. CASE i \in 1 .. n /\ c[i] = delivered[i]  BY <2>2, <2>3 DEF Holds
  <2>4. CASE i - n \in 1 .. k /\ c[i] = up[i - n]
    <3>1. i - n \in 1 .. Len(events) /\ events[i - n].kind = kind  BY <1>3, <1>4, <2>2, <2>4
    <3>2. QED  BY <3>1 DEF Holds
  <2>5. QED  BY <2>1, <2>3, <2>4
<1>12. RoundInv'  BY DEF RoundInv, Holds, Ending
<1>13. QED  BY <1>2, <1>3, <1>5, <1>8, <1>9, <1>10, <1>11, <1>12 DEF up, ended

\* Lists of events, by what they may hold.
Plain == [kind : {"presence", "reasoning", "text", "failed"}]

LEMMA PlainMay ==
  ASSUME OrderInv, NEW a, NEW b \in Seq(Plain), NEW n \in Nat,
         a \in {<<>>, <<Answer!Usage(n)>>, Answer!Fail},
         a = <<Answer!Usage(n)>> => ~Holds(delivered, "usage")
  PROVE  /\ May(a \o b) /\ ~Holds(a \o b, "call") /\ ~Holds(a \o b, "finished")
         /\ Holds(a \o b, "usage") => a = <<Answer!Usage(n)>>
<1>1. /\ b \in Seq(Events) /\ Len(b) \in Nat
      /\ \A i \in 1 .. Len(b) : b[i].kind \in {"presence", "reasoning", "text", "failed"}
  <2>1. Plain \subseteq Events  BY DEF Plain, Events, Facts
  <2>2. \A i \in 1 .. Len(b) : b[i] \in Plain  OBVIOUS
  <2>3. QED  BY <2>1, <2>2 DEF Plain
<1>2. /\ Answer!Usage(n) \in Events /\ Answer!Usage(n).kind = "usage"
      /\ [kind |-> "failed"] \in Events /\ Answer!Fail = <<[kind |-> "failed"]>>
  BY DEF Answer!Usage, Answer!Fail, Answer!Event, Events, Facts
<1>3. /\ a \in Seq(Events) /\ Len(a) \in {0, 1}
      /\ \A i \in 1 .. Len(a) : i = 1 /\ a[i].kind \in {"usage", "failed"}
      /\ Holds(a, "usage") => a = <<Answer!Usage(n)>>
  <2>1. CASE a = <<>>  BY <2>1 DEF Holds
  <2>2. CASE a = <<Answer!Usage(n)>>  BY <1>2, <2>2
  <2>3. CASE a = Answer!Fail
    <3>1. a = <<[kind |-> "failed"]>> /\ [kind |-> "failed"].kind = "failed"  BY <1>2, <2>3
    <3>2. QED  BY <1>2, <3>1 DEF Holds
  <2>4. QED  BY <2>1, <2>2, <2>3
<1> DEFINE c == a \o b
           m == Len(a)
           k == Len(b)
<1>4. /\ c \in Seq(Events) /\ Len(c) = m + k /\ m \in Nat /\ k \in Nat
      /\ \A i \in 1 .. m + k : \/ i \in 1 .. m /\ c[i] = a[i]
                               \/ i - m \in 1 .. k /\ c[i] = b[i - m]
  BY <1>1, <1>3, SaidNext
<1> HIDE DEF c, m, k
<1>5. ASSUME NEW i \in 1 .. m + k
      PROVE  /\ c[i].kind \in {"presence", "reasoning", "text", "failed", "usage"}
             /\ c[i].kind = "usage" => i = 1 /\ Holds(a, "usage")
  <2>1. CASE i \in 1 .. m /\ c[i] = a[i]  BY <1>3, <2>1 DEF m, Holds
  <2>2. CASE i - m \in 1 .. k /\ c[i] = b[i - m]  BY <1>1, <2>2 DEF k
  <2>3. QED  BY <1>4, <2>1, <2>2
<1>6. ~Holds(c, "started") /\ ~Holds(c, "call") /\ ~Holds(c, "finished") /\ Counts(c)
  <2>1. \A i \in 1 .. m + k : c[i].kind \notin {"started", "call", "finished"}  BY <1>5
  <2>2. \A i, j \in 1 .. m + k : c[i].kind = "usage" /\ c[j].kind = "usage" => i = j
    BY <1>5
  <2>3. QED  BY <1>4, <2>1, <2>2 DEF Holds, Counts
<1>7. Holds(c, "usage") => a = <<Answer!Usage(n)>>  BY <1>3, <1>4, <1>5 DEF Holds
<1>8. May(c)  BY <1>4, <1>6, <1>7 DEF May
<1>9. QED  BY <1>6, <1>7, <1>8 DEF c

\* The only event of a list.
LEMMA OneMay ==
  ASSUME NEW e \in Events, e.kind \notin {"started", "usage"}
  PROVE  /\ May(<<e>>) /\ \A kind : Holds(<<e>>, kind) <=> kind = e.kind
         /\ Ends(<<e>>, Ending(e)) /\ <<e>> \in Seq(Events) /\ <<e>> # <<>>
<1>1. <<e>> \in Seq(Events) /\ Len(<<e>>) = 1 /\ <<e>>[1] = e  OBVIOUS
<1>2. \A i \in 1 .. 1 : i = 1  OBVIOUS
<1>3. \A kind : Holds(<<e>>, kind) <=> kind = e.kind  BY <1>1, <1>2 DEF Holds
<1>4. QED  BY <1>1, <1>2, <1>3 DEF May, Counts, Ends

LEMMA FailMay ==
  /\ May(Answer!Fail) /\ Answer!Fail \in Seq(Events)
  /\ \A kind : Holds(Answer!Fail, kind) <=> kind = "failed"
  /\ \E i \in DOMAIN Answer!Fail : Ending(Answer!Fail[i])
<1> DEFINE e == [kind |-> "failed"]
<1>1. Answer!Fail = <<e>> /\ e \in Events /\ e.kind = "failed"
  BY DEF Answer!Fail, Answer!Event, Events, Facts
<1> HIDE DEF e
<1>2. DOMAIN <<e>> = {1} /\ <<e>>[1] = e /\ Ending(e)  BY <1>1 DEF Ending
<1>3. QED  BY <1>1, <1>2, OneMay

-----------------------------------------------------------------------------
(* Calls.                                                                  *)

CallsOf(s) == Within(s, {s[i] : i \in {j \in DOMAIN s : s[j].kind = "call"}})

LEMMA ResponseWithin ==
  ASSUME NEW s, NEW T
  PROVE  Answer!Within(s, T) = Within(s, T)
BY DEF Answer!Within, Within

\* Calls in the middle of other events are the calls of the whole.
LEMMA CallsBetween ==
  ASSUME NEW s \in Seq(Events), NEW t \in Seq(Events), NEW e \in Events,
         ~Holds(s, "call"), \A i \in 1 .. Len(t) : t[i].kind = "call", e.kind # "call"
  PROVE  CallsOf(s \o (t \o <<e>>)) = t
<1> DEFINE f == <<e>>
           d == t \o f
           c == s \o d
           T == {x \in Events : x.kind = "call"}
<1>1. f \in Seq(Events) /\ Len(f) = 1 /\ f[1] = e  OBVIOUS
<1> HIDE DEF f
<1>2. d \in Seq(Events)  BY <1>1
<1> HIDE DEF d
<1>3. c \in Seq(Events) /\ Len(c) \in Nat /\ DOMAIN c = 1 .. Len(c)  BY <1>2
<1> HIDE DEF c
<1>4. CallsOf(c) = Within(c, T)
  <2> DEFINE U == {c[i] : i \in {j \in DOMAIN c : c[j].kind = "call"}}
  <2>1. \A i \in 1 .. Len(c) : c[i] \in U <=> c[i] \in T  BY <1>3
  <2>2. CallsOf(c) = Within(c, U)  BY DEF CallsOf
  <2> HIDE DEF U, T
  <2>3. QED  BY <1>3, <2>1, <2>2, WithinAgrees
<1>5. Within(s, T) = <<>>
  <2>1. \A i \in 1 .. Len(s) : s[i] \notin T  BY DEF Holds
  <2> HIDE DEF T
  <2>2. QED  BY <2>1, WithinWhole
<1>6. Within(t, T) = t
  <2>1. \A i \in 1 .. Len(t) : t[i] \in T  OBVIOUS
  <2> HIDE DEF T
  <2>2. QED  BY <2>1, WithinWhole
<1>7. Within(f, T) = <<>>
  <2>1. \A i \in 1 .. Len(f) : f[i] \notin T  BY <1>1
  <2> HIDE DEF T
  <2>2. QED  BY <1>1, <2>1, WithinWhole
<1> HIDE DEF T
<1>8. Within(d, T) = t \o <<>>
  <2>1. Within(t \o f, T) = Within(t, T) \o Within(f, T)  BY <1>1, WithinConcat
  <2>2. QED  BY <1>6, <1>7, <2>1, Zenon DEF d
<1>9. t \o <<>> = t /\ <<>> \o t = t  OBVIOUS
<1>10. Within(c, T) = <<>> \o t
  <2>1. Within(s \o d, T) = Within(s, T) \o Within(d, T)  BY <1>2, WithinConcat
  <2>2. QED  BY <1>5, <1>8, <1>9, <2>1, Zenon DEF c
<1>11. QED  BY <1>4, <1>9, <1>10 DEF c, d, f

\* The items that carried a fragment of a call, and one more item.
Bears(item, i) == item.kind = "chunk" /\ \E f \in item.calls : f.index = i

LEMMA CarriedNext ==
  ASSUME NEW S, native \in Seq(S), NEW item \in S, native' = Append(native, item), NEW i
  PROVE  /\ Answer!Carried(i) \in Seq(Nat) /\ Answer!Carried(i)' \in Seq(Nat)
         /\ Answer!Carried(i)' =
              IF Bears(item, i) THEN Append(Answer!Carried(i), Len(native) + 1)
              ELSE Answer!Carried(i)
<1> DEFINE n == Len(native)
           q == [k \in DOMAIN native |-> k]
           r == [k \in DOMAIN native' |-> k]
           T == {k \in DOMAIN native : Bears(native[k], i)}
           U == {k \in DOMAIN native' : Bears(native'[k], i)}
<1>1. /\ n \in Nat /\ DOMAIN native = 1 .. n /\ DOMAIN native' = 1 .. n + 1
      /\ native'[n + 1] = item /\ \A k \in 1 .. n : native'[k] = native[k]
  OBVIOUS
<1>2. Answer!Carried(i) = Within(q, T) /\ Answer!Carried(i)' = Within(r, U)
  <2>1. Answer!Carried(i) = Answer!Within(q, T)
    BY DEF Answer!Carried, Bears, Answer!Fragment
  <2>2. Answer!Carried(i)' = Answer!Within(r, U)
    BY DEF Answer!Carried, Bears, Answer!Fragment
  <2>3. QED  BY <2>1, <2>2, ResponseWithin
<1>3. q \in Seq(Nat) /\ Len(q) = n /\ r \in Seq(Nat) /\ Len(r) = n + 1
  BY <1>1
<1>4. r = Append(q, n + 1)
  <2>1. (\A k \in 1 .. n : r[k] = q[k]) /\ r[n + 1] = n + 1 /\ n + 1 \in Nat  BY <1>1
  <2> HIDE DEF q, r, n
  <2>2. QED  BY <1>1, <1>3, <2>1, IsAppend
<1>5. n + 1 \in U <=> Bears(item, i)  BY <1>1
<1>6. \A k \in 1 .. n : q[k] \in T <=> q[k] \in U  BY <1>1
<1> HIDE DEF q, r, n, T, U
<1>7. Within(q, T) = Within(q, U)  BY <1>3, <1>6, WithinAgrees
<1>8. n + 1 \in Nat  BY <1>1
<1>9. Within(r, U) = IF n + 1 \in U THEN Append(Within(q, U), n + 1) ELSE Within(q, U)
  <2>1. \A k \in Nat : Within(Append(q, k), U) = IF k \in U THEN Append(Within(q, U), k) ELSE Within(q, U)
    BY <1>3, WithinGrows
  <2>2. QED  BY <1>4, <1>8, <2>1, Zenon
<1>10. Within(q, T) \in Seq(Nat) /\ Within(r, U) \in Seq(Nat)  BY <1>3, WithinType
<1>11. QED  BY <1>2, <1>5, <1>7, <1>9, <1>10 DEF n

-----------------------------------------------------------------------------
(* The steps of a response.                                                *)

Items == Answer!Chunks \cup Answer!StreamEvents \cup {Answer!NativeError}
Assembling == [seen : BOOLEAN, id : CallIds \cup {Absent}, arguments : Seq(Nat)]

FragmentsFit ==
  \A i \in {1, 2} : /\ fragments[i] \in Assembling
                    /\ fragments[i].arguments = Answer!Carried(i)
                    /\ fragments[i].seen <=> Answer!Carried(i) # <<>>

Carrying == Within(<<1, 2>>, {i \in Answer!Indexes : Answer!Carried(i) # <<>>})
Expected ==
  [k \in DOMAIN Carrying |-> Answer!Call(Carrying[k], Answer!Carried(Carrying[k]))]

FragmentInv ==
  /\ native \in Seq(Items) /\ {reason, reported, presence} \subseteq BOOLEAN
  /\ adapter = "generic" =>
       /\ ~terminal => FragmentsFit /\ ~Holds(Said, "call")
       /\ terminal /\ Said[Len(Said)].kind = "finished" => CallsOf(Said) = Expected

ResponseInv == OrderInv /\ RoundInv /\ FragmentInv

\* What is queued keeps the order.
LEMMA QueueKeepsOrder ==
  ASSUME NEW events, OrderInv, RoundInv, Answer!Polled, May(events), Answer!Queue(events),
         delivered' = delivered, settled' = settled, lifecycle' = lifecycle, adapter' = adapter,
         reported => reported',
         Holds(events, "usage") /\ ~terminal' => adapter = "generic" /\ reported',
         ~terminal' => \A i \in DOMAIN native' : native'[i].kind # "done"
  PROVE  OrderInv' /\ RoundInv'
<1>1. terminal = FALSE /\ Said = delivered  BY QueuedNext DEF Answer!Polled, OrderInv
<1>2. /\ pending' \in Seq(Events) /\ terminal' \in BOOLEAN
      /\ Starts(Said') /\ Ends(Said', terminal') /\ Counts(Said') /\ RoundInv'
      /\ Holds(Said', "usage") => Holds(delivered, "usage") \/ Holds(events, "usage")
  <2>1. terminal' = (\E i \in DOMAIN events : Ending(events[i]))  BY QueuedNext
  <2>2. terminal' \in BOOLEAN  BY <2>1
  <2>3. QED  BY <2>2, QueuedNext
<1>3. delivered \in Seq(Events) /\ (Holds(delivered, "usage") => adapter = "generic" /\ reported)
  BY <1>1 DEF OrderInv
<1>4. Holds(Said', "usage") /\ ~terminal' => adapter = "generic" /\ reported'
  BY <1>2, <1>3
<1>5. delivered' \in Seq(Events)  BY <1>3
<1>6. QED
  <2>1. Starts(Said)' /\ Ends(Said, terminal)' /\ Counts(Said)'
    BY <1>2 DEF Starts, Ends, Ending, Counts
  <2>2. (Holds(Said, "usage") /\ ~terminal => adapter = "generic" /\ reported)'
    BY <1>4 DEF Holds
  <2>3. QED  BY <1>2, <1>5, <2>1, <2>2 DEF OrderInv

\* And what holds neither a call nor an end that is well keeps the calls.
LEMMA QueueKeepsCalls ==
  ASSUME NEW events, ResponseInv, Answer!Polled, May(events), Answer!Queue(events),
         delivered' = delivered, settled' = settled, lifecycle' = lifecycle, adapter' = adapter,
         ~Holds(events, "call"), ~Holds(events, "finished"),
         native' \in Seq(Items), {reason', reported', presence'} \subseteq BOOLEAN,
         adapter = "generic" /\ ~terminal' => FragmentsFit'
  PROVE  FragmentInv'
<1>1. /\ Said' = delivered \o pending' /\ Said = delivered /\ terminal = FALSE
      /\ pending' \in Seq(Events) /\ delivered \in Seq(Events)
      /\ \A kind : Holds(Said', kind) => Holds(delivered, kind) \/ Holds(events, kind)
      /\ Starts(Said')
  BY QueuedNext DEF ResponseInv, OrderInv, Answer!Polled
<1>2. ~Holds(Said', "finished")
  <2>1. ~Holds(delivered, "finished")
    BY <1>1 DEF ResponseInv, OrderInv, Ends, Ending, Holds
  <2>2. QED  BY <1>1, <2>1
<1>3. Said'[Len(Said')].kind # "finished"
  <2>1. Said' \in Seq(Events) /\ Said' # <<>>  BY <1>1, SaidNext DEF Starts
  <2>2. Len(Said') \in 1 .. Len(Said')  BY <2>1
  <2>3. QED  BY <1>2, <2>2 DEF Holds
<1>4. adapter = "generic" => ~Holds(Said', "call")
  BY <1>1 DEF ResponseInv, FragmentInv
<1>5. (~Holds(Said, "call"))' <=> ~Holds(Said', "call")  BY DEF Holds
<1>6. QED  BY <1>3, <1>4, <1>5 DEF FragmentInv

LEMMA AppendTyped ==
  ASSUME NEW item \in Items, ResponseInv, native' = Append(native, item)
  PROVE  /\ native' \in Seq(Items)
         /\ ~terminal /\ item.kind # "done" => \A i \in DOMAIN native' : native'[i].kind # "done"
<1>1. native \in Seq(Items)  BY DEF ResponseInv, FragmentInv
<1>2. QED  BY <1>1 DEF ResponseInv, OrderInv

LEMMA DeltaPlain ==
  ASSUME NEW c
  PROVE  Answer!DeltaEvents(c) \in Seq(Plain)
<1> DEFINE q == Answer!If("presence" \in c.delta /\ ~presence, <<Answer!Event("presence")>>)
           r == Answer!If("reasoning" \in c.delta, <<Answer!Event("reasoning")>>)
           t == Answer!If("text" \in c.delta, <<Answer!Event("text")>>)
           f == Answer!If(Answer!Conflicts(c), Answer!Fail)
<1>1. \A kind \in {"presence", "reasoning", "text", "failed"} : <<Answer!Event(kind)>> \in Seq(Plain)
  BY DEF Answer!Event, Plain
<1>2. q \in Seq(Plain) /\ r \in Seq(Plain) /\ t \in Seq(Plain) /\ f \in Seq(Plain)
  BY <1>1 DEF Answer!If, Answer!Fail
<1>3. Answer!DeltaEvents(c) = ((q \o r) \o t) \o f  BY DEF Answer!DeltaEvents
<1> HIDE DEF q, r, t, f
<1>4. QED  BY <1>2, <1>3

\* The usage a chunk adds.
LEMMA UsageAdds ==
  ASSUME NEW c \in Answer!Chunks, NEW n \in Nat, ResponseInv, Answer!Polled
  PROVE  LET a == Answer!ReportedUsage(c, n)
         IN  /\ a \in {<<>>, <<Answer!Usage(n)>>, Answer!Fail}
             /\ a = <<Answer!Usage(n)>> => ~Holds(delivered, "usage") /\ c.usage = "valid"
<1> DEFINE a == Answer!ReportedUsage(c, n)
<1>1. c.usage \in {"absent", "valid", "invalid"}  BY DEF Answer!Chunks, Answer!Reports
<1>2. reported \in BOOLEAN  BY DEF ResponseInv, FragmentInv
<1>3. ~reported => ~Holds(delivered, "usage")
  <2>1. terminal = FALSE /\ pending = <<>> /\ delivered \in Seq(Events)
    BY DEF Answer!Polled, ResponseInv, OrderInv
  <2>2. Said = delivered  BY <2>1 DEF Said
  <2>3. QED  BY <2>1, <2>2 DEF ResponseInv, OrderInv
<1>4. <<Answer!Usage(n)>> # <<>> /\ <<Answer!Usage(n)>> # Answer!Fail
  <2>1. Answer!Usage(n).kind = "usage" /\ Answer!Fail[1].kind = "failed"
    BY DEF Answer!Usage, Answer!Fail, Answer!Event
  <2>2. <<Answer!Usage(n)>>[1] = Answer!Usage(n) /\ Len(<<Answer!Usage(n)>>) = 1  OBVIOUS
  <2>3. QED  BY <2>1, <2>2
<1>5. CASE c.usage = "absent" \/ reported
  <2>1. a = <<>>  BY <1>5 DEF Answer!ReportedUsage
  <2>2. QED  BY <1>4, <2>1
<1>6. CASE c.usage = "valid" /\ ~reported
  <2>1. a = <<Answer!Usage(n)>>  BY <1>6 DEF Answer!ReportedUsage
  <2>2. QED  BY <1>3, <1>6, <2>1
<1>7. CASE c.usage = "invalid" /\ ~reported
  <2>1. a = Answer!Fail  BY <1>7 DEF Answer!ReportedUsage
  <2>2. QED  BY <1>4, <2>1
<1>8. QED  BY <1>1, <1>2, <1>5, <1>6, <1>7

LEMMA ChunkKinds ==
  ASSUME NEW c \in Answer!Chunks
  PROVE  /\ c \in Items /\ c.kind = "chunk" /\ c.finish \in BOOLEAN
         /\ c.calls = {} \/ \E f \in Answer!Fragments : c.calls = {f}
BY DEF Answer!Chunks, Items

\* A fragment goes to the call it names.
LEMMA MergeFits ==
  ASSUME NEW c \in Answer!Chunks, NEW n \in Nat, native \in Seq(Items), FragmentsFit,
         n = Len(native) + 1, native' = Append(native, c), Answer!Merge(c, n)
  PROVE  FragmentsFit'
<1> SUFFICES ASSUME NEW i \in {1, 2}
             PROVE  /\ fragments'[i] \in Assembling
                    /\ fragments'[i].arguments = Answer!Carried(i)'
                    /\ fragments'[i].seen <=> Answer!Carried(i)' # <<>>
  BY DEF FragmentsFit
<1>1. /\ Answer!Carried(i) \in Seq(Nat)
      /\ Answer!Carried(i)' = IF Bears(c, i) THEN Append(Answer!Carried(i), n) ELSE Answer!Carried(i)
  BY ChunkKinds, CarriedNext
<1>2. Bears(c, i) <=> \E f \in c.calls : f.index = i  BY ChunkKinds DEF Bears
<1> DEFINE f == CHOOSE f \in c.calls : TRUE
           next2 == [seen |-> TRUE, id |-> IF f.id = Absent THEN fragments[i].id ELSE f.id,
                     arguments |-> Append(fragments[i].arguments, n)]
<1>3. fragments'[i] = IF Bears(c, i) THEN next2 ELSE fragments[i]
  BY <1>2 DEF Answer!Merge, Answer!Indexes, Answer!Fragment
<1>4. /\ fragments[i] \in Assembling /\ fragments[i].arguments = Answer!Carried(i)
      /\ fragments[i].seen <=> Answer!Carried(i) # <<>>
  BY DEF FragmentsFit
<1>5. CASE Bears(c, i)
  <2>1. f.id \in CallIds \cup {Absent}
    <3>1. PICK g \in Answer!Fragments : c.calls = {g}  BY <1>2, <1>5, ChunkKinds
    <3>2. f = g  BY <3>1
    <3>3. QED  BY <3>1, <3>2 DEF Answer!Fragments
  <2> HIDE DEF f
  <2>2. next2 \in Assembling /\ next2.seen = TRUE /\ next2.arguments = Append(Answer!Carried(i), n)
    BY <1>1, <1>4, <2>1 DEF Assembling
  <2>3. Append(Answer!Carried(i), n) # <<>>  BY <1>1
  <2> HIDE DEF next2
  <2>4. QED  BY <1>1, <1>3, <1>5, <2>2, <2>3
<1>6. CASE ~Bears(c, i)  BY <1>1, <1>3, <1>4, <1>6
<1>7. QED  BY <1>5, <1>6

LEMMA ChunkStep ==
  ASSUME ResponseInv, NEW c \in Answer!Chunks, Answer!AcceptChunk(c)
  PROVE  ResponseInv'
<1> DEFINE n == Len(native) + 1
           a == Answer!ReportedUsage(c, n)
           b == Answer!DeltaEvents(c)
           events == a \o b
<1>1. /\ Answer!Polled /\ adapter = "generic" /\ native' = Append(native, c)
      /\ Answer!Queue(events) /\ Answer!Merge(c, n) /\ reason' = c.finish
      /\ reported' = (reported \/ c.usage = "valid")
      /\ presence' = (presence \/ "presence" \in c.delta)
      /\ adapter' = adapter /\ delivered' = delivered /\ settled' = settled /\ lifecycle' = lifecycle
  BY DEF Answer!AcceptChunk
<1>2. n \in Nat /\ native \in Seq(Items) /\ terminal = FALSE
  BY <1>1 DEF ResponseInv, FragmentInv, Answer!Polled
<1>3. /\ a \in {<<>>, <<Answer!Usage(n)>>, Answer!Fail} /\ b \in Seq(Plain)
      /\ a = <<Answer!Usage(n)>> => ~Holds(delivered, "usage") /\ c.usage = "valid"
  BY <1>1, <1>2, UsageAdds, DeltaPlain
<1> HIDE DEF a, b, n
<1>4. /\ May(events) /\ ~Holds(events, "call") /\ ~Holds(events, "finished")
      /\ Holds(events, "usage") => a = <<Answer!Usage(n)>>
  BY <1>2, <1>3, PlainMay DEF ResponseInv
<1>5. /\ native' \in Seq(Items) /\ \A i \in DOMAIN native' : native'[i].kind # "done"
  BY <1>1, <1>2, AppendTyped, ChunkKinds
<1>6. {reason, reported, presence} \subseteq BOOLEAN /\ {reason', reported', presence'} \subseteq BOOLEAN
  <2>1. {reason, reported, presence} \subseteq BOOLEAN  BY DEF ResponseInv, FragmentInv
  <2>2. c.finish \in BOOLEAN  BY ChunkKinds
  <2>3. QED  BY <1>1, <2>1, <2>2
<1>7. (reported => reported') /\ (Holds(events, "usage") => reported')  BY <1>1, <1>3, <1>4
<1> HIDE DEF events
<1>8. OrderInv' /\ RoundInv'  BY <1>1, <1>4, <1>5, <1>7, QueueKeepsOrder DEF ResponseInv
<1>9. FragmentsFit'
  <2>1. FragmentsFit  BY <1>1, <1>2 DEF ResponseInv, FragmentInv
  <2>2. QED  BY <1>1, <1>2, <2>1, MergeFits DEF n
<1>10. FragmentInv'  BY <1>1, <1>4, <1>5, <1>6, <1>9, QueueKeepsCalls
<1>11. QED  BY <1>8, <1>10 DEF ResponseInv

\* A failure that is queued ends the response.
LEMMA FailKeeps ==
  ASSUME ResponseInv, Answer!Polled, Answer!Queue(Answer!Fail), native' \in Seq(Items),
         UNCHANGED <<adapter, delivered, settled, lifecycle>>, reported => reported',
         {reason', reported', presence'} \subseteq BOOLEAN
  PROVE  ResponseInv'
<1>1. /\ May(Answer!Fail) /\ ~Holds(Answer!Fail, "usage") /\ ~Holds(Answer!Fail, "call")
      /\ ~Holds(Answer!Fail, "finished")
  BY FailMay
<1>2. terminal' = TRUE  BY <1>1, FailMay, QueuedNext DEF ResponseInv
<1>3. OrderInv' /\ RoundInv'  BY <1>1, <1>2, QueueKeepsOrder DEF ResponseInv
<1>4. FragmentInv'  BY <1>1, <1>2, QueueKeepsCalls
<1>5. QED  BY <1>3, <1>4 DEF ResponseInv

LEMMA TrailerStep ==
  ASSUME ResponseInv, NEW c \in Answer!Chunks, Answer!AcceptTrailer(c)
  PROVE  ResponseInv'
<1> DEFINE n == Len(native) + 1
           a == Answer!ReportedUsage(c, n)
<1>1. /\ Answer!Polled /\ adapter = "generic" /\ native' = Append(native, c)
      /\ Answer!Queue(IF c.finish \/ Answer!Content(c) THEN Answer!Fail ELSE a)
      /\ reported' = (reported \/ c.usage = "valid")
      /\ UNCHANGED <<adapter, fragments, reason, presence, lifecycle, delivered, settled>>
  BY DEF Answer!AcceptTrailer
<1>2. n \in Nat /\ native \in Seq(Items) /\ terminal = FALSE
  BY <1>1 DEF ResponseInv, FragmentInv, Answer!Polled
<1>3. /\ a \in {<<>>, <<Answer!Usage(n)>>, Answer!Fail}
      /\ a = <<Answer!Usage(n)>> => ~Holds(delivered, "usage") /\ c.usage = "valid"
  BY <1>1, <1>2, UsageAdds
<1>4. /\ native' \in Seq(Items) /\ \A i \in DOMAIN native' : native'[i].kind # "done"
  BY <1>1, <1>2, AppendTyped, ChunkKinds
<1>5. {reason', reported', presence'} \subseteq BOOLEAN
  <2>1. {reason, reported, presence} \subseteq BOOLEAN  BY DEF ResponseInv, FragmentInv
  <2>2. QED  BY <1>1, <2>1
<1>6. CASE c.finish \/ Answer!Content(c)
  <2>1. Answer!Queue(Answer!Fail)  BY <1>1, <1>6, Zenon
  <2>2. QED  BY <1>1, <1>4, <1>5, <2>1, FailKeeps
<1>7. CASE ~(c.finish \/ Answer!Content(c))
  <2>1. Answer!Queue(a)  BY <1>1, <1>7, Zenon
  <2>2. a \o <<>> = a /\ <<>> \in Seq(Plain)
    <3> DEFINE u == Answer!Usage(n)
               w == [kind |-> "failed"]
    <3>1. a \in {<<>>, <<u>>, <<w>>}  BY <1>3 DEF Answer!Fail, Answer!Event
    <3> DEFINE V == {u, w}
    <3>2. u \in V /\ w \in V  OBVIOUS
    <3> HIDE DEF a, u, w, V
    <3>3. <<u>> \in Seq(V) /\ <<w>> \in Seq(V) /\ <<>> \in Seq(V)  BY <3>2
    <3>4. a \in Seq(V)  BY <3>1, <3>3
    <3>5. QED  BY <3>4
  <2> HIDE DEF a, n
  <2>3. /\ May(a) /\ ~Holds(a, "call") /\ ~Holds(a, "finished")
        /\ Holds(a, "usage") => a = <<Answer!Usage(n)>>
    <3> DEFINE b == <<>>
    <3>1. b \in Seq(Plain) /\ a \o b = a  BY <2>2
    <3> HIDE DEF b
    <3>2. /\ May(a \o b) /\ ~Holds(a \o b, "call") /\ ~Holds(a \o b, "finished")
          /\ Holds(a \o b, "usage") => a = <<Answer!Usage(n)>>
      BY <1>2, <1>3, <3>1, PlainMay DEF ResponseInv
    <3>3. QED  BY <3>1, <3>2
  <2>4. (reported => reported') /\ (Holds(a, "usage") => reported')  BY <1>1, <1>3, <2>3
  <2>5. OrderInv' /\ RoundInv'  BY <1>1, <1>4, <2>1, <2>3, <2>4, QueueKeepsOrder DEF ResponseInv
  <2>6. FragmentsFit'
    <3>1. FragmentsFit  BY <1>1, <1>2 DEF ResponseInv, FragmentInv
    <3>2. \A i : ~Bears(c, i)  BY <1>7 DEF Answer!Content, Answer!Fragment, Bears
    <3>3. ASSUME NEW i \in {1, 2} PROVE Answer!Carried(i)' = Answer!Carried(i)
      BY <1>1, <1>2, <3>2, ChunkKinds, CarriedNext
    <3>4. QED  BY <1>1, <3>1, <3>3 DEF FragmentsFit
  <2>7. FragmentInv'  BY <1>1, <1>4, <1>5, <2>1, <2>3, <2>6, QueueKeepsCalls
  <2>8. QED  BY <2>5, <2>7 DEF ResponseInv
<1>8. QED  BY <1>6, <1>7

\* The calls are handed over whole, or the response is malformed.
LEMMA GenericEndsStep ==
  ASSUME ResponseInv, Answer!GenericEnds
  PROVE  ResponseInv'
<1> DEFINE good == reason /\ \A k \in DOMAIN Answer!Assembled : fragments[Answer!Assembled[k]].id # Absent
           calls == [k \in DOMAIN Answer!Assembled |->
                       Answer!Call(Answer!Assembled[k], fragments[Answer!Assembled[k]].arguments)]
           e == [kind |-> "finished"]
           events == calls \o <<e>>
<1>1. /\ Answer!Polled /\ adapter = "generic"
      /\ Answer!Queue(IF good THEN events ELSE Answer!Fail)
      /\ reason' = FALSE
      /\ UNCHANGED <<adapter, native, reported, presence, lifecycle, delivered, settled>>
  BY DEF Answer!GenericEnds, Answer!Event
<1>2. native \in Seq(Items) /\ terminal = FALSE /\ FragmentsFit /\ ~Holds(Said, "call")
  BY <1>1 DEF ResponseInv, FragmentInv, Answer!Polled
<1>3. {reason', reported', presence'} \subseteq BOOLEAN  BY <1>1 DEF ResponseInv, FragmentInv
<1>4. CASE ~good
  <2>1. Answer!Queue(Answer!Fail)  BY <1>1, <1>4, Zenon
  <2>2. QED  BY <1>1, <1>2, <1>3, <2>1, FailKeeps
<1>5. CASE good
  <2>1. Answer!Queue(events)  BY <1>1, <1>5, Zenon
  <2>2. Answer!Assembled = Carrying
    <3>1. {i \in Answer!Indexes : fragments[i].seen} = {i \in Answer!Indexes : Answer!Carried(i) # <<>>}
      BY <1>2 DEF FragmentsFit, Answer!Indexes
    <3>2. QED  BY <3>1, ResponseWithin DEF Answer!Assembled, Carrying
  <2>3. Carrying \in Seq({1, 2})
    <3>1. <<1, 2>> \in Seq({1, 2})  OBVIOUS
    <3>2. QED  BY <3>1, WithinType DEF Carrying
  <2>4. calls = Expected
    <3>1. \A k \in DOMAIN Carrying : fragments[Carrying[k]].arguments = Answer!Carried(Carrying[k])
      BY <1>2, <2>3 DEF FragmentsFit
    <3>2. QED  BY <2>2, <3>1 DEF Expected
  <2>5. /\ Len(calls) = Len(Carrying) /\ calls \in Seq(Events)
        /\ \A i \in 1 .. Len(calls) : calls[i].kind = "call"
    <3>1. \A k \in 1 .. Len(Carrying) : Carrying[k] \in {1, 2}  BY <2>3
    <3>2. \A i \in {1, 2} : fragments[i].arguments \in Seq(Nat)  BY <1>2 DEF FragmentsFit, Assembling
    <3>3. \A i \in {1, 2} : /\ Answer!Call(i, fragments[i].arguments) \in Events
                            /\ Answer!Call(i, fragments[i].arguments).kind = "call"
      BY <3>2 DEF Answer!Call, Events
    <3>4. calls = [k \in 1 .. Len(Carrying) |-> Answer!Call(Carrying[k], fragments[Carrying[k]].arguments)]
      BY <2>2, <2>3
    <3>5. QED  BY <2>3, <3>1, <3>3, <3>4
  <2> HIDE DEF calls
  <2>6. e \in Events /\ e.kind = "finished" /\ Ending(e)  BY DEF Events, Facts, Ending
  <2> DEFINE f == <<e>>
  <2>7. /\ f \in Seq(Events) /\ Len(f) = 1 /\ f[1] = e  BY <2>6
  <2> HIDE DEF f, e
  <2> DEFINE c == calls \o f
             n == Len(calls)
  <2>8. /\ c \in Seq(Events) /\ Len(c) = n + 1 /\ n \in Nat /\ c[n + 1] = e
        /\ \A i \in 1 .. n : c[i] = calls[i]
    <3>1. 1 \in 1 .. Len(f)  BY <2>7
    <3>2. QED  BY <2>5, <2>7, <3>1, SaidNext
  <2> HIDE DEF c, n
  <2>9. \A i \in 1 .. n + 1 : \/ i # n + 1 /\ c[i].kind = "call"
                              \/ i = n + 1 /\ c[i].kind = "finished"
    BY <2>5, <2>6, <2>8 DEF n
  <2>10. ~Holds(c, "started") /\ ~Holds(c, "usage") /\ Counts(c) /\ Ends(c, TRUE) /\ c # <<>>
    BY <2>8, <2>9 DEF Holds, Counts, Ends, Ending
  <2>11. events = c  BY DEF c, f, e
  <2> HIDE DEF events
  <2>12. May(events)  BY <2>8, <2>10, <2>11 DEF May
  <2>13. Answer!UpToTerminal(events) = events  BY <2>8, <2>10, <2>11, UpTo
  <2>14. /\ pending' = events /\ Said' = delivered \o events /\ Said = delivered
         /\ terminal' = \E i \in DOMAIN events : Ending(events[i])
    <3>1. /\ pending' = Answer!UpToTerminal(events) /\ Said = delivered
          /\ Said' = delivered \o pending'
      BY <1>1, <2>1, <2>12, QueuedNext DEF ResponseInv
    <3>2. terminal' = \E i \in DOMAIN events : Ending(events[i])
      BY <1>1, <2>1, <2>12, QueuedNext DEF ResponseInv
    <3>3. QED  BY <2>13, <3>1, <3>2
  <2>15. terminal' = TRUE
    <3>1. n + 1 \in DOMAIN c /\ Ending(c[n + 1])  BY <2>8, <2>9 DEF Ending
    <3>2. QED  BY <2>11, <2>14, <3>1
  <2>16. OrderInv' /\ RoundInv'
    BY <1>1, <2>1, <2>10, <2>11, <2>12, <2>15, QueueKeepsOrder DEF ResponseInv
  <2>17. CallsOf(Said') = Expected
    <3>1. ~Holds(delivered, "call") /\ delivered \in Seq(Events)
      BY <1>2, <2>14 DEF ResponseInv, OrderInv
    <3>2. CallsOf(delivered \o (calls \o <<e>>)) = calls
      BY <2>5, <2>6, <3>1, CallsBetween
    <3>3. Said' = delivered \o (calls \o <<e>>)  BY <2>11, <2>14 DEF c, f
    <3>4. QED  BY <2>4, <3>2, <3>3 DEF calls
  <2>18. Expected' = Expected  BY <1>1 DEF Expected, Carrying, Answer!Carried
  <2>19. CallsOf(Said)' = Expected'  BY <2>17, <2>18 DEF CallsOf
  <2>20. FragmentInv'  BY <1>1, <1>2, <1>3, <2>15, <2>19 DEF FragmentInv
  <2>21. QED  BY <2>16, <2>20 DEF ResponseInv
<1>6. QED  BY <1>4, <1>5

LEMMA NoneOrOne ==
  ASSUME NEW e \in Events, NEW s \in {<<>>, <<e>>}
  PROVE  /\ s \in Seq(Events) /\ Len(s) \in {0, 1}
         /\ \A i \in 1 .. Len(s) : i = 1 /\ s[i] = e
<1>1. CASE s = <<>>  BY <1>1
<1>2. CASE s = <<e>>  BY <1>2
<1>3. QED  BY <1>1, <1>2

\* What one event of the OpenRouter stream adds.
LEMMA TranslateMay ==
  ASSUME NEW e \in Answer!StreamEvents, NEW n \in Nat, ~Holds(delivered, "usage")
  PROVE  LET events == Answer!Translate(e, n)
         IN  /\ May(events)
             /\ Holds(events, "usage") \/ e.kind = "done" => \E i \in DOMAIN events : Ending(events[i])
<1> DEFINE events == Answer!Translate(e, n)
           u == Answer!Usage(n)
           x == [kind |-> "failed"]
           y == [kind |-> "finished"]
           c == Answer!Call(1, <<n>>)
<1>1. /\ u \in Events /\ u.kind = "usage" /\ c \in Events /\ c.kind = "call"
      /\ x \in Events /\ x.kind = "failed" /\ y \in Events /\ y.kind = "finished"
      /\ Answer!Fail = <<x>> /\ <<Answer!Event("finished")>> = <<y>>
  BY DEF Answer!Usage, Answer!Call, Answer!Fail, Answer!Event, Events, Facts
<1>2. CASE e.kind # "done"
  <2>1. events = <<>> \/ \E v \in Events : events = <<v>> /\ v.kind \in {"text", "reasoning", "failed"}
    <3>1. e.kind \in {"text", "reasoning", "details", "unsupported"}
      BY <1>2 DEF Answer!StreamEvents
    <3>2. CASE e.kind \in {"text", "reasoning"}
      <4>1. events = IF e.blank THEN Answer!Fail ELSE <<Answer!Event(e.kind)>>
        BY <3>2 DEF Answer!Translate
      <4>2. Answer!Event(e.kind) \in Events /\ Answer!Event(e.kind).kind = e.kind
        BY <3>2 DEF Answer!Event, Events, Facts
      <4> HIDE DEF events, x
      <4>3. QED  BY <1>1, <3>2, <4>1, <4>2
    <3>3. CASE e.kind = "details"  BY <3>3 DEF Answer!Translate
    <3>4. CASE e.kind = "unsupported"
      <4>1. events = Answer!Fail  BY <3>4 DEF Answer!Translate
      <4> HIDE DEF events, x
      <4>2. QED  BY <1>1, <4>1
    <3>5. QED  BY <3>1, <3>2, <3>3, <3>4
  <2> HIDE DEF events
  <2>2. CASE events = <<>>
    <3>1. events \in Seq(Events) /\ Len(events) = 0  BY <2>2
    <3>2. May(events) /\ ~Holds(events, "usage")  BY <3>1 DEF May, Holds, Counts
    <3>3. QED  BY <1>2, <3>2 DEF events
  <2>3. ASSUME NEW v \in Events, events = <<v>>, v.kind \in {"text", "reasoning", "failed"}
        PROVE  May(events) /\ ~Holds(events, "usage")
    BY <2>3, OneMay
  <2>4. QED  BY <1>2, <2>1, <2>2, <2>3 DEF events
<1>3. CASE e.kind = "done"
  <2>1. e.calls \in {<<>>, <<"call">>, <<"bad">>} /\ e.usage \in {"absent", "valid", "invalid"}
    BY <1>3 DEF Answer!StreamEvents, Answer!Reports
  <2>2. events = Answer!DoneEvents(e, n)  BY <1>3 DEF Answer!Translate
  <2>3. CASE e.calls = <<"bad">>
    <3>1. events = Answer!Fail  BY <2>2, <2>3 DEF Answer!DoneEvents
    <3> HIDE DEF events
    <3>2. QED  BY <3>1, FailMay DEF events
  <2>4. CASE e.calls # <<"bad">>
    <3> DEFINE q == [k \in DOMAIN e.calls |-> Answer!Call(k, <<n>>)]
               r == Answer!If(e.usage = "valid", <<u>>)
               t == Answer!If(e.usage = "invalid", Answer!Fail)
               z == <<y>>
    <3>1. events = ((q \o r) \o t) \o z
      <4>1. e.calls # <<"bad">>  BY <2>4
      <4>2. Answer!Event("finished") = y  BY DEF Answer!Event
      <4>3. QED  BY <2>2, <4>1, <4>2 DEF Answer!DoneEvents
    <3>2. q \in {<<>>, <<c>>}
      <4>1. CASE e.calls = <<>>
        <5>1. DOMAIN e.calls = {}  BY <4>1
        <5>2. q = <<>>  BY <5>1
        <5>3. QED  BY <5>2
      <4>2. CASE e.calls = <<"call">>
        <5>1. DOMAIN e.calls = 1 .. 1  BY <4>2
        <5>2. q = [k \in 1 .. 1 |-> Answer!Call(k, <<n>>)]  BY <5>1
        <5>3. q = <<c>>  BY <5>2
        <5>4. QED  BY <5>3
      <4>3. QED  BY <2>1, <2>4, <4>1, <4>2
    <3>3. r \in {<<>>, <<u>>}  BY DEF Answer!If
    <3>4. t \in {<<>>, <<x>>}  BY <1>1 DEF Answer!If
    <3> HIDE DEF events, q, r, t, u, x, y, c
    <3>5. q \in Seq(Events) /\ r \in Seq(Events) /\ t \in Seq(Events) /\ z \in Seq(Events)
      <4>1. q \in Seq(Events) /\ r \in Seq(Events) /\ t \in Seq(Events)
        BY <1>1, <3>2, <3>3, <3>4, NoneOrOne
      <4>2. QED  BY <1>1, <4>1
    <3>6. /\ Len(q) \in {0, 1} /\ \A i \in 1 .. Len(q) : i = 1 /\ q[i].kind = "call"
          /\ Len(r) \in {0, 1} /\ \A i \in 1 .. Len(r) : i = 1 /\ r[i].kind = "usage"
          /\ Len(t) \in {0, 1} /\ \A i \in 1 .. Len(t) : i = 1 /\ t[i].kind = "failed"
          /\ Len(z) = 1 /\ z[1].kind = "finished"
      <4>1. Len(q) \in {0, 1} /\ \A i \in 1 .. Len(q) : i = 1 /\ q[i].kind = "call"
        <5>1. Len(q) \in {0, 1} /\ \A i \in 1 .. Len(q) : i = 1 /\ q[i] = c
          BY <1>1, <3>2, NoneOrOne
        <5>2. QED  BY <1>1, <5>1
      <4>2. Len(r) \in {0, 1} /\ \A i \in 1 .. Len(r) : i = 1 /\ r[i].kind = "usage"
        <5>1. Len(r) \in {0, 1} /\ \A i \in 1 .. Len(r) : i = 1 /\ r[i] = u
          <6>1. u \in Events /\ r \in {<<>>, <<u>>}  BY <1>1, <3>3
          <6>2. QED  BY <6>1, NoneOrOne, Zenon
        <5>2. QED  BY <1>1, <5>1
      <4>3. Len(t) \in {0, 1} /\ \A i \in 1 .. Len(t) : i = 1 /\ t[i].kind = "failed"
        <5>1. Len(t) \in {0, 1} /\ \A i \in 1 .. Len(t) : i = 1 /\ t[i] = x
          BY <1>1, <3>4, NoneOrOne
        <5>2. QED  BY <1>1, <5>1
      <4>4. Len(z) = 1 /\ z[1] = y  OBVIOUS
      <4>5. QED  BY <1>1, <4>1, <4>2, <4>3, <4>4
    <3> HIDE DEF z
    <3> DEFINE qr == q \o r
               qrt == qr \o t
    <3>7. qr \in Seq(Events) /\ qrt \in Seq(Events)  BY <3>5
    <3>8. /\ \A i \in 1 .. Len(qr) : qr[i].kind \in {"call", "usage"} /\ (qr[i].kind = "usage" <=> i = Len(q) + 1)
          /\ Len(qr) = Len(q) + Len(r)
      <4>1. Len(qr) = Len(q) + Len(r)  BY <3>5
      <4>2. ASSUME NEW i \in 1 .. Len(q) + Len(r)
            PROVE  qr[i].kind \in {"call", "usage"} /\ (qr[i].kind = "usage" <=> i = Len(q) + 1)
        <5>1. \/ i \in 1 .. Len(q) /\ qr[i] = q[i]
              \/ i - Len(q) \in 1 .. Len(r) /\ qr[i] = r[i - Len(q)]
          BY <3>5, SaidNext
        <5> HIDE DEF qr
        <5>2. QED  BY <3>5, <3>6, <5>1
      <4>3. QED  BY <4>1, <4>2
    <3> HIDE DEF qr
    <3>9. /\ \A i \in 1 .. Len(qrt) : /\ qrt[i].kind \in {"call", "usage", "failed"}
                                      /\ qrt[i].kind = "usage" => i = Len(q) + 1
          /\ Len(qrt) = Len(qr) + Len(t)
      <4>1. Len(qrt) = Len(qr) + Len(t)  BY <3>5, <3>7
      <4>2. ASSUME NEW i \in 1 .. Len(qr) + Len(t)
            PROVE  qrt[i].kind \in {"call", "usage", "failed"} /\ (qrt[i].kind = "usage" => i = Len(q) + 1)
        <5>1. \/ i \in 1 .. Len(qr) /\ qrt[i] = qr[i]
              \/ i - Len(qr) \in 1 .. Len(t) /\ qrt[i] = t[i - Len(qr)]
          BY <3>5, <3>7, SaidNext
        <5> HIDE DEF qrt
        <5>2. QED  BY <3>5, <3>6, <3>8, <5>1
      <4>3. QED  BY <4>1, <4>2
    <3> HIDE DEF qrt
    <3>10. events = qrt \o z  BY <3>1 DEF qr, qrt
    <3>11. /\ events \in Seq(Events) /\ Len(events) = Len(qrt) + 1 /\ Len(qrt) \in Nat
           /\ events[Len(qrt) + 1] = z[1]
           /\ \A i \in 1 .. Len(qrt) : events[i] = qrt[i]
      <4>1. 1 \in 1 .. Len(z) /\ Len(z) = 1  BY <3>6
      <4> DEFINE w == qrt \o z
      <4>2. /\ w \in Seq(Events) /\ Len(w) = Len(qrt) + Len(z) /\ Len(qrt) \in Nat
            /\ \A i \in 1 .. Len(qrt) : w[i] = qrt[i]
            /\ \A i \in 1 .. Len(z) : w[Len(qrt) + i] = z[i]
        BY <3>5, <3>7, SaidNext
      <4> HIDE DEF w
      <4>3. QED  BY <3>10, <4>1, <4>2 DEF w
    <3>12. \A i \in 1 .. Len(qrt) + 1 : i \in 1 .. Len(qrt) \/ i = Len(qrt) + 1  BY <3>11
    <3>13. \A i \in 1 .. Len(qrt) + 1 : /\ events[i].kind # "started"
                                        /\ events[i].kind = "usage" => i = Len(q) + 1
      BY <3>6, <3>9, <3>11, <3>12
    <3>14. May(events)  BY <3>11, <3>13 DEF May, Holds, Counts
    <3>15. Len(qrt) + 1 \in DOMAIN events /\ Ending(events[Len(qrt) + 1])
      BY <3>6, <3>11 DEF Ending
    <3>16. QED  BY <3>14, <3>15 DEF events
  <2>5. QED  BY <2>3, <2>4
<1>4. QED  BY <1>2, <1>3

LEMMA StreamEventStep ==
  ASSUME ResponseInv, NEW e \in Answer!StreamEvents, Answer!AcceptStreamEvent(e)
  PROVE  ResponseInv'
<1> DEFINE n == Len(native) + 1
           events == Answer!Translate(e, n)
<1>1. /\ Answer!Polled /\ adapter = "openrouter" /\ native' = Append(native, e)
      /\ Answer!Queue(events)
      /\ UNCHANGED <<adapter, fragments, reason, reported, presence, lifecycle, delivered, settled>>
  BY DEF Answer!AcceptStreamEvent, Answer!translator
<1>2. /\ n \in Nat /\ native \in Seq(Items) /\ terminal = FALSE /\ Said = delivered
      /\ {reason', reported', presence'} \subseteq BOOLEAN
  <2>1. pending = <<>> /\ delivered \in Seq(Events) /\ terminal = FALSE
    BY <1>1 DEF ResponseInv, OrderInv, Answer!Polled
  <2>2. delivered \o <<>> = delivered  BY <2>1
  <2>3. QED  BY <1>1, <2>1, <2>2 DEF ResponseInv, FragmentInv, Said
<1>3. ~Holds(delivered, "usage")  BY <1>1, <1>2 DEF ResponseInv, OrderInv
<1>4. /\ May(events)
      /\ Holds(events, "usage") \/ e.kind = "done" => \E i \in DOMAIN events : Ending(events[i])
  BY <1>2, <1>3, TranslateMay
<1> HIDE DEF events
<1>5. terminal' = \E i \in DOMAIN events : Ending(events[i])
  BY <1>1, <1>4, QueuedNext DEF ResponseInv
<1>6. e \in Items  BY DEF Items
<1>7. /\ native' \in Seq(Items)
      /\ ~terminal' => \A i \in DOMAIN native' : native'[i].kind # "done"
  <2>1. ~terminal' => e.kind # "done"  BY <1>4, <1>5
  <2>2. QED  BY <1>1, <1>2, <1>6, <2>1, AppendTyped
<1>8. Holds(events, "usage") => terminal'  BY <1>4, <1>5
<1>9. OrderInv' /\ RoundInv'
  BY <1>1, <1>4, <1>7, <1>8, QueueKeepsOrder DEF ResponseInv
<1>10. FragmentInv'
  BY <1>1, <1>2, <1>7 DEF FragmentInv
<1>11. QED  BY <1>9, <1>10 DEF ResponseInv

\* The round reads one event.
LEMMA DriveStep ==
  ASSUME ResponseInv, Answer!DriveRound
  PROVE  ResponseInv'
<1> DEFINE e == Head(pending)
           n == Len(delivered)
<1>1. /\ settled = "none" /\ pending # <<>> /\ settled' = Answer!EndedBy(e)
      /\ delivered' = Append(delivered, e) /\ pending' = Tail(pending)
      /\ lifecycle' = [started |-> TRUE, terminal |-> e.kind = "finished",
                       usage |-> lifecycle.usage \/ e.kind = "usage"]
      /\ UNCHANGED <<adapter, native, terminal, fragments, reason, reported, presence>>
  BY DEF Answer!DriveRound, Answer!translator
<1>2. /\ delivered \in Seq(Events) /\ pending \in Seq(Events)
      /\ lifecycle = [started |-> delivered # <<>>, terminal |-> FALSE,
                      usage |-> Holds(delivered, "usage")]
      /\ \A i \in 1 .. n : ~Ending(delivered[i])
  BY <1>1 DEF ResponseInv, OrderInv, RoundInv
<1>3. /\ e \in Events /\ delivered' \in Seq(Events) /\ pending' \in Seq(Events)
      /\ Len(delivered') = n + 1 /\ n \in Nat /\ delivered'[n + 1] = e
      /\ \A i \in 1 .. n : delivered'[i] = delivered[i]
      /\ Said' = Said
  <2>1. e \in Events /\ Tail(pending) \in Seq(Events) /\ pending = <<e>> \o Tail(pending)
    BY <1>1, <1>2
  <2> HIDE DEF e
  <2>2. <<e>> \in Seq(Events) /\ Append(delivered, e) = delivered \o <<e>>
    BY <1>2, <2>1, AppendIsConcat
  <2>3. (delivered \o <<e>>) \o Tail(pending) = delivered \o (<<e>> \o Tail(pending))
    <3> DEFINE r == Tail(pending)
               f == <<e>>
    <3>1. r \in Seq(Events) /\ f \in Seq(Events)  BY <2>1, <2>2
    <3> HIDE DEF r, f
    <3>2. delivered \in Seq(Events)  BY <1>2
    <3>3. (delivered \o f) \o r = delivered \o (f \o r)
      BY ONLY <3>1, <3>2, ConcatAssociative
    <3>4. QED  BY <3>3 DEF r, f
  <2>4. Said' = Said  BY <1>1, <2>1, <2>2, <2>3 DEF Said
  <2>5. QED  BY <1>1, <1>2, <2>1, <2>4
<1>4. n + 1 \in 1 .. Len(Said) /\ Said[n + 1] = e /\ \A i \in 1 .. n : Said[i] = delivered[i]
  <2>1. Len(pending) \in Nat /\ Len(pending) > 0 /\ pending[1] = e /\ 1 \in 1 .. Len(pending)
    BY <1>1, <1>2
  <2> HIDE DEF e, n
  <2>2. /\ Len(Said) = n + Len(pending) /\ \A i \in 1 .. n : Said[i] = delivered[i]
        /\ Said[n + 1] = pending[1]
    BY <1>2, <2>1, SaidNext DEF Said, n
  <2>3. QED  BY <1>3, <2>1, <2>2
<1>5. \A i \in 1 .. n : i \in 1 .. Len(Said)
  <2>1. Len(Said) \in Nat  BY <1>2, SaidNext DEF Said
  <2>2. QED  BY <1>3, <1>4, <2>1
<1> HIDE DEF e
<1>6. e.kind = "started" <=> delivered = <<>>
  <2>1. e.kind = "started" <=> n + 1 = 1  BY <1>4 DEF ResponseInv, OrderInv, Starts
  <2>2. n = 0 <=> delivered = <<>>  BY <1>2
  <2>3. QED  BY <1>3, <2>1, <2>2
<1>7. e.kind = "usage" => ~Holds(delivered, "usage")
  <2>1. SUFFICES ASSUME e.kind = "usage", NEW i \in 1 .. n, delivered[i].kind = "usage"
                 PROVE  FALSE
    BY DEF Holds, n
  <2>2. i = n + 1  BY <1>4, <1>5, <2>1 DEF ResponseInv, OrderInv, Counts
  <2>3. QED  BY <1>3, <2>2
<1>8. Answer!Accepts(e)
  <2>1. CASE e.kind = "started"  BY <1>2, <1>6, <2>1 DEF Answer!Accepts
  <2>2. CASE e.kind = "usage"  BY <1>2, <1>6, <1>7, <2>2 DEF Answer!Accepts
  <2>3. CASE e.kind \notin {"started", "usage"}  BY <1>2, <1>6, <2>3 DEF Answer!Accepts
  <2>4. QED  BY <2>1, <2>2, <2>3
<1>9. settled' = IF e.kind = "failed" THEN "failed"
                 ELSE IF e.kind = "finished" THEN (IF Answer!Calls = <<>> THEN "finished" ELSE "calls")
                 ELSE "none"
  <2>1. CASE e.kind = "failed"  BY <1>1, <2>1 DEF Answer!EndedBy, e
  <2>2. CASE e.kind = "finished"  BY <1>1, <1>8, <2>2 DEF Answer!EndedBy, e
  <2>3. CASE e.kind \notin {"failed", "finished"}  BY <1>1, <1>8, <2>3 DEF Answer!EndedBy, e
  <2>4. QED  BY <2>1, <2>2, <2>3
<1>10. OrderInv'
  <2>1. Starts(Said)' /\ Ends(Said, terminal)' /\ Counts(Said)'
    <3>1. Starts(Said) /\ Ends(Said, terminal) /\ Counts(Said)  BY DEF ResponseInv, OrderInv
    <3> HIDE DEF Said
    <3>2. QED  BY <1>1, <1>3, <3>1 DEF Starts, Ends, Ending, Counts
  <2>2. (Holds(Said, "usage") /\ ~terminal => adapter = "generic" /\ reported)'
    <3>1. Holds(Said, "usage") /\ ~terminal => adapter = "generic" /\ reported
      BY DEF ResponseInv, OrderInv
    <3> HIDE DEF Said
    <3>2. QED  BY <1>1, <1>3, <3>1 DEF Holds
  <2>3. terminal' \in BOOLEAN /\ (~terminal => \A i \in DOMAIN native : native[i].kind # "done")'
    BY <1>1 DEF ResponseInv, OrderInv
  <2>4. QED  BY <1>3, <2>1, <2>2, <2>3 DEF OrderInv
<1>11. RoundInv'
  <2>1. settled' \in {"none", "finished", "calls", "failed", "dropped"}  BY <1>9
  <2>2. settled' \in {"finished", "calls"} => e.kind = "finished"  BY <1>9
  <2>3. delivered' # <<>>  BY <1>1, <1>2
  <2>4. delivered'[Len(delivered')] = e  BY <1>3
  <2>5. ASSUME settled' = "none"
        PROVE  /\ lifecycle' = [started |-> delivered' # <<>>, terminal |-> FALSE,
                                usage |-> Holds(delivered', "usage")]
               /\ \A i \in 1 .. Len(delivered') : ~Ending(delivered'[i])
    <3>1. e.kind \notin {"failed", "finished"}  BY <1>9, <2>5
    <3>2. \A i \in 1 .. n + 1 : i \in 1 .. n \/ i = n + 1  BY <1>3
    <3>3. Holds(delivered', "usage") <=> Holds(delivered, "usage") \/ e.kind = "usage"
      <4>1. n + 1 \in 1 .. n + 1 /\ \A i \in 1 .. n : i \in 1 .. n + 1  BY <1>3
      <4>2. QED  BY <1>3, <3>2, <4>1 DEF Holds, n
    <3>4. \A i \in 1 .. n + 1 : ~Ending(delivered'[i])  BY <1>2, <1>3, <3>1, <3>2 DEF Ending
    <3>5. lifecycle' = [started |-> TRUE, terminal |-> FALSE,
                        usage |-> Holds(delivered, "usage") \/ e.kind = "usage"]
      BY <1>1, <1>2, <3>1 DEF e
    <3>6. /\ (Holds(delivered, "usage") \/ e.kind = "usage") = Holds(delivered', "usage")
          /\ TRUE = (delivered' # <<>>)
      BY <2>3, <3>3, Zenon DEF Holds
    <3>7. lifecycle' = [started |-> delivered' # <<>>, terminal |-> FALSE,
                        usage |-> Holds(delivered', "usage")]
      BY <3>5, <3>6, Zenon
    <3>8. QED  BY <1>3, <3>4, <3>7
  <2>6. QED
    <3>1. (delivered[Len(delivered)])' = delivered'[Len(delivered')]  OBVIOUS
    <3>2. (Holds(delivered, "usage"))' <=> Holds(delivered', "usage")  BY DEF Holds
    <3>3. \A i : Ending(delivered[i])' <=> Ending(delivered'[i])  BY DEF Ending
    <3>4. QED  BY <2>1, <2>2, <2>3, <2>4, <2>5 DEF RoundInv, Holds, Ending
<1>12. FragmentInv'
  <2>1. FragmentInv  BY DEF ResponseInv
  <2>2. (FragmentsFit <=> FragmentsFit') /\ Expected' = Expected
    BY <1>1 DEF FragmentsFit, Expected, Carrying, Answer!Carried
  <2> HIDE DEF Said
  <2>3. CallsOf(Said)' = CallsOf(Said) /\ (Holds(Said, "call")' <=> Holds(Said, "call"))
        /\ (Said[Len(Said)])' = Said[Len(Said)]
    BY <1>3 DEF CallsOf, Holds
  <2>4. QED  BY <1>1, <2>1, <2>2, <2>3 DEF FragmentInv
<1>13. QED  BY <1>10, <1>11, <1>12 DEF ResponseInv

LEMMA ResponseStays ==
  ASSUME ResponseInv, UNCHANGED <<adapter, native, pending, terminal, fragments, reason, reported,
                                presence, lifecycle, delivered>>,
         settled' = settled \/ settled' = "dropped"
  PROVE  ResponseInv'
<1>1. UNCHANGED Said  BY DEF Said
<1>2. OrderInv'  BY <1>1 DEF ResponseInv, OrderInv, Starts, Ends, Ending, Counts, Holds
<1>3. RoundInv'
  <2>1. CASE settled' = settled  BY <2>1 DEF ResponseInv, RoundInv, Holds, Ending
  <2>2. CASE settled' = "dropped"  BY <2>2 DEF RoundInv
  <2>3. QED  BY <2>1, <2>2
<1>4. UNCHANGED Expected /\ FragmentsFit' = FragmentsFit
  BY DEF Expected, Carrying, FragmentsFit, Answer!Carried
<1>5. FragmentInv'  BY <1>1, <1>4 DEF ResponseInv, FragmentInv, CallsOf, Holds
<1>6. QED  BY <1>2, <1>3, <1>5 DEF ResponseInv

LEMMA ResponseInit == ASSUME Answer!Init PROVE ResponseInv
<1> DEFINE e == [kind |-> "started"]
<1>1. /\ adapter \in {"generic", "openrouter"} /\ native = <<>> /\ pending = <<e>> /\ terminal = FALSE
      /\ reason = FALSE /\ reported = FALSE /\ presence = FALSE
      /\ lifecycle = [started |-> FALSE, terminal |-> FALSE, usage |-> FALSE]
      /\ delivered = <<>> /\ settled = "none"
      /\ \A i \in {1, 2} : fragments[i] = [seen |-> FALSE, id |-> Absent, arguments |-> <<>>]
  BY DEF Answer!Init, Answer!Started, Answer!Event, Answer!NoFragments, Answer!Indexes
<1>2. e \in Events /\ e.kind = "started"  BY DEF Events, Facts
<1> HIDE DEF e
<1>3. <<e>> \in Seq(Events) /\ Len(<<e>>) = 1 /\ <<e>>[1] = e /\ <<>> \o <<e>> = <<e>>  BY <1>2
<1>4. Said = <<e>> /\ Len(Said) = 1 /\ Said[1] = e  BY <1>1, <1>3 DEF Said
<1>5. OrderInv
  <2>1. \A i \in 1 .. 1 : i = 1  OBVIOUS
  <2>2. Starts(Said) /\ Ends(Said, FALSE) /\ Counts(Said) /\ ~Holds(Said, "usage")
    BY <1>2, <1>3, <1>4, <2>1 DEF Starts, Ends, Counts, Holds, Ending
  <2>3. <<>> \in Seq(Events) /\ DOMAIN native = {}  BY <1>1
  <2>4. QED  BY <1>1, <1>3, <2>2, <2>3 DEF OrderInv
<1>6. RoundInv
  <2>1. Len(delivered) = 0 /\ ~Holds(delivered, "usage")  BY <1>1 DEF Holds
  <2>2. FALSE = (delivered # <<>>) /\ FALSE = Holds(delivered, "usage")  BY <1>1, <2>1
  <2>3. lifecycle = [started |-> delivered # <<>>, terminal |-> FALSE,
                     usage |-> Holds(delivered, "usage")]
    BY <1>1, <2>2, Zenon
  <2>4. \A i \in 1 .. Len(delivered) : ~Ending(delivered[i])  BY <2>1
  <2>5. settled = "none" /\ settled \notin {"finished", "calls"}  BY <1>1
  <2>6. QED  BY <2>3, <2>4, <2>5, Zenon DEF RoundInv
<1>7. FragmentInv
  <2>1. ~Holds(Said, "call")
    <3>1. \A i \in 1 .. 1 : i = 1  OBVIOUS
    <3>2. QED  BY <1>2, <1>4, <3>1 DEF Holds
  <2>2. ASSUME NEW i \in {1, 2} PROVE Answer!Carried(i) = <<>>
    <3> DEFINE q == [n \in DOMAIN native |-> n]
               T == {n \in DOMAIN native : Bears(native[n], i)}
    <3>1. Answer!Carried(i) = Answer!Within(q, T)
      BY DEF Answer!Carried, Bears, Answer!Fragment
    <3>2. DOMAIN native = {}  BY <1>1
    <3>3. q = <<>> /\ <<>> \in Seq(Nat)  BY <3>2
    <3> HIDE DEF q, T
    <3>4. Within(<<>>, T) = <<>>  BY <3>3, WithinGrows
    <3>5. QED  BY <3>1, <3>3, <3>4, ResponseWithin
  <2>3. [seen |-> FALSE, id |-> Absent, arguments |-> <<>>] \in Assembling
    <3>1. <<>> \in Seq(Nat)  OBVIOUS
    <3>2. QED  BY <3>1 DEF Assembling
  <2>4. FragmentsFit  BY <1>1, <2>2, <2>3 DEF FragmentsFit
  <2>5. <<>> \in Seq(Items)  OBVIOUS
  <2>6. QED  BY <1>1, <2>1, <2>4, <2>5 DEF FragmentInv
<1>8. QED  BY <1>5, <1>6, <1>7 DEF ResponseInv

LEMMA ResponseStep ==
  ASSUME ResponseInv, [Answer!Next]_(Answer!vars)
  PROVE  ResponseInv'
<1>1. CASE UNCHANGED Answer!vars
  BY <1>1, ResponseStays DEF Answer!vars, Answer!translator
<1>2. CASE Answer!StreamFails
  <2>1. /\ Answer!Polled /\ native' = Append(native, Answer!NativeError) /\ Answer!Queue(Answer!Fail)
        /\ UNCHANGED <<adapter, fragments, reason, reported, presence, lifecycle, delivered, settled>>
    BY <1>2 DEF Answer!StreamFails, Answer!translator
  <2>2. native' \in Seq(Items) /\ {reason', reported', presence'} \subseteq BOOLEAN
    BY <2>1 DEF ResponseInv, FragmentInv, Items
  <2>3. QED  BY <2>1, <2>2, FailKeeps
<1>3. CASE Answer!OpenRouterEnds
  <2>1. /\ Answer!Polled /\ Answer!Queue(Answer!Fail)
        /\ UNCHANGED <<adapter, native, fragments, reason, reported, presence, lifecycle, delivered, settled>>
    BY <1>3 DEF Answer!OpenRouterEnds, Answer!translator
  <2>2. native' \in Seq(Items) /\ {reason', reported', presence'} \subseteq BOOLEAN
    BY <2>1 DEF ResponseInv, FragmentInv
  <2>3. QED  BY <2>1, <2>2, FailKeeps
<1>4. CASE Answer!DropStream
  BY <1>4, ResponseStays DEF Answer!DropStream, Answer!translator
<1>5. QED
  BY <1>1, <1>2, <1>3, <1>4, ChunkStep, TrailerStep, StreamEventStep, GenericEndsStep, DriveStep
  DEF Answer!Next

\* One end and no more in what was said, and each call with its own fragments.
LEMMA ResponsesAreWhole ==
  ASSUME ResponseInv
  PROVE  Answer!TypeOK /\ Answer!StreamsKeepTheirOrder /\ Answer!CallsCarryTheirFragments
<1>1. Answer!TypeOK
  <2>1. \A i \in DOMAIN native : native[i] \in Items  BY DEF ResponseInv, FragmentInv
  <2>2. {reason, reported, presence, terminal} \subseteq BOOLEAN
    BY DEF ResponseInv, FragmentInv, OrderInv
  <2>3. QED  BY <2>1, <2>2 DEF Answer!TypeOK, ResponseInv, RoundInv, Items
<1>2. /\ Said \in Seq(Events) /\ Len(Said) \in Nat /\ Said # <<>> /\ DOMAIN Said = 1 .. Len(Said)
      /\ Len(Said) \in 1 .. Len(Said)
  <2>1. Said \in Seq(Events) /\ Said # <<>>
    BY SaidNext DEF Said, ResponseInv, OrderInv, Starts
  <2>2. QED  BY <2>1
<1>3. Answer!StreamsKeepTheirOrder
  <2>1. ASSUME terminal
        PROVE  Answer!Cardinality({i \in DOMAIN (delivered \o pending) :
                                     Answer!IsTerminal((delivered \o pending)[i])}) = 1
    <3> DEFINE X == {i \in DOMAIN Said : Answer!IsTerminal(Said[i])}
    <3>1. \A i \in 1 .. Len(Said) : Answer!IsTerminal(Said[i]) <=> i = Len(Said)
      BY <2>1 DEF ResponseInv, OrderInv, Ends, Ending, Answer!IsTerminal
    <3>2. X = {Len(Said)}  BY <1>2, <3>1, Zenon
    <3>3. Cardinality({Len(Said)}) = 1  BY FS_Singleton
    <3>4. Answer!Cardinality(X) = Cardinality(X)  BY DEF Answer!Cardinality, Cardinality
    <3> HIDE DEF X
    <3>5. Answer!Cardinality(X) = 1  BY <3>2, <3>3, <3>4
    <3>6. QED  BY <3>5 DEF X, Said
  <2>2. settled # "invalid_order"  BY DEF ResponseInv, RoundInv
  <2>3. (\E i \in DOMAIN native : native[i].kind = "done") => terminal
    BY DEF ResponseInv, OrderInv
  <2>4. QED  BY <2>1, <2>2, <2>3 DEF Answer!StreamsKeepTheirOrder
<1>4. ASSUME adapter = "generic", settled \in {"finished", "calls"} PROVE CallsOf(delivered) = Expected
  <2>1. /\ delivered \in Seq(Events) /\ pending \in Seq(Events) /\ delivered # <<>>
        /\ delivered[Len(delivered)].kind = "finished"
    BY <1>4 DEF ResponseInv, OrderInv, RoundInv
  <2>2. Len(delivered) \in Nat /\ Len(delivered) \in 1 .. Len(delivered) /\ Len(pending) \in Nat
    BY <2>1
  <2>3. Said[Len(delivered)] = delivered[Len(delivered)] /\ Len(Said) = Len(delivered) + Len(pending)
    BY <2>1, <2>2, SaidNext DEF Said
  <2>4. Len(delivered) \in 1 .. Len(Said)  BY <2>2, <2>3
  <2>5. terminal /\ Len(delivered) = Len(Said)
    BY <2>1, <2>3, <2>4 DEF ResponseInv, OrderInv, Ends, Ending
  <2>6. pending = <<>>  BY <2>1, <2>2, <2>3, <2>5
  <2>7. Said = delivered
    <3>1. delivered \o <<>> = delivered  BY <2>1
    <3>2. QED  BY <2>6, <3>1 DEF Said
  <2>8. QED  BY <1>4, <2>1, <2>5, <2>7 DEF ResponseInv, FragmentInv
<1>5. Answer!CallsCarryTheirFragments
  BY <1>4, ResponseWithin
  DEF Answer!CallsCarryTheirFragments, Answer!Calls, CallsOf, Expected, Carrying
<1>6. QED  BY <1>1, <1>3, <1>5

-----------------------------------------------------------------------------
(* Every component of a behaviour.                                         *)

SumInv ==
  /\ part = "bootstrap" => EndpointInv
  /\ part = "framing" => FramingInv
  /\ part = "connection" => LinkInv
  /\ part = "paste" => PasteInv
  /\ part = "execution" => CommandInv
  /\ part = "cancel" => CancelInv
  /\ part = "catalog" => CatalogInv
  /\ part = "context" => WindowInv
  /\ part = "replay" => ReplayInv
  /\ part = "provider" => ResponseInv

LEMMA SumInit == Init => SumInv
<1> SUFFICES ASSUME Init PROVE SumInv  OBVIOUS
<1> USE Assumptions
<1>1. CASE part = "bootstrap"
  <2>1. B!Init  BY <1>1 DEF Init
  <2>2. QED  BY ONLY <1>1, <2>1, BootstrapInit, Assumptions DEF SumInv
<1>2. CASE part = "framing"
  <2>1. L!Init  BY <1>2 DEF Init
  <2>2. QED  BY ONLY <1>2, <2>1, FramingInit, Assumptions DEF SumInv
<1>3. CASE part = "connection"
  <2>1. Link!Init  BY <1>3 DEF Init
  <2>2. QED  BY ONLY <1>3, <2>1, LinkInit, Assumptions DEF SumInv
<1>4. CASE part = "paste"
  <2>1. D!Init  BY <1>4 DEF Init
  <2>2. QED  BY ONLY <1>4, <2>1, PasteInit, Assumptions DEF SumInv
<1>5. CASE part = "execution"
  <2>1. E!Init  BY <1>5 DEF Init
  <2>2. QED  BY ONLY <1>5, <2>1, CommandInit, Assumptions DEF SumInv
<1>6. CASE part = "cancel"
  <2>1. C!Init  BY <1>6 DEF Init
  <2>2. QED  BY ONLY <1>6, <2>1, CancelInit, Assumptions DEF SumInv
<1>7. CASE part = "catalog"
  <2>1. G!Init  BY <1>7 DEF Init
  <2>2. QED  BY ONLY <1>7, <2>1, CatalogInit, Assumptions DEF SumInv
<1>8. CASE part = "context"
  <2>1. Fit!Init  BY <1>8 DEF Init
  <2>2. QED  BY ONLY <1>8, <2>1, WindowInit, Assumptions DEF SumInv
<1>9. CASE part = "replay"
  <2>1. Replay!Init  BY <1>9 DEF Init
  <2>2. QED  BY ONLY <1>9, <2>1, ReplayInit DEF SumInv
<1>10. CASE part = "provider"
  <2>1. Answer!Init  BY <1>10 DEF Init
  <2>2. QED  BY ONLY <1>10, <2>1, ResponseInit DEF SumInv
<1>11. QED
  BY <1>1, <1>2, <1>3, <1>4, <1>5, <1>6, <1>7, <1>8, <1>9, <1>10 DEF Init

\* A step is one of the component explored, which stays the same.
LEMMA PartStep ==
  ASSUME [Next]_vars
  PROVE  /\ part' = part
         /\ part = "bootstrap" => [B!Next]_(B!vars)
         /\ part = "framing" => [L!Next]_(L!vars)
         /\ part = "connection" => [Link!Next]_(Link!vars)
         /\ part = "paste" => [D!Next]_(D!vars)
         /\ part = "execution" => [E!Next]_(E!vars)
         /\ part = "cancel" => [C!Next]_(C!vars)
         /\ part = "catalog" => [G!Next]_(G!vars)
         /\ part = "context" => [Fit!Next]_(Fit!vars)
         /\ part = "replay" => [Replay!Next]_(Replay!vars)
         /\ part = "provider" => [Answer!Next]_(Answer!vars)
<1>1. CASE Next  BY <1>1 DEF Next
<1>2. CASE UNCHANGED vars
  <2>1. /\ UNCHANGED B!vars /\ UNCHANGED L!vars /\ UNCHANGED Link!vars /\ UNCHANGED D!vars
        /\ UNCHANGED E!vars /\ UNCHANGED C!vars /\ UNCHANGED G!vars /\ UNCHANGED part
        /\ UNCHANGED Fit!vars /\ UNCHANGED Replay!vars /\ UNCHANGED Answer!vars
    BY <1>2 DEF vars, B!vars, B!clients, B!endpoint, L!vars, Link!vars, Link!task, D!vars, D!run,
      E!vars, E!program, E!readers, E!collector, C!vars, G!vars, G!process, G!disk, G!commands,
      Fit!vars, Fit!context, Fit!calibration, Replay!vars, Answer!vars, Answer!translator
  <2>2. QED  BY <2>1
<1>3. QED  BY <1>1, <1>2

LEMMA SumStep == SumInv /\ [Next]_vars => SumInv'
<1> SUFFICES ASSUME SumInv, [Next]_vars PROVE SumInv'  OBVIOUS
<1>1. part = "bootstrap" => EndpointInv'
  BY PartStep, EndpointStep, Assumptions DEF SumInv
<1>2. part = "framing" => FramingInv'
  BY PartStep, FramingStep, Assumptions DEF SumInv
<1>3. part = "connection" => LinkInv'
  BY PartStep, LinkStep, Assumptions DEF SumInv
<1>4. part = "paste" => PasteInv'
  BY PartStep, PasteStep, Assumptions DEF SumInv
<1>5. part = "execution" => CommandInv'
  BY PartStep, CommandStep, Assumptions DEF SumInv
<1>6. part = "cancel" => CancelInv'
  <2>1. C!CancelSignalAssumption /\ CancelInv /\ [C!Next]_(C!vars) => CancelInv'
    BY CancelTypeStep, CancelRegisteredStep, CancelWakesStep DEF CancelInv
  <2>2. QED  BY <2>1, PartStep, Assumptions DEF SumInv
<1>7. part = "catalog" => CatalogInv'
  BY PartStep, CatalogStep, Assumptions DEF SumInv
<1>8. part = "context" => WindowInv'
  BY PartStep, WindowStep, Assumptions DEF SumInv
<1>9. part = "replay" => ReplayInv'
  <2>1. SUFFICES ASSUME part = "replay" PROVE ReplayInv'  OBVIOUS
  <2>2. ReplayInv /\ [Replay!Next]_(Replay!vars)  BY <2>1, PartStep DEF SumInv
  <2>3. CASE Replay!Next  BY <2>2, <2>3, ReplayStep
  <2>4. CASE UNCHANGED Replay!vars  BY <2>2, <2>4, ReplayStays
  <2>5. QED  BY <2>2, <2>3, <2>4
<1>10. part = "provider" => ResponseInv'
  BY PartStep, ResponseStep DEF SumInv
<1>11. part' = part  BY PartStep
<1>12. QED
  BY <1>1, <1>2, <1>3, <1>4, <1>5, <1>6, <1>7, <1>8, <1>9, <1>10, <1>11 DEF SumInv

LEMMA SumAlways == Spec => []SumInv
BY SumInit, SumStep, PTL DEF Spec

\* Every component keeps the types its module declares: the endpoint and its clients
\* (connect_or_bootstrap), the bytes of a line (LineCodec), a connection's queue and
\* registrations (SubscriptionGuard), a run of presses (Pastes), the readers of a command
\* (PipeReaders), a signal (CancellationState), the daemon's database (open), the context of
\* a run (ContextWindowState, model_context_messages) and a response (GenericTranslator).
THEOREM ComponentsType == Spec => []TypeOK
<1>1. SumInv => TypeOK
  <2>1. EndpointInv => B!TypeOK  BY DEF EndpointInv
  <2>2. FramingInv => L!TypeOK  BY DEF FramingInv
  <2>3. LinkInv => Link!TypeOK  BY DEF LinkInv
  <2>4. PasteInv => D!TypeOK  BY DEF PasteInv
  <2>5. CommandInv => E!TypeOK  BY CommandTyped, Assumptions
  <2>6. CancelInv => C!TypeOK  BY DEF CancelInv
  <2>7. CatalogInv => G!TypeOK  BY DEF CatalogInv
  <2>8. WindowInv => Fit!TypeOK  BY DEF WindowInv
  <2>9. ReplayInv => Replay!TypeOK  BY ContextsReplay
  <2>10. ResponseInv => Answer!TypeOK  BY ResponsesAreWhole
  <2>11. QED
    BY <2>1, <2>2, <2>3, <2>4, <2>5, <2>6, <2>7, <2>8, <2>9, <2>10 DEF SumInv, TypeOK
<1>2. QED  BY <1>1, SumAlways, PTL

\* At most one living process serves an endpoint, however many clients launch one
\* over a stale socket, unless a path was replaced after its identity was compared
\* (StartupLock, bind_local, reclaim of a stale socket).
THEOREM OneDaemonServesAlways == Spec => []OneDaemonServes
<1>1. SumInv => OneDaemonServes  BY EndpointServesOne DEF SumInv, OneDaemonServes
<1>2. QED  BY <1>1, SumAlways, PTL

\* Each line handed over is one message, whole and in order, however the stream
\* is cut and whenever a read is dropped (read_async_line, take_line).
THEOREM LinesArriveWholeAlways == Spec => []LinesArriveWhole
<1>1. SumInv => LinesArriveWhole  BY DEF SumInv, FramingInv, LinesArriveWhole
<1>2. QED  BY <1>1, SumAlways, PTL

\* While a connection goes on, each request it read is answered once, is about to be or
\* is in hand, however full its queue and however large a reply; it is registered for at
\* most one session, and for the one it follows unless it was told to close
\* (dispatch_request, RegisterSubscriber, SubscriptionGuard, broadcast).
THEOREM ConnectionsAnswerAlways == Spec => []ConnectionsAnswer
<1>1. SumInv => ConnectionsAnswer  BY LinkAnswers, Assumptions DEF SumInv, ConnectionsAnswer
<1>2. QED  BY <1>1, SumAlways, PTL

\* Every press reaches the line once and in order, whatever the pauses and the
\* keys in between (Pastes, note_press).
THEOREM PressesArriveAlways == Spec => []PressesArriveOnceInOrder
<1>1. SumInv => PressesArriveOnceInOrder  BY DEF SumInv, PasteInv, PressesArriveOnceInOrder
<1>2. QED  BY <1>1, SumAlways, PTL

\* Whatever the programs do, a complete result is the whole output and marked as
\* truncated exactly when bytes were dropped, and an interruption leaves no process
\* of the group alive (PipeReaders::collect, bounded_output, terminate_process_tree).
THEOREM CommandsEndWholeAlways == Spec => []CommandsEndWhole
<1>1. SumInv => CommandsEndWhole  BY DEF SumInv, CommandInv, CommandsEndWhole, E!CommandsEndWhole
<1>2. QED  BY <1>1, SumAlways, PTL

\* A cancellation wakes every future that sleeps on the signal, whatever the
\* interleaving of polls, swaps and locks (ModelCancellation::cancel, poll).
THEOREM CancelWakesAlways == Spec => []CancelWakesEverySleeper
<1>1. SumInv => CancelWakesEverySleeper  BY DEF SumInv, CancelInv, CancelWakesEverySleeper
<1>2. QED  BY <1>1, SumAlways, PTL

\* Wherever each earlier process ended and whatever it left, the database a daemon
\* serves is whole (open, recreate_stale_database), a creation that was answered
\* keeps its session, workspace and turn, none is refused for another's sake
\* (create_session under its gate), only for the turn of its own that an earlier
\* process accepted (replayed_turn), and a snapshot is the longest run of newest
\* rows that fits (bounded_snapshot_messages).
THEOREM CatalogIsKeptAlways == Spec => []CatalogIsKept
<1>1. SumInv => CatalogIsKept  BY CatalogKept, Assumptions DEF SumInv, CatalogIsKept
<1>2. QED  BY <1>1, SumAlways, PTL

\* Whatever earlier runs left behind, a run's first request replays what was said
\* and each answered call beside its result (model_context_messages); every later
\* request whose size the provider counted fits the window or leaves no result to
\* compress (ContextWindowState::apply); the events of a response keep their order
\* and end once, and each call carries the fragments of its own index
\* (GenericTranslator, merge).
THEOREM ModelExchangesAreWholeAlways == Spec => []ModelExchangesAreWhole
<1>1. SumInv => ModelExchangesAreWhole
  <2>1. ReplayInv => Replay!ContextsReplayWhole  BY ContextsReplay
  <2>2. WindowInv => Fit!RequestsAreWindowed  BY RequestsFit
  <2>3. ResponseInv => Answer!StreamsKeepTheirOrder /\ Answer!CallsCarryTheirFragments
    BY ResponsesAreWhole
  <2>4. QED  BY <2>1, <2>2, <2>3 DEF SumInv, ModelExchangesAreWhole
<1>2. QED  BY <1>1, SumAlways, PTL
=============================================================================
