------------------------- MODULE SessionStreamProofs -------------------------
(***************************************************************************)
(* Proofs about SessionStream: for any number of runs, rows, connections   *)
(* and repeated commands, a registered client finds its reply before any   *)
(* frame, and no committed row is lost between the transcript and it.      *)
(***************************************************************************)
EXTENDS SessionStream, DataLemmas

-----------------------------------------------------------------------------
\* A run that exists has a row that opens it.
RunsOpenInv == \A r \in Runs : status[r] # "none" => r \in Range(rows)

\* A connection asks once, and until it is registered or refused its queue is
\* empty.
RegistrationInv ==
  /\ asked \subseteq 1 .. current
  /\ registry # Nobody => registry \in asked \ subscribed
  /\ \A k \in Connections : k \notin asked \/ registry = k => queue[k] = <<>>

\* A row has reached the client, or a message of its connection carries it.
Arrives(i) == i \in Range(shown) \/ \E m \in Range(queue[current]) : Carries(m, i)

\* The rows of the snapshot that the watermark names arrive.
SnapshotInv ==
  current \in subscribed => \A i \in 1 .. watermark[current] : Arrives(i)

StreamInv ==
  TypeOK /\ RunsOpenInv /\ RegistrationInv /\ SnapshotInv /\ ReplyPrecedesFrames /\ NoRowIsLost

-----------------------------------------------------------------------------
(* What the client's operators return.                                     *)

\* How many entries lie below a value, and up to it.
LEMMA Counts ==
  ASSUME NEW b \in Nat, NEW s \in Seq(1 .. b)
  PROVE  /\ \A v \in Nat : Below(s, v) \in Nat /\ UpTo(s, v) \in Nat
         /\ \A v, w \in Nat : v < w => UpTo(s, v) <= Below(s, w)
         /\ \A v \in Nat \ {0} : Below(s, v) = UpTo(s, v - 1)
         /\ \A v \in Nat : v \notin Range(s) => Below(s, v) = UpTo(s, v)
         /\ \A v \in Range(s) : Below(s, v) < UpTo(s, v)
         /\ UpTo(s, 0) = 0 /\ UpTo(s, b) = Len(s)
         /\ \A v \in Nat : UpTo(s, v) <= Len(s)
<1> DEFINE Lower(v) == {j \in DOMAIN s : s[j] < v}
           Upper(v) == {j \in DOMAIN s : s[j] <= v}
<1>1. DOMAIN s = 1 .. Len(s) /\ Len(s) \in Nat /\ \A j \in DOMAIN s : s[j] \in 1 .. b
  OBVIOUS
<1>2. IsFiniteSet(DOMAIN s) /\ Cardinality(DOMAIN s) = Len(s)
  <2>1. /\ IsFiniteSet(1 .. Len(s))
        /\ Cardinality(1 .. Len(s)) = IF 1 > Len(s) THEN 0 ELSE Len(s) - 1 + 1
    <3>1. 1 \in Int /\ Len(s) \in Int  BY <1>1
    <3>2. QED BY <3>1, FS_Interval
  <2>2. QED BY <1>1, <2>1
<1>3. \A v : /\ IsFiniteSet(Lower(v)) /\ Cardinality(Lower(v)) \in Nat
             /\ IsFiniteSet(Upper(v)) /\ Cardinality(Upper(v)) \in Nat
  <2> TAKE v
  <2>1. IsFiniteSet(Lower(v)) /\ IsFiniteSet(Upper(v))  BY <1>2, FS_Subset
  <2>2. QED BY <2>1, FS_CardinalityType
<1>4. ASSUME NEW v \in Nat, NEW w \in Nat, v < w PROVE UpTo(s, v) <= Below(s, w)
  <2>1. Upper(v) \in SUBSET Lower(w)  BY <1>1, <1>4
  <2>2. Cardinality(Upper(v)) <= Cardinality(Lower(w))  BY <2>1, <1>3, FS_Subset
  <2>3. QED BY <2>2 DEF Below, UpTo
<1>5. ASSUME NEW v \in Nat \ {0} PROVE Below(s, v) = UpTo(s, v - 1)
  <2>1. Lower(v) = Upper(v - 1)  BY <1>1
  <2>2. QED BY <2>1 DEF Below, UpTo
<1>6. ASSUME NEW v \in Nat, v \notin Range(s) PROVE Below(s, v) = UpTo(s, v)
  <2>1. Lower(v) = Upper(v)  BY <1>1, <1>6 DEF Range
  <2>2. QED BY <2>1 DEF Below, UpTo
<1>7. ASSUME NEW v \in Range(s) PROVE Below(s, v) < UpTo(s, v)
  <2>1. PICK j \in DOMAIN s : s[j] = v  BY DEF Range
  <2>2. v \in Nat  BY <1>1, <2>1
  <2>3. j \in Upper(v)  BY <2>1, <2>2
  <2>4. Lower(v) \in SUBSET (Upper(v) \ {j})  BY <1>1, <2>1, <2>2
  <2>5. /\ IsFiniteSet(Upper(v) \ {j})
        /\ Cardinality(Upper(v) \ {j}) = Cardinality(Upper(v)) - 1
    <3> HIDE DEF Upper
    <3> QED BY <2>3, <1>3, FS_RemoveElement
  <2>6. Cardinality(Lower(v)) <= Cardinality(Upper(v)) - 1
    <3> HIDE DEF Upper, Lower
    <3>1. Cardinality(Lower(v)) <= Cardinality(Upper(v) \ {j})  BY <2>4, <2>5, FS_Subset
    <3>2. QED BY <3>1, <2>5
  <2>7. Cardinality(Lower(v)) < Cardinality(Upper(v))
    <3>1. Cardinality(Lower(v)) \in Nat /\ Cardinality(Upper(v)) \in Nat  BY <1>3
    <3> HIDE DEF Upper, Lower
    <3>2. QED BY <2>6, <3>1
  <2>8. QED BY <2>7 DEF Below, UpTo
<1>8. UpTo(s, 0) = 0
  <2>1. Upper(0) = {}  BY <1>1
  <2>2. QED BY <2>1, FS_EmptySet DEF UpTo
<1>9. UpTo(s, b) = Len(s)
  <2>1. Upper(b) = DOMAIN s  BY <1>1
  <2>2. QED BY <2>1, <1>2 DEF UpTo
<1>10. ASSUME NEW v \in Nat PROVE UpTo(s, v) <= Len(s)
  <2>1. Upper(v) \in SUBSET DOMAIN s  OBVIOUS
  <2>2. Cardinality(Upper(v)) <= Cardinality(DOMAIN s)  BY <2>1, <1>2, FS_Subset
  <2>3. QED BY <2>2, <1>2 DEF UpTo
<1>11. \A v \in Nat : Below(s, v) \in Nat /\ UpTo(s, v) \in Nat  BY <1>3 DEF Below, UpTo
<1>12. QED BY <1>4, <1>5, <1>6, <1>7, <1>8, <1>9, <1>10, <1>11

\* Sorting keeps the entries: the least value with i entries up to it is an
\* entry, and an entry stands where the entries up to it end.
LEMMA SortedRange ==
  ASSUME NEW b \in Nat, NEW s \in Seq(1 .. b)
  PROVE  Sorted(s) \in Seq(1 .. b) /\ Range(Sorted(s)) = Range(s)
<1>1. DOMAIN s = 1 .. Len(s) /\ Len(s) \in Nat /\ Range(s) \subseteq 1 .. b
  BY DEF Range
<1>2. ASSUME NEW i \in DOMAIN s
      PROVE  \E v \in Range(s) : Below(s, v) < i /\ i <= UpTo(s, v)
  <2> DEFINE T == {w \in Nat : i <= UpTo(s, w)}
  <2>1. i \in Nat \ {0} /\ i <= Len(s)  BY <1>1
  <2>2. T \subseteq Nat /\ b \in T  BY <2>1, Counts
  <2>3. PICK v \in T : \A w \in T : v <= w  BY <2>2, LeastElement
  <2>4. v # 0 /\ v \in Nat  BY <2>1, <2>3, Counts
  <2>5. UpTo(s, v - 1) \in Nat /\ ~(i <= UpTo(s, v - 1))
    <3>1. v - 1 \in Nat /\ ~(v <= v - 1)  BY <2>4
    <3>2. QED BY <2>3, <3>1, Counts
  <2>6. Below(s, v) < i  BY <2>1, <2>4, <2>5, Counts
  <2>7. i <= UpTo(s, v) /\ UpTo(s, v) \in Nat  BY <2>3, Counts
  <2>8. v \in Range(s)  BY <2>1, <2>4, <2>6, <2>7, Counts
  <2>9. QED BY <2>6, <2>7, <2>8
<1>3. ASSUME NEW i \in DOMAIN s
      PROVE  /\ Sorted(s)[i] \in Range(s)
             /\ Below(s, Sorted(s)[i]) < i /\ i <= UpTo(s, Sorted(s)[i])
  <2>1. Sorted(s)[i] = CHOOSE v \in Range(s) : Below(s, v) < i /\ i <= UpTo(s, v)
    BY DEF Sorted
  <2>2. QED BY <2>1, <1>2
<1>4. Sorted(s) \in [1 .. Len(s) -> 1 .. b]
  <2>1. ASSUME NEW i \in 1 .. Len(s)
        PROVE  (CHOOSE v \in Range(s) : Below(s, v) < i /\ i <= UpTo(s, v)) \in 1 .. b
    BY <1>1, <1>2
  <2>2. QED BY <1>1, <2>1 DEF Sorted
<1>5. Sorted(s) \in Seq(1 .. b) /\ DOMAIN Sorted(s) = DOMAIN s  BY <1>1, <1>4, SeqDef
<1>6. Range(Sorted(s)) \subseteq Range(s)  BY <1>3, <1>5 DEF Range
<1>7. ASSUME NEW v \in Range(s) PROVE v \in Range(Sorted(s))
  <2> DEFINE i == UpTo(s, v)
  <2>1. v \in Nat /\ i \in Nat /\ Below(s, v) \in Nat /\ Below(s, v) < i /\ i <= Len(s)
    BY <1>1, Counts
  <2>2. i \in DOMAIN s  BY <1>1, <2>1
  <2>3. PICK w \in Range(s) : w = Sorted(s)[i]  BY <1>3, <2>2
  <2>4. w \in Nat /\ Below(s, w) < i /\ i <= UpTo(s, w)  BY <1>1, <1>3, <2>2, <2>3
  <2>5. Below(s, w) \in Nat /\ UpTo(s, w) \in Nat  BY <2>4, Counts
  <2>6. ~(v < w)
    <3>1. v < w => i <= Below(s, w)  BY <2>1, <2>4, Counts
    <3>2. QED BY <3>1, <2>1, <2>4, <2>5
  <2>7. ~(w < v)
    <3>1. w < v => UpTo(s, w) <= Below(s, v)  BY <2>1, <2>4, Counts
    <3>2. QED BY <3>1, <2>1, <2>4, <2>5
  <2>8. w = v  BY <2>1, <2>4, <2>6, <2>7
  <2>9. QED BY <1>5, <2>2, <2>3, <2>8 DEF Range
<1>8. QED BY <1>5, <1>6, <1>7

\* A merged view shows what was shown and every row of the read.
LEMMA ReconcileRange ==
  ASSUME SessionStreamAssumption, shown \in Seq(1 .. MaxRows), NEW n \in 0 .. MaxRows
  PROVE  Reconcile(n) \in Seq(1 .. MaxRows) /\ Range(Reconcile(n)) = Range(shown) \cup 1 .. n
<1> DEFINE New == 1 .. n \ Range(shown)
           s == shown \o SetToSeq(New)
<1>1. MaxRows \in Nat /\ n \in Nat  BY DEF SessionStreamAssumption
<1>2. IsFiniteSet(1 .. n)  BY <1>1, FS_Interval
<1>3. IsFiniteSet(New)  BY <1>2, FS_Subset
<1>4. SetToSeq(New) \in Seq(New) /\ Range(SetToSeq(New)) = New  BY <1>3, RangeOfSetToSeq
<1>5. New \subseteq 1 .. MaxRows  BY <1>1
<1>6. SetToSeq(New) \in Seq(1 .. MaxRows)  BY <1>4, <1>5, SeqMonotonic
<1>7. s \in Seq(1 .. MaxRows) /\ Range(s) = Range(shown) \cup New
  <2> HIDE DEF New
  <2> QED BY <1>4, <1>6, RangeOfConcat
<1>8. Sorted(s) \in Seq(1 .. MaxRows) /\ Range(Sorted(s)) = Range(s)
  <2> HIDE DEF s
  <2> QED BY <1>7, <1>1, SortedRange
<1>9. QED BY <1>7, <1>8 DEF Reconcile

\* The first row of a run that exists is a row.
LEMMA FirstRowExists ==
  ASSUME TypeOK, RunsOpenInv, NEW r \in Runs, status[r] # "none"
  PROVE  FirstRow(r) \in DOMAIN rows
<1> DEFINE T == {i \in DOMAIN rows : rows[i] = r}
<1>1. DOMAIN rows = 1 .. Len(rows) /\ Len(rows) \in Nat  BY DEF TypeOK
<1>2. T # {}  BY DEF RunsOpenInv, Range
<1>3. T \subseteq Nat  BY <1>1
<1>4. PICK i \in T : \A j \in T : i <= j
  <2> HIDE DEF T
  <2> QED BY <1>2, <1>3, LeastElement
<1>5. QED BY <1>4 DEF FirstRow

-----------------------------------------------------------------------------
(* What a thread owes.                                                     *)

\* A thread that comes to owe more forgets nothing.
LEMMA OweEffect ==
  ASSUME TypeOK, NEW t \in Publishers, NEW items \in Seq(Publications), Owe(t, items)
  PROVE  /\ owed' \in [Publishers -> Seq(Publications)]
         /\ \A u \in Publishers : Range(owed[u]) \subseteq Range(owed'[u])
         /\ Range(items) \subseteq Range(owed'[t])
<1>1. owed \in [Publishers -> Seq(Publications)]  BY DEF TypeOK
<1>2. owed' = [owed EXCEPT ![t] = owed[t] \o items]  BY DEF Owe
<1>3. /\ owed[t] \o items \in Seq(Publications)
      /\ Range(owed[t] \o items) = Range(owed[t]) \cup Range(items)
  BY <1>1, RangeOfConcat
<1>4. QED BY <1>1, <1>2, <1>3

\* A thread that makes its publication owes the others still.
LEMMA PayEffect ==
  ASSUME TypeOK, NEW t \in Publishers, ~Idle(t), owed' = [owed EXCEPT ![t] = Tail(@)]
  PROVE  /\ owed' \in [Publishers -> Seq(Publications)]
         /\ Due(t) \in Publications
         /\ \A u \in Publishers : \A x \in Range(owed[u]) :
              x \in Range(owed'[u]) \/ (u = t /\ x = Due(t))
<1>1. owed \in [Publishers -> Seq(Publications)]  BY DEF TypeOK
<1>2. owed[t] \in Seq(Publications) /\ owed[t] # <<>>  BY <1>1 DEF Idle
<1>3. /\ Tail(owed[t]) \in Seq(Publications) /\ Head(owed[t]) \in Publications
      /\ Range(owed[t]) = {Head(owed[t])} \cup Range(Tail(owed[t]))
  BY <1>2, RangeOfTail
<1>4. QED BY <1>1, <1>3 DEF Due

\* Each action's publications are publications.
LEMMA ItemsTyped ==
  /\ \A i \in 1 .. MaxRows : RowOf(i) \in RowFrames /\ RowOf(i) \in Publications
  /\ \A r \in Runs : ReadOf(r) \in Publications
  /\ \A r \in Runs, s \in Status : StatusOf(r, s) \in StatusFrames
  /\ \A r \in Runs, s \in Status : StatusCommit(r, s) \in Seq(Publications)
<1>1. \A r \in Runs : ReadOf(r) \in Publications  BY DEF ReadOf, Publications
<1>2. Successor \in Publications /\ RowFrames \subseteq Publications  BY DEF Publications
<1>3. \A i \in 1 .. MaxRows : RowOf(i) \in RowFrames  BY DEF RowOf, RowFrames
<1>4. \A r \in Runs, s \in Status : StatusCommit(r, s) \in Seq(Publications)
  BY <1>1, <1>2 DEF StatusCommit
<1>5. QED BY <1>1, <1>2, <1>3, <1>4 DEF StatusOf, StatusFrames

\* A read turns into the status frame it found, or is dropped, or goes to the
\* worker that tries again; no row goes with it.
LEMMA ReadRunEffect ==
  ASSUME TypeOK, NEW t \in Publishers, ReadRun(t)
  PROVE  /\ owed' \in [Publishers -> Seq(Publications)]
         /\ \A u \in Publishers : \A i \in Nat :
              RowOf(i) \in Range(owed[u]) => RowOf(i) \in Range(owed'[u])
         /\ faults' \in 0 .. MaxFaults
<1>1. owed \in [Publishers -> Seq(Publications)] /\ faults \in 0 .. MaxFaults
  BY DEF TypeOK
<1>2. owed[t] \in Seq(Publications) /\ owed[t] # <<>>  BY <1>1 DEF ReadRun, Idle
<1> DEFINE rest == Tail(owed[t])
           r == Due(t).run
<1>3. /\ rest \in Seq(Publications) /\ Due(t) \in Publications
      /\ Range(owed[t]) = {Due(t)} \cup Range(rest)
  BY <1>2, RangeOfTail DEF Due
<1>4. Due(t).kind = "read"  BY DEF ReadRun
<1>5. r \in Runs  BY <1>3, <1>4 DEF Publications, RowFrames, StatusFrames, Successor
<1>6. \A i \in Nat : RowOf(i) \in Range(owed[t]) => RowOf(i) \in Range(rest)
  BY <1>3, <1>4 DEF RowOf
<1>7. status[r] \in Status  BY <1>5 DEF TypeOK
<1>8. StatusOf(r, status[r]) \in Publications /\ ReadOf(r) \in Publications
  BY <1>5, <1>7, ItemsTyped DEF Publications
<1> HIDE DEF rest, r
<1>9. CASE owed' = [owed EXCEPT ![t] = <<StatusOf(r, status[r])>> \o rest] /\ UNCHANGED faults
  <2> DEFINE frame == <<StatusOf(r, status[r])>>
  <2>1. frame \in Seq(Publications)  BY <1>8
  <2> HIDE DEF frame
  <2>2. /\ frame \o rest \in Seq(Publications)
        /\ Range(rest) \subseteq Range(frame \o rest)
    BY <2>1, <1>3, RangeOfConcat
  <2> USE DEF frame
  <2>3. QED BY <1>9, <1>1, <1>6, <2>2
<1>10. CASE /\ t # Retry
            /\ owed' = [owed EXCEPT ![t] = rest, ![Retry] = Append(@, ReadOf(r))]
            /\ faults < MaxFaults /\ faults' = faults + 1
  <2>1. Retry \in Publishers /\ owed[Retry] \in Seq(Publications)  BY <1>1 DEF Publishers
  <2>2. /\ Append(owed[Retry], ReadOf(r)) \in Seq(Publications)
        /\ Range(owed[Retry]) \subseteq Range(Append(owed[Retry], ReadOf(r)))
    BY <2>1, <1>8, RangeOfAppend
  <2>3. owed' = [u \in Publishers |-> IF u = Retry THEN Append(owed[Retry], ReadOf(r))
                                      ELSE IF u = t THEN rest ELSE owed[u]]
    BY <1>10, <1>1, <2>1
  <2>4. faults' \in 0 .. MaxFaults  BY <1>1, <1>10, SessionStreamAssumption DEF SessionStreamAssumption
  <2>5. owed' \in [Publishers -> Seq(Publications)]  BY <1>1, <1>3, <2>2, <2>3
  <2>6. QED BY <1>6, <2>2, <2>3, <2>4, <2>5
<1>11. CASE /\ owed' = [owed EXCEPT ![t] = rest]
            /\ faults < MaxFaults /\ faults' = faults + 1
  <2>1. faults' \in 0 .. MaxFaults  BY <1>1, <1>11, SessionStreamAssumption DEF SessionStreamAssumption
  <2>2. QED BY <1>11, <1>1, <1>3, <1>6, <2>1
<1>12. QED
  <2>1. \/ owed' = [owed EXCEPT ![t] = <<StatusOf(r, status[r])>> \o rest] /\ UNCHANGED faults
        \/ /\ faults < MaxFaults /\ faults' = faults + 1
           /\ owed' = IF t # Retry /\ status[r] \in TerminalStatus
                      THEN [owed EXCEPT ![t] = Tail(@), ![Retry] = Append(@, ReadOf(r))]
                      ELSE [owed EXCEPT ![t] = Tail(@)]
    BY DEF ReadRun, rest, r
  <2>2. [owed EXCEPT ![t] = Tail(@)] = [owed EXCEPT ![t] = rest]  BY DEF rest
  <2>3. [owed EXCEPT ![t] = Tail(@), ![Retry] = Append(@, ReadOf(r))]
          = [owed EXCEPT ![t] = rest, ![Retry] = Append(@, ReadOf(r))]
    BY DEF rest
  <2>4. QED BY <1>9, <1>10, <1>11, <2>1, <2>2, <2>3

-----------------------------------------------------------------------------
(* What a connection's queue holds.                                        *)

\* A broadcast only appends, never beyond the bound, and a subscriber that
\* stays registered and is not spared the frame finds it in its queue.
LEMMA BroadcastEffect ==
  ASSUME TypeOK, NEW t \in Publishers, Broadcast(t)
  PROVE  /\ queue' \in [Connections -> Seq(Messages)]
         /\ watermark' \in [Connections -> 0 .. MaxRows]
         /\ \A k \in Connections :
              /\ Len(queue'[k]) <= Capacity
              /\ Range(queue[k]) \subseteq Range(queue'[k])
              /\ queue[k] # <<>> => queue'[k] # <<>> /\ Head(queue'[k]) = Head(queue[k])
              /\ k \notin subscribed => queue'[k] = queue[k]
              /\ k \in subscribed' => Suppressed(k, Due(t)) \/ Due(t) \in Range(queue'[k])
         /\ subscribed' \subseteq subscribed
         /\ closing' \subseteq closing \cup subscribed
<1> DEFINE m == Due(t)
           Slow == {k \in subscribed : Full(k) /\ ~Suppressed(k, m)}
           Sent(k) == k \in subscribed \ Slow /\ ~Suppressed(k, m)
<1>1. ~Idle(t) /\ owed' = [owed EXCEPT ![t] = Tail(@)] /\ m.kind \in {"row", "status"}
  BY DEF Broadcast
<1>2. m \in Messages
  <2>1. m \in Publications  BY <1>1, PayEffect
  <2> HIDE DEF m
  <2>2. m \in RowFrames \cup StatusFrames  BY <1>1, <2>1 DEF Publications, Successor
  <2>3. QED BY <2>2 DEF Messages
<1>3. /\ queue \in [Connections -> Seq(Messages)]
      /\ watermark \in [Connections -> 0 .. MaxRows]
      /\ \A k \in Connections : Len(queue[k]) <= Capacity
  BY DEF TypeOK
<1>4. /\ queue' = [k \in Connections |-> IF Sent(k) THEN Append(queue[k], m) ELSE queue[k]]
      /\ watermark' = [k \in Connections |->
           IF k \in subscribed /\ m.kind = "row" THEN 0 ELSE watermark[k]]
      /\ subscribed' = subscribed \ Slow /\ closing' = closing \cup Slow
  BY DEF Broadcast
<1> HIDE DEF m
<1>5. ASSUME NEW k \in Connections
      PROVE  /\ Append(queue[k], m) \in Seq(Messages)
             /\ Range(Append(queue[k], m)) = Range(queue[k]) \cup {m}
             /\ Append(queue[k], m) # <<>>
             /\ queue[k] # <<>> => Head(Append(queue[k], m)) = Head(queue[k])
             /\ Len(Append(queue[k], m)) = Len(queue[k]) + 1
             /\ Len(queue[k]) \in Nat
  <2>1. queue[k] \in Seq(Messages)  BY <1>3
  <2>2. QED BY <2>1, <1>2, RangeOfAppend
<1>6. \A k \in Connections : Sent(k) => ~Full(k)  OBVIOUS
<1>7. \A k \in Connections : Len(queue'[k]) <= Capacity
  BY <1>3, <1>4, <1>5, <1>6, SessionStreamAssumption DEF SessionStreamAssumption, Full
<1>8. queue' \in [Connections -> Seq(Messages)]
  <2> HIDE DEF Sent
  <2> QED BY <1>3, <1>4, <1>5
<1>9. watermark' \in [Connections -> 0 .. MaxRows]
  BY <1>3, <1>4, SessionStreamAssumption DEF SessionStreamAssumption
<1>10. ASSUME NEW k \in Connections
       PROVE  /\ Range(queue[k]) \subseteq Range(queue'[k])
              /\ queue[k] # <<>> => queue'[k] # <<>> /\ Head(queue'[k]) = Head(queue[k])
  <2> HIDE DEF Sent
  <2> QED BY <1>4, <1>5
<1>11. \A k \in Connections : k \notin subscribed => queue'[k] = queue[k]  BY <1>4
<1>12. ASSUME NEW k \in Connections, k \in subscribed', ~Suppressed(k, m)
       PROVE  m \in Range(queue'[k])
  BY <1>12, <1>4, <1>5
<1>13. QED BY <1>4, <1>7, <1>8, <1>9, <1>10, <1>11, <1>12 DEF m

\* A message that the client takes leaves the others in their order.
LEMMA ReceiveEffect ==
  ASSUME TypeOK, Receive
  PROVE  /\ current \in Connections
         /\ queue[current] \in Seq(Messages) /\ queue[current] # <<>>
         /\ Head(queue[current]) \in Messages
         /\ Range(queue[current]) = {Head(queue[current])} \cup Range(Tail(queue[current]))
         /\ queue' = [queue EXCEPT ![current] = Tail(queue[current])]
         /\ queue' \in [Connections -> Seq(Messages)]
         /\ \A k \in Connections : Len(queue'[k]) <= Capacity
<1>1. /\ queue \in [Connections -> Seq(Messages)] /\ current \in 0 .. MaxConnections
      /\ \A k \in Connections : Len(queue[k]) <= Capacity
      /\ MaxConnections \in Nat /\ Capacity \in Nat
  BY SessionStreamAssumption DEF TypeOK, SessionStreamAssumption
<1>2. /\ current # 0 /\ queue[current] # <<>>
      /\ queue' = [queue EXCEPT ![current] = Tail(queue[current])]
  BY DEF Receive
<1>3. current \in Connections  BY <1>1, <1>2 DEF Connections
<1>4. queue[current] \in Seq(Messages)  BY <1>1, <1>3
<1>5. /\ Tail(queue[current]) \in Seq(Messages) /\ Head(queue[current]) \in Messages
      /\ Range(queue[current]) = {Head(queue[current])} \cup Range(Tail(queue[current]))
  BY <1>2, <1>4, RangeOfTail
<1>6. Len(Tail(queue[current])) <= Capacity
  BY <1>1, <1>2, <1>3, <1>4
<1>7. QED BY <1>1, <1>2, <1>3, <1>4, <1>5, <1>6

\* The client shows what it showed, and what the message carries.
LEMMA ReceiveShows ==
  ASSUME TypeOK, Receive
  PROVE  /\ shown' \in Seq(1 .. MaxRows)
         /\ Range(shown) \subseteq Range(shown')
         /\ \A i \in Nat \ {0} : Carries(Head(queue[current]), i) => i \in Range(shown')
         /\ view' \in Projections /\ following' \in BOOLEAN
<1> DEFINE m == Head(queue[current])
<1>1. m \in Messages  BY ReceiveEffect
<1>2. shown \in Seq(1 .. MaxRows) /\ view \in Projections /\ following \in BOOLEAN
  BY DEF TypeOK
<1> HIDE DEF m
<1>3. CASE m.kind = "reply" /\ shown' = Reconcile(m.rows) /\ view' = m.projection
           /\ following' = TRUE
  <2>1. m.rows \in 0 .. MaxRows /\ m.projection \in Projections
    BY <1>1, <1>3 DEF Messages, RowFrames, StatusFrames, Rejection
  <2>2. /\ shown' \in Seq(1 .. MaxRows)
        /\ Range(shown') = Range(shown) \cup 1 .. m.rows
    BY <2>1, <1>2, <1>3, ReconcileRange, SessionStreamAssumption
  <2>3. \A i \in Nat \ {0} : Carries(m, i) => i \in 1 .. m.rows
    BY <2>1, <1>3, SessionStreamAssumption DEF Carries, SessionStreamAssumption
  <2>4. QED BY <2>1, <2>2, <2>3, <1>3 DEF m
<1>4. CASE m.kind = "rejection" /\ UNCHANGED <<shown, view, following>>
  BY <1>2, <1>4 DEF Carries, m
<1>5. CASE m.kind = "row" /\ ApplyContent(m.row) /\ UNCHANGED <<view, following>>
  <2>1. m.row \in 1 .. MaxRows
    BY <1>1, <1>5 DEF Messages, RowFrames, StatusFrames, Rejection
  <2>2. \A i \in Nat \ {0} : Carries(m, i) => i = m.row  BY <1>5 DEF Carries
  <2>3. CASE shown # <<>> /\ Last(shown) = m.row /\ shown' = shown
    <3>1. Len(shown) \in DOMAIN shown /\ shown[Len(shown)] = m.row  BY <2>3, <1>2 DEF Last
    <3>2. m.row \in Range(shown)  BY <3>1 DEF Range
    <3>3. QED BY <3>2, <2>2, <2>3, <1>2, <1>5 DEF m
  <2>4. CASE shown' = Append(shown, m.row)
    <3>1. /\ shown' \in Seq(1 .. MaxRows)
          /\ Range(shown') = Range(shown) \cup {m.row}
      <4> DEFINE S == 1 .. MaxRows
      <4>1. shown \in Seq(S) /\ m.row \in S  BY <2>1, <1>2
      <4> HIDE DEF S
      <4>2. /\ Append(shown, m.row) \in Seq(S)
            /\ Range(Append(shown, m.row)) = Range(shown) \cup {m.row}
        BY <4>1, RangeOfAppend
      <4>3. QED BY <4>2, <2>4 DEF S
    <3>2. QED BY <3>1, <2>2, <1>2, <1>5 DEF m
  <2>5. QED BY <2>3, <2>4, <1>5 DEF ApplyContent
<1>6. CASE m.kind = "status" /\ view' = [run |-> m.run, status |-> m.status]
           /\ UNCHANGED <<shown, following>>
  <2>1. m.run \in Runs /\ m.status \in Status
    BY <1>1, <1>6 DEF Messages, RowFrames, StatusFrames, Rejection
  <2>2. view' \in Projections
    BY <2>1, <1>6, SessionStreamAssumption DEF Projections, Runs, SessionStreamAssumption
  <2>3. QED BY <2>2, <1>2, <1>6 DEF Carries, m
<1>7. QED BY <1>3, <1>4, <1>5, <1>6 DEF Receive, m


-----------------------------------------------------------------------------
(* Typing.                                                                 *)

\* A status that the session's active run has is a projection of a run.
LEMMA ActiveRunTyped ==
  ASSUME TypeOK
  PROVE  ActiveRun \in Projections
<1>1. NoRun \in Projections
  BY SessionStreamAssumption DEF NoRun, Projections, Status, SessionStreamAssumption
<1>2. ASSUME NEW r \in Runs PROVE [run |-> r, status |-> status[r]] \in Projections
  <2>1. r \in 0 .. MaxRuns /\ status[r] \in Status
    BY SessionStreamAssumption DEF Runs, TypeOK, SessionStreamAssumption
  <2>2. QED BY <2>1 DEF Projections
<1>3. QED BY <1>1, <1>2 DEF ActiveRun

LEMMA InitTyped == Init => TypeOK
<1> SUFFICES ASSUME Init PROVE TypeOK  OBVIOUS
<1>1. NoRun \in Projections
  BY SessionStreamAssumption DEF NoRun, Projections, Status, SessionStreamAssumption
<1>2. \A S : <<>> \in Seq(S)  OBVIOUS
<1>3. /\ rows \in Seq(Runs) /\ shown \in Seq(1 .. MaxRows)
      /\ owed \in [Publishers -> Seq(Publications)]
      /\ queue \in [Connections -> Seq(Messages)]
  BY <1>2 DEF Init
<1>4. /\ Len(rows) <= MaxRows
      /\ \A k \in Connections : Len(queue[k]) <= Capacity
  BY SessionStreamAssumption DEF Init, SessionStreamAssumption
<1>5. status \in [Runs -> Status] /\ watermark \in [Connections -> 0 .. MaxRows]
  BY SessionStreamAssumption DEF Init, Status, SessionStreamAssumption
<1>6. QED
  <2>1. /\ admitted \subseteq Runs /\ registry = Nobody
        /\ asked = {} /\ subscribed = {} /\ closing = {} /\ following = FALSE
        /\ projection \in Projections /\ view \in Projections
    BY <1>1 DEF Init
  <2>2. current \in 0 .. MaxConnections /\ replays \in 0 .. MaxReplays /\ faults \in 0 .. MaxFaults
    BY SessionStreamAssumption DEF Init, SessionStreamAssumption
  <2>3. QED BY <1>3, <1>4, <1>5, <2>1, <2>2 DEF TypeOK

\* What a commit changes: rows are added, statuses change, and the thread owes
\* what it has to publish.
LEMMA CommitTyped ==
  ASSUME TypeOK, rows' \in Seq(Runs), Len(rows') <= MaxRows, status' \in [Runs -> Status],
         owed' \in [Publishers -> Seq(Publications)], admitted' \subseteq Runs,
         replays' \in 0 .. MaxReplays, UNCHANGED <<host, client, faults>>
  PROVE  TypeOK'
BY DEF TypeOK, host, client

LEMMA TypeStep == TypeOK /\ RunsOpenInv /\ RegistrationInv /\ [Next]_vars => TypeOK'
<1> SUFFICES ASSUME TypeOK, RunsOpenInv, RegistrationInv, [Next]_vars PROVE TypeOK'
  OBVIOUS
<1> USE SessionStreamAssumption
<1>1. /\ rows \in Seq(Runs) /\ Len(rows) \in Nat /\ Len(rows) <= MaxRows
      /\ status \in [Runs -> Status] /\ admitted \subseteq Runs
      /\ owed \in [Publishers -> Seq(Publications)]
      /\ replays \in 0 .. MaxReplays /\ faults \in 0 .. MaxFaults
      /\ Command \in Publishers /\ Runs \subseteq Publishers
      /\ MaxRows \in Nat /\ MaxReplays \in Nat /\ MaxFaults \in Nat
      /\ {"none", "starting", "running", "ended"} \subseteq Status
  BY DEF TypeOK, Publishers, SessionStreamAssumption, Status, ActiveStatus, TerminalStatus
<1>2. CASE AcceptUserTurn
  <2>1. PICK r \in Runs :
          /\ status' = [status EXCEPT ![r] = "starting"]
          /\ rows' = Append(rows, r)
          /\ Owe(Command, <<RowOf(Len(rows) + 1), ReadOf(r)>>)
    BY <1>2 DEF AcceptUserTurn
  <2>2. Len(rows) + 1 \in 1 .. MaxRows  BY <1>1, <1>2 DEF AcceptUserTurn
  <2>3. <<RowOf(Len(rows) + 1), ReadOf(r)>> \in Seq(Publications)
    BY <2>2, ItemsTyped
  <2>4. owed' \in [Publishers -> Seq(Publications)]  BY <1>1, <2>1, <2>3, OweEffect
  <2>5. rows' \in Seq(Runs) /\ Len(rows') <= MaxRows  BY <1>1, <2>1, <2>2
  <2>6. QED BY <1>1, <1>2, <2>1, <2>4, <2>5, CommitTyped DEF AcceptUserTurn, counts
<1>3. CASE Connect
  <2>1. current' \in 0 .. MaxConnections /\ following' \in BOOLEAN
    <3>1. current \in 0 .. MaxConnections  BY DEF TypeOK
    <3>2. MaxConnections \in Nat  BY DEF SessionStreamAssumption
    <3>3. current < MaxConnections /\ current' = current + 1 /\ following' = FALSE
      BY <1>3 DEF Connect
    <3>4. current' \in 0 .. MaxConnections  BY <3>1, <3>2, <3>3
    <3>5. QED BY <3>3, <3>4
  <2>2. QED BY <1>3, <2>1 DEF Connect, TypeOK, durable, host, counts
<1>4. CASE Receive
  BY <1>4, ReceiveEffect, ReceiveShows DEF Receive, TypeOK, durable, counts
<1>5. ASSUME NEW r \in Runs, RepeatUserTurn(r) PROVE TypeOK'
  <2>1. FirstRow(r) \in 1 .. MaxRows
    <3>1. FirstRow(r) \in DOMAIN rows  BY <1>5, FirstRowExists DEF RepeatUserTurn
    <3>2. QED BY <3>1, <1>1
  <2>2. StatusCommit(r, status[r]) \in Seq(Publications)  BY <1>1, ItemsTyped
  <2>3. <<RowOf(FirstRow(r))>> \in Seq(Publications)
    BY <2>1, ItemsTyped
  <2>4. <<RowOf(FirstRow(r))>> \o StatusCommit(r, status[r]) \in Seq(Publications)
    BY <2>2, <2>3
  <2>5. owed' \in [Publishers -> Seq(Publications)]
    BY <1>1, <1>5, <2>4, OweEffect DEF RepeatUserTurn
  <2>6. replays' \in 0 .. MaxReplays  BY <1>1, <1>5 DEF RepeatUserTurn
  <2>7. QED BY <1>1, <1>5, <2>5, <2>6, CommitTyped DEF RepeatUserTurn, durable
<1>6. ASSUME NEW r \in Runs, Admit(r) PROVE TypeOK'
  <2>1. owed' \in [Publishers -> Seq(Publications)]
    BY <1>1, <1>6, PayEffect DEF Admit
  <2>2. QED BY <1>1, <1>6, <2>1, CommitTyped DEF Admit, counts
<1>7. ASSUME NEW r \in Runs, Begin(r) PROVE TypeOK'
  <2>1. <<ReadOf(r)>> \in Seq(Publications)  BY ItemsTyped
  <2>2. owed' \in [Publishers -> Seq(Publications)]
    BY <1>1, <1>7, <2>1, OweEffect DEF Begin
  <2>3. QED BY <1>1, <1>7, <2>2, CommitTyped DEF Begin, counts
<1>8. ASSUME NEW r \in Runs, CommitRow(r) PROVE TypeOK'
  <2>1. Len(rows) + 1 \in 1 .. MaxRows  BY <1>1, <1>8 DEF CommitRow
  <2>2. PICK more \in {<<>>, <<ReadOf(r)>>} : Owe(r, <<RowOf(Len(rows) + 1)>> \o more)
    BY <1>8 DEF CommitRow
  <2>3. <<RowOf(Len(rows) + 1)>> \in Seq(Publications) /\ more \in Seq(Publications)
    <3>1. RowOf(Len(rows) + 1) \in Publications /\ ReadOf(r) \in Publications
      BY <2>1, ItemsTyped
    <3>2. <<RowOf(Len(rows) + 1)>> \in Seq(Publications)  BY <3>1
    <3>3. <<ReadOf(r)>> \in Seq(Publications)  BY <3>1
    <3>4. CASE more = <<>>  BY <3>2, <3>4
    <3>5. CASE more = <<ReadOf(r)>>  BY <3>2, <3>3, <3>5
    <3>6. QED BY <2>2, <3>4, <3>5
  <2>4. <<RowOf(Len(rows) + 1)>> \o more \in Seq(Publications)  BY <2>3
  <2>5. owed' \in [Publishers -> Seq(Publications)]  BY <1>1, <2>2, <2>4, OweEffect
  <2>6. rows' \in Seq(Runs) /\ Len(rows') <= MaxRows  BY <1>1, <1>8, <2>1 DEF CommitRow
  <2>7. QED BY <1>1, <1>8, <2>5, <2>6, CommitTyped DEF CommitRow, counts
<1>9. ASSUME NEW r \in Runs, ConsumePendingUserTurns(r) PROVE TypeOK'
  <2>1. PICK n \in 2 .. MaxJoin :
          /\ Len(rows) + n <= MaxRows
          /\ rows' = rows \o [i \in 1 .. n |-> r]
          /\ Owe(r, [i \in 1 .. n |-> RowOf(Len(rows) + i)])
    BY <1>9 DEF ConsumePendingUserTurns
  <2>2. n \in Nat /\ \A i \in 1 .. n : Len(rows) + i \in 1 .. MaxRows
    BY <1>1, <2>1 DEF SessionStreamAssumption
  <2>3. [i \in 1 .. n |-> RowOf(Len(rows) + i)] \in Seq(Publications)
    <3>1. \A i \in 1 .. n : RowOf(Len(rows) + i) \in Publications
      BY <2>2, ItemsTyped
    <3>2. [i \in 1 .. n |-> RowOf(Len(rows) + i)] \in [1 .. n -> Publications]  BY <3>1
    <3>3. QED BY <3>2, <2>2, SeqDef
  <2>4. owed' \in [Publishers -> Seq(Publications)]  BY <1>1, <2>1, <2>3, OweEffect
  <2>5. rows' \in Seq(Runs) /\ Len(rows') <= MaxRows
    <3> DEFINE new == [i \in 1 .. n |-> r]
    <3>1. new \in [1 .. n -> Runs]  OBVIOUS
    <3>2. new \in Seq(Runs) /\ Len(new) = n  BY <3>1, <2>2, SeqDef
    <3>3. rows' = rows \o new  BY <2>1
    <3> HIDE DEF new
    <3>4. QED BY <1>1, <2>1, <2>2, <3>2, <3>3
  <2>6. QED BY <1>1, <1>9, <2>4, <2>5, CommitTyped DEF ConsumePendingUserTurns, counts
<1>10. ASSUME NEW r \in Runs, FinishRun(r) PROVE TypeOK'
  <2>1. owed' \in [Publishers -> Seq(Publications)]
    BY <1>1, <1>10, ItemsTyped, OweEffect DEF FinishRun
  <2>2. QED BY <1>1, <1>10, <2>1, CommitTyped DEF FinishRun, counts
<1>11. ASSUME NEW t \in Publishers, ReadRun(t) PROVE TypeOK'
  BY <1>11, ReadRunEffect DEF ReadRun, TypeOK, durable, host, client
<1>12. ASSUME NEW t \in Publishers, Broadcast(t) PROVE TypeOK'
  <2>1. owed' \in [Publishers -> Seq(Publications)]
    BY <1>12, PayEffect DEF Broadcast
  <2>2. subscribed' \subseteq asked /\ closing' \subseteq asked
    BY <1>12, BroadcastEffect DEF TypeOK
  <2>3. QED
    BY <1>12, <2>1, <2>2, BroadcastEffect DEF Broadcast, TypeOK, durable, client, counts
<1>13. ASSUME NEW t \in Publishers, NoSuccessor(t) PROVE TypeOK'
  <2>1. owed' \in [Publishers -> Seq(Publications)]
    BY <1>13, PayEffect DEF NoSuccessor
  <2>2. QED BY <1>1, <1>13, <2>1, CommitTyped DEF NoSuccessor, durable, counts
<1>14. ASSUME NEW k \in Connections, ReadProjection(k) PROVE TypeOK'
  BY <1>14, ActiveRunTyped
     DEF ReadProjection, TypeOK, durable, client, counts
<1>15. ASSUME NEW k \in Connections, NEW m \in Messages, registry = k,
              queue' = [queue EXCEPT ![k] = Append(@, m)]
       PROVE  /\ queue' \in [Connections -> Seq(Messages)]
              /\ \A j \in Connections : Len(queue'[j]) <= Capacity
  <2>1. queue[k] = <<>>  BY <1>15 DEF RegistrationInv
  <2>2. queue' = [queue EXCEPT ![k] = <<m>>]
    <3>1. Append(<<>>, m) = <<m>>  OBVIOUS
    <3>2. QED BY <1>15, <2>1, <3>1
  <2>3. <<m>> \in Seq(Messages) /\ Len(<<m>>) = 1  OBVIOUS
  <2>4. QED BY <2>2, <2>3 DEF TypeOK, SessionStreamAssumption
<1>16. NoRun \in Projections
  BY DEF NoRun, Projections, Status, SessionStreamAssumption
<1>17. ASSUME NEW k \in Connections, RegisterSubscriber(k) PROVE TypeOK'
  <2>1. Reply(Len(rows), projection) \in Messages
    BY <1>1 DEF Reply, Messages, TypeOK
  <2>2. /\ queue' \in [Connections -> Seq(Messages)]
        /\ \A j \in Connections : Len(queue'[j]) <= Capacity
    BY <1>15, <1>17, <2>1 DEF RegisterSubscriber
  <2>3. k \in asked  BY <1>17 DEF RegisterSubscriber, RegistrationInv, SessionStreamAssumption,
                                Connections
  <2>4. watermark' \in [Connections -> 0 .. MaxRows]
    BY <1>1, <1>17 DEF RegisterSubscriber, TypeOK
  <2>5. QED
    BY <1>17, <1>16, <2>2, <2>3, <2>4
       DEF RegisterSubscriber, TypeOK, durable, client, counts
<1>18. ASSUME NEW k \in Connections, RefuseSubscriber(k) PROVE TypeOK'
  <2>1. Rejection \in Messages  BY DEF Messages
  <2>2. /\ queue' \in [Connections -> Seq(Messages)]
        /\ \A j \in Connections : Len(queue'[j]) <= Capacity
    BY <1>15, <1>18, <2>1 DEF RefuseSubscriber
  <2>3. faults' \in 0 .. MaxFaults  BY <1>1, <1>18 DEF RefuseSubscriber
  <2>4. QED
    BY <1>18, <1>16, <2>2, <2>3 DEF RefuseSubscriber, TypeOK, durable, client
<1>19. ASSUME NEW k \in Connections, EndConnection(k) PROVE TypeOK'
  <2>1. /\ queue' \in [Connections -> Seq(Messages)]
        /\ \A j \in Connections : Len(queue'[j]) <= Capacity
    BY <1>19 DEF EndConnection, TypeOK, SessionStreamAssumption
  <2>2. following' \in BOOLEAN  BY <1>19 DEF EndConnection
  <2>3. QED BY <1>19, <2>1, <2>2 DEF EndConnection, TypeOK, durable, counts
<1>20. CASE UNCHANGED vars
  BY <1>20 DEF vars, TypeOK, durable, host, client, counts
<1>21. QED
  BY <1>2, <1>3, <1>4, <1>5, <1>6, <1>7, <1>8, <1>9, <1>10, <1>11, <1>12, <1>13, <1>14,
     <1>17, <1>18, <1>19, <1>20 DEF Next


-----------------------------------------------------------------------------
(* The invariants of runs and registrations.                               *)

\* The transcript only grows.
LEMMA RowsOnlyGrow ==
  ASSUME TypeOK, [Next]_vars
  PROVE  /\ Range(rows) \subseteq Range(rows')
         /\ DOMAIN rows = 1 .. Len(rows) /\ Len(rows) \in Nat
<1>1. rows \in Seq(Runs)  BY DEF TypeOK
<1>2. ASSUME NEW r \in Runs, rows' = Append(rows, r)
      PROVE  Range(rows) \subseteq Range(rows')
  BY <1>1, <1>2, RangeOfAppend
<1>3. ASSUME NEW r \in Runs, ConsumePendingUserTurns(r)
      PROVE  Range(rows) \subseteq Range(rows')
  <2>1. PICK n \in 2 .. MaxJoin : rows' = rows \o [i \in 1 .. n |-> r]
    BY <1>3 DEF ConsumePendingUserTurns
  <2>2. n \in Nat
    <3>1. MaxJoin \in Nat  BY SessionStreamAssumption DEF SessionStreamAssumption
    <3>2. QED BY <3>1
  <2> DEFINE new == [i \in 1 .. n |-> r]
  <2>3. new \in Seq(Runs)
    <3>1. new \in [1 .. n -> Runs]  OBVIOUS
    <3>2. QED BY <3>1, <2>2, SeqDef
  <2>4. rows' = rows \o new  BY <2>1
  <2> HIDE DEF new
  <2>5. QED BY <1>1, <2>3, <2>4, RangeOfConcat
<1>4. (\A r \in Runs : ~ConsumePendingUserTurns(r)) =>
        UNCHANGED rows \/ \E r \in Runs : rows' = Append(rows, r)
  BY DEF Next, vars, durable, AcceptUserTurn, Connect, Receive, RepeatUserTurn, Admit, Begin,
         CommitRow, FinishRun, ReadRun, Broadcast, NoSuccessor, ReadProjection,
         RegisterSubscriber, RefuseSubscriber, EndConnection
<1>5. QED BY <1>1, <1>2, <1>3, <1>4

\* A run comes into being with its row.
LEMMA RunsOpenStep ==
  ASSUME TypeOK, RunsOpenInv, [Next]_vars
  PROVE  RunsOpenInv'
<1>1. Range(rows) \subseteq Range(rows')  BY RowsOnlyGrow
<1>2. CASE AcceptUserTurn
  <2>1. PICK r \in Runs : status' = [status EXCEPT ![r] = "starting"] /\ rows' = Append(rows, r)
    BY <1>2 DEF AcceptUserTurn
  <2>2. rows \in Seq(Runs) /\ status \in [Runs -> Status]  BY DEF TypeOK
  <2>3. r \in Range(rows')  BY <2>1, <2>2, RangeOfAppend
  <2>4. QED BY <1>1, <2>1, <2>2, <2>3 DEF RunsOpenInv
<1>3. CASE \E r \in Runs : Begin(r) \/ FinishRun(r)
  <2>1. PICK r \in Runs : status[r] # "none" /\ \E s : status' = [status EXCEPT ![r] = s]
    BY <1>3 DEF Begin, FinishRun
  <2>2. \A q \in Runs : q # r => status'[q] = status[q]  BY <2>1 DEF TypeOK
  <2>3. QED BY <1>1, <2>1, <2>2 DEF RunsOpenInv
<1>4. CASE UNCHANGED status
  BY <1>1, <1>4 DEF RunsOpenInv
<1>5. QED
  BY <1>2, <1>3, <1>4
     DEF Next, vars, durable, Connect, Receive, RepeatUserTurn, Admit, CommitRow,
         ConsumePendingUserTurns, ReadRun, Broadcast, NoSuccessor, ReadProjection,
         RegisterSubscriber, RefuseSubscriber, EndConnection

\* A connection is no lock owner's name, and neither is the client's start.
LEMMA Names ==
  /\ Nobody \notin Connections /\ 0 \notin Connections
  /\ \A k \in Connections : k \in Nat \ {0}
<1>1. {Command, Retry, Nobody} \cap (1 .. MaxRuns \cup 0 .. MaxConnections) = {}
  BY SessionStreamAssumption DEF SessionStreamAssumption
<1>2. MaxConnections \in Nat  BY SessionStreamAssumption DEF SessionStreamAssumption
<1>3. QED BY <1>1, <1>2 DEF Connections

LEMMA RegistrationStep ==
  ASSUME TypeOK, RegistrationInv, [Next]_vars
  PROVE  RegistrationInv'
<1>1. /\ current \in Nat /\ subscribed \subseteq asked /\ asked \subseteq Connections
      /\ queue \in [Connections -> Seq(Messages)]
  <2>1. MaxConnections \in Nat  BY SessionStreamAssumption DEF SessionStreamAssumption
  <2>2. QED BY <2>1 DEF TypeOK
<1>2. CASE UNCHANGED host /\ current' >= current /\ current' \in Nat
  <2>1. 1 .. current \subseteq 1 .. current'  BY <1>1, <1>2
  <2>2. QED BY <1>2, <2>1 DEF RegistrationInv, host
<1>3. CASE Connect
  <2>1. current' = current + 1 /\ UNCHANGED host  BY <1>3 DEF Connect
  <2>2. current' >= current /\ current' \in Nat  BY <2>1, <1>1
  <2>3. QED BY <1>2, <2>1, <2>2
<1>4. CASE Receive
  <2>1. current \in Connections /\ queue[current] # <<>>  BY <1>4, ReceiveEffect
  <2>2. /\ queue' = [queue EXCEPT ![current] = Tail(queue[current])]
        /\ UNCHANGED <<asked, registry, subscribed, current>>
    BY <1>4, ReceiveEffect DEF Receive
  <2>3. current \in asked /\ registry # current  BY <2>1 DEF RegistrationInv
  <2>4. QED BY <1>1, <2>1, <2>2, <2>3 DEF RegistrationInv
<1>5. ASSUME NEW t \in Publishers, Broadcast(t) PROVE RegistrationInv'
  <2>1. /\ registry = Nobody /\ UNCHANGED <<registry, asked, current>>
        /\ \A k \in Connections : k \notin subscribed => queue'[k] = queue[k]
    BY <1>5, BroadcastEffect DEF Broadcast, client
  <2>2. ASSUME NEW k \in Connections, k \notin asked PROVE queue'[k] = <<>>
    BY <1>1, <2>1, <2>2 DEF RegistrationInv
  <2>3. QED BY <2>1, <2>2, Names DEF RegistrationInv
<1>6. ASSUME NEW k \in Connections, ReadProjection(k) PROVE RegistrationInv'
  <2>1. /\ k = current /\ k \notin asked /\ asked' = asked \cup {k} /\ registry' = k
        /\ UNCHANGED <<subscribed, queue, current>>
    BY <1>6 DEF ReadProjection, client
  <2>2. asked' \subseteq 1 .. current'  BY <1>1, <2>1, Names DEF RegistrationInv
  <2>3. registry' \in asked' \ subscribed'  BY <1>1, <2>1
  <2>4. \A j \in Connections : j \notin asked' \/ registry' = j => queue'[j] = <<>>
    BY <2>1 DEF RegistrationInv
  <2>5. QED BY <2>2, <2>3, <2>4 DEF RegistrationInv
<1>7. ASSUME NEW k \in Connections, RegisterSubscriber(k) \/ RefuseSubscriber(k)
      PROVE  RegistrationInv'
  <2>1. /\ registry = k /\ registry' = Nobody /\ UNCHANGED <<asked, current>>
        /\ \A j \in Connections : j # k => queue'[j] = queue[j]
    BY <1>1, <1>7 DEF RegisterSubscriber, RefuseSubscriber, client
  <2>2. k \in asked  BY <2>1, Names DEF RegistrationInv
  <2>3. QED BY <2>1, <2>2, Names DEF RegistrationInv
<1>8. ASSUME NEW k \in Connections, EndConnection(k) PROVE RegistrationInv'
  <2>1. /\ registry = Nobody /\ UNCHANGED <<registry, asked, current>>
        /\ queue' = [queue EXCEPT ![k] = <<>>]
    BY <1>8 DEF EndConnection
  <2>2. QED BY <1>1, <2>1, Names DEF RegistrationInv
<1>9. CASE UNCHANGED <<host, current>>
  <2>1. current' >= current /\ current' \in Nat  BY <1>9, <1>1
  <2>2. QED BY <1>2, <1>9, <2>1
<1>10. QED
  BY <1>3, <1>4, <1>5, <1>6, <1>7, <1>8, <1>9
     DEF Next, vars, client, AcceptUserTurn, RepeatUserTurn, Admit, Begin, CommitRow,
         ConsumePendingUserTurns, FinishRun, ReadRun, NoSuccessor


-----------------------------------------------------------------------------
(* The client's connection.                                                *)

\* While the client's connection stays registered, what arrives goes on to
\* arrive, and the watermark is kept or cleared.
LEMMA ArrivingStep ==
  ASSUME TypeOK, RegistrationInv, [Next]_vars, current' \in subscribed',
         ~RegisterSubscriber(current)
  PROVE  /\ current' = current /\ current \in subscribed /\ current \in Connections
         /\ \A i \in Nat \ {0} : Arrives(i) => Arrives(i)'
         /\ watermark'[current] \in {0, watermark[current]}
<1>1. /\ queue \in [Connections -> Seq(Messages)] /\ subscribed \subseteq Connections
      /\ asked \subseteq 1 .. current /\ subscribed \subseteq asked /\ current \in Nat
  <2>1. MaxConnections \in Nat  BY SessionStreamAssumption DEF SessionStreamAssumption
  <2>2. QED BY <2>1 DEF TypeOK, RegistrationInv
<1>2. CASE UNCHANGED <<current, subscribed, shown, queue, watermark>>
  BY <1>1, <1>2 DEF Arrives
<1>3. CASE Connect
  <2>1. current' = current + 1 /\ subscribed' = subscribed  BY <1>3 DEF Connect, host
  <2>2. current' \notin 1 .. current  BY <1>1, <2>1
  <2>3. QED BY <1>1, <2>1, <2>2
<1>4. CASE Receive
  <2>1. UNCHANGED <<current, subscribed, watermark>>  BY <1>4 DEF Receive
  <2>2. /\ Range(queue[current]) = {Head(queue[current])} \cup Range(Tail(queue[current]))
        /\ queue'[current] = Tail(queue[current])
    BY <1>1, <1>4, ReceiveEffect
  <2>3. /\ Range(shown) \subseteq Range(shown')
        /\ \A i \in Nat \ {0} : Carries(Head(queue[current]), i) => i \in Range(shown')
    BY <1>4, ReceiveShows
  <2>4. ASSUME NEW i \in Nat \ {0}, Arrives(i) PROVE Arrives(i)'
    <3>1. CASE i \in Range(shown)  BY <3>1, <2>3 DEF Arrives
    <3>2. CASE \E m \in Range(queue[current]) : Carries(m, i)
      <4>1. PICK m \in Range(queue[current]) : Carries(m, i)  BY <3>2
      <4>2. CASE m = Head(queue[current])  BY <4>1, <4>2, <2>3 DEF Arrives
      <4>3. CASE m \in Range(Tail(queue[current]))
        BY <4>1, <4>3, <2>1, <2>2 DEF Arrives, Carries
      <4>4. QED BY <4>1, <4>2, <4>3, <2>2
    <3>3. QED BY <2>4, <3>1, <3>2 DEF Arrives
  <2>5. QED BY <1>1, <2>1, <2>4
<1>5. ASSUME NEW t \in Publishers, Broadcast(t)
      PROVE  /\ current' = current /\ current \in subscribed /\ current \in Connections
             /\ \A i \in Nat \ {0} : Arrives(i) => Arrives(i)'
             /\ watermark'[current] \in {0, watermark[current]}
  <2>1. UNCHANGED <<current, shown>> /\ current \in subscribed
    BY <1>5, BroadcastEffect DEF Broadcast, client
  <2>2. current \in Connections  BY <1>1, <2>1
  <2>3. Range(queue[current]) \subseteq Range(queue'[current])
    BY <1>5, <2>2, BroadcastEffect
  <2>4. watermark'[current] \in {0, watermark[current]}  BY <1>5, <2>2 DEF Broadcast
  <2>5. QED BY <2>1, <2>2, <2>3, <2>4 DEF Arrives, Carries
<1>6. ASSUME NEW k \in Connections, RegisterSubscriber(k) \/ RefuseSubscriber(k)
      PROVE  /\ current' = current /\ current \in subscribed /\ current \in Connections
             /\ \A i \in Nat \ {0} : Arrives(i) => Arrives(i)'
             /\ watermark'[current] \in {0, watermark[current]}
  <2>1. /\ UNCHANGED <<current, shown>> /\ subscribed' \subseteq subscribed \cup {k}
        /\ registry = k /\ watermark \in [Connections -> 0 .. MaxRows]
    BY <1>6 DEF RegisterSubscriber, RefuseSubscriber, client, TypeOK
  <2>2. current # k
    <3>1. CASE RegisterSubscriber(k)  BY <3>1
    <3>2. CASE RefuseSubscriber(k)
      <4>1. subscribed' = subscribed  BY <3>2 DEF RefuseSubscriber
      <4>2. k \notin subscribed  BY <2>1, Names DEF RegistrationInv
      <4>3. QED BY <4>1, <4>2, <2>1
    <3>3. QED BY <1>6, <3>1, <3>2
  <2>3. current \in subscribed /\ current \in Connections  BY <1>1, <2>1, <2>2
  <2>4. queue'[current] = queue[current] /\ watermark'[current] = watermark[current]
    BY <1>1, <1>6, <2>1, <2>2, <2>3 DEF RegisterSubscriber, RefuseSubscriber
  <2>5. QED BY <2>1, <2>3, <2>4 DEF Arrives, Carries
<1>7. ASSUME NEW k \in Connections, EndConnection(k)
      PROVE  /\ current' = current /\ current \in subscribed /\ current \in Connections
             /\ \A i \in Nat \ {0} : Arrives(i) => Arrives(i)'
             /\ watermark'[current] \in {0, watermark[current]}
  <2>1. /\ UNCHANGED <<current, shown, watermark>> /\ subscribed' = subscribed \ {k}
        /\ queue' = [queue EXCEPT ![k] = <<>>]
    BY <1>7 DEF EndConnection
  <2>2. current \in subscribed /\ current \in Connections /\ current # k  BY <1>1, <2>1
  <2>3. queue'[current] = queue[current]  BY <1>1, <2>1, <2>2
  <2>4. QED BY <2>1, <2>2, <2>3 DEF Arrives, Carries
<1>8. ASSUME NEW k \in Connections, ReadProjection(k)
      PROVE  UNCHANGED <<current, subscribed, shown, queue, watermark>>
  BY <1>8 DEF ReadProjection, client
<1>9. QED
  BY <1>2, <1>3, <1>4, <1>5, <1>6, <1>7, <1>8
     DEF Next, vars, host, client, AcceptUserTurn, RepeatUserTurn, Admit, Begin, CommitRow,
         ConsumePendingUserTurns, FinishRun, ReadRun, NoSuccessor

\* A connection is registered with its reply queued, which carries every row
\* that is committed by then.
LEMMA RegisteredEffect ==
  ASSUME TypeOK, RegistrationInv, NEW k \in Connections, RegisterSubscriber(k)
  PROVE  /\ queue'[k] = <<Reply(Len(rows), projection)>>
         /\ watermark'[k] = Len(rows) /\ UNCHANGED <<rows, owed, current, shown, following>>
         /\ k = current => \A i \in 1 .. Len(rows) : Arrives(i)'
<1>1. /\ queue' = [queue EXCEPT ![k] = Append(@, Reply(Len(rows), projection))]
      /\ watermark' = [watermark EXCEPT ![k] = Len(rows)] /\ registry = k
      /\ UNCHANGED <<rows, owed, current, shown, following>>
  BY DEF RegisterSubscriber, durable, client
<1>2. queue[k] = <<>> /\ queue \in [Connections -> Seq(Messages)]
  BY <1>1 DEF RegistrationInv, TypeOK
<1>3. \A m : Append(<<>>, m) = <<m>> /\ Range(<<m>>) = {m}  BY DEF Range
<1>4. queue'[k] = <<Reply(Len(rows), projection)>>  BY <1>1, <1>2, <1>3
<1>5. watermark'[k] = Len(rows)  BY <1>1 DEF TypeOK
<1>6. ASSUME k = current, NEW i \in 1 .. Len(rows) PROVE Arrives(i)'
  <2>1. Reply(Len(rows), projection) \in Range(queue'[k])  BY <1>3, <1>4
  <2>2. Carries(Reply(Len(rows), projection), i)  BY DEF Carries, Reply
  <2>3. \E m \in Range(queue'[current']) : Carries(m, i)  BY <1>1, <1>6, <2>1, <2>2
  <2>4. QED BY <2>3 DEF Arrives, Carries
<1>7. QED BY <1>1, <1>4, <1>5, <1>6

LEMMA SnapshotStep ==
  ASSUME TypeOK, RegistrationInv, SnapshotInv, [Next]_vars
  PROVE  SnapshotInv'
<1> SUFFICES ASSUME current' \in subscribed', NEW i \in 1 .. watermark'[current']
             PROVE  Arrives(i)'
  BY DEF SnapshotInv
<1>1. CASE RegisterSubscriber(current)
  <2>1. current \in Connections
    <3>1. registry = current /\ current # Nobody
      <4>1. current \in 0 .. MaxConnections  BY DEF TypeOK
      <4>2. Nobody \notin 0 .. MaxConnections
        BY SessionStreamAssumption DEF SessionStreamAssumption
      <4>3. QED BY <1>1, <4>1, <4>2 DEF RegisterSubscriber
    <3>2. QED BY <3>1 DEF TypeOK
  <2>2. /\ watermark'[current] = Len(rows) /\ current' = current
        /\ \A j \in 1 .. Len(rows) : Arrives(j)'
    BY <1>1, <2>1, RegisteredEffect
  <2>3. QED BY <2>2
<1>2. CASE ~RegisterSubscriber(current)
  <2>1. /\ current' = current /\ current \in subscribed /\ current \in Connections
        /\ \A j \in Nat \ {0} : Arrives(j) => Arrives(j)'
        /\ watermark'[current] \in {0, watermark[current]}
    BY <1>2, ArrivingStep
  <2>2. watermark[current] \in Nat
    <3>1. MaxRows \in Nat  BY SessionStreamAssumption DEF SessionStreamAssumption
    <3>2. QED BY <3>1, <2>1 DEF TypeOK
  <2>3. i \in 1 .. watermark[current]
    BY <2>1, <2>2
  <2>4. i \in Nat \ {0} /\ Arrives(i)  BY <2>1, <2>2, <2>3 DEF SnapshotInv
  <2>5. QED BY <2>1, <2>4
<1>3. QED BY <1>1, <1>2


-----------------------------------------------------------------------------
(* A reply comes before any frame.                                         *)

LEMMA ReplyStep ==
  ASSUME TypeOK, RegistrationInv, ReplyPrecedesFrames, [Next]_vars
  PROVE  ReplyPrecedesFrames'
<1>1. /\ queue \in [Connections -> Seq(Messages)] /\ subscribed \subseteq Connections
      /\ asked \subseteq 1 .. current /\ subscribed \subseteq asked /\ current \in Nat
  <2>1. MaxConnections \in Nat  BY SessionStreamAssumption DEF SessionStreamAssumption
  <2>2. QED BY <2>1 DEF TypeOK, RegistrationInv
<1>2. CASE UNCHANGED <<current, subscribed, queue, following>>
  BY <1>2 DEF ReplyPrecedesFrames
<1>3. CASE Connect
  <2>1. current' = current + 1 /\ subscribed' = subscribed  BY <1>3 DEF Connect, host
  <2>2. current' \notin 1 .. current  BY <1>1, <2>1
  <2>3. QED BY <1>1, <2>1, <2>2 DEF ReplyPrecedesFrames
<1>4. CASE Receive
  <2>1. UNCHANGED <<current, subscribed>>  BY <1>4 DEF Receive
  <2>2. ASSUME current \in subscribed, ~following' PROVE FALSE
    <3>1. Head(queue[current]).kind = "reply" => following'
      BY <1>4 DEF Receive
    <3>2. ~following
      BY <2>2, <1>4 DEF Receive
    <3>3. QED BY <2>2, <3>1, <3>2 DEF ReplyPrecedesFrames
  <2>3. QED BY <2>1, <2>2 DEF ReplyPrecedesFrames
<1>5. ASSUME NEW t \in Publishers, Broadcast(t) PROVE ReplyPrecedesFrames'
  <2>1. UNCHANGED <<current, following>> /\ subscribed' \subseteq subscribed
    BY <1>5, BroadcastEffect DEF Broadcast, client
  <2>2. \A k \in Connections :
          queue[k] # <<>> => queue'[k] # <<>> /\ Head(queue'[k]) = Head(queue[k])
    BY <1>5, BroadcastEffect
  <2>3. QED BY <1>1, <2>1, <2>2 DEF ReplyPrecedesFrames
<1>6. ASSUME NEW k \in Connections, RegisterSubscriber(k) PROVE ReplyPrecedesFrames'
  <2>1. queue'[k] = <<Reply(Len(rows), projection)>> /\ UNCHANGED <<current, following>>
    BY <1>6, RegisteredEffect
  <2>2. queue'[k] # <<>> /\ Head(queue'[k]).kind = "reply"  BY <2>1 DEF Reply
  <2>3. /\ subscribed' = subscribed \cup {k}
        /\ \A j \in Connections \ {k} : queue'[j] = queue[j]
    BY <1>1, <1>6 DEF RegisterSubscriber
  <2>4. QED BY <1>1, <2>1, <2>2, <2>3 DEF ReplyPrecedesFrames
<1>7. ASSUME NEW k \in Connections, RefuseSubscriber(k) PROVE ReplyPrecedesFrames'
  <2>1. registry = k /\ UNCHANGED <<current, following, subscribed>>
    BY <1>7 DEF RefuseSubscriber, client
  <2>2. k \notin subscribed  BY <2>1, Names DEF RegistrationInv
  <2>3. \A j \in Connections \ {k} : queue'[j] = queue[j]  BY <1>1, <1>7 DEF RefuseSubscriber
  <2>4. QED BY <1>1, <2>1, <2>2, <2>3 DEF ReplyPrecedesFrames
<1>8. ASSUME NEW k \in Connections, EndConnection(k) PROVE ReplyPrecedesFrames'
  <2>1. /\ subscribed' = subscribed \ {k} /\ UNCHANGED current
        /\ following' = (following /\ k # current)
        /\ \A j \in Connections \ {k} : queue'[j] = queue[j]
    BY <1>1, <1>8 DEF EndConnection
  <2>2. QED BY <1>1, <2>1 DEF ReplyPrecedesFrames
<1>9. ASSUME NEW k \in Connections, ReadProjection(k)
      PROVE  UNCHANGED <<current, subscribed, queue, following>>
  BY <1>9 DEF ReadProjection, client
<1>10. QED
  BY <1>2, <1>3, <1>4, <1>5, <1>6, <1>7, <1>8, <1>9
     DEF Next, vars, host, client, AcceptUserTurn, RepeatUserTurn, Admit, Begin, CommitRow,
         ConsumePendingUserTurns, FinishRun, ReadRun, NoSuccessor

-----------------------------------------------------------------------------
(* No row is lost.                                                         *)

\* Some thread still owes the frame of a row.
Unsent(i) == \E t \in Publishers : RowOf(i) \in Range(owed[t])

\* A committed row's frame is owed from the commit on, until it is broadcast.
LEMMA OwedStep ==
  ASSUME TypeOK, RunsOpenInv, [Next]_vars, NEW i \in DOMAIN rows', i \in DOMAIN rows => Unsent(i)
  PROVE  Unsent(i)' \/ \E t \in Publishers : Broadcast(t) /\ Due(t) = RowOf(i)
<1>1. /\ rows \in Seq(Runs) /\ Len(rows) \in Nat /\ DOMAIN rows = 1 .. Len(rows)
      /\ Command \in Publishers /\ Runs \subseteq Publishers
      /\ owed \in [Publishers -> Seq(Publications)]
      /\ status \in [Runs -> Status]
  BY DEF TypeOK, Publishers
<1>2. ASSUME NEW t \in Publishers, NEW items, items \in Seq(Publications), Owe(t, items),
             i \in DOMAIN rows \/ RowOf(i) \in Range(items)
      PROVE  Unsent(i)'
  BY <1>2, OweEffect DEF Unsent
<1>3. ASSUME NEW t \in Publishers, ~Idle(t), owed' = [owed EXCEPT ![t] = Tail(@)],
             i \in DOMAIN rows
      PROVE  Unsent(i)' \/ Due(t) = RowOf(i)
  BY <1>3, PayEffect DEF Unsent
<1>4. ASSUME UNCHANGED <<rows, owed>> PROVE Unsent(i)'
  BY <1>4 DEF Unsent
<1>5. CASE AcceptUserTurn
  <2>1. PICK r \in Runs : /\ rows' = Append(rows, r)
                          /\ Owe(Command, <<RowOf(Len(rows) + 1), ReadOf(r)>>)
    BY <1>5 DEF AcceptUserTurn
  <2>2. Len(rows) + 1 \in 1 .. MaxRows
    <3>1. MaxRows \in Nat  BY SessionStreamAssumption DEF SessionStreamAssumption
    <3>2. QED BY <1>1, <1>5, <3>1 DEF AcceptUserTurn
  <2> DEFINE items == <<RowOf(Len(rows) + 1), ReadOf(r)>>
  <2>3. items \in Seq(Publications)  BY <2>2, ItemsTyped
  <2>4. RowOf(Len(rows) + 1) \in Range(items)  BY DEF Range
  <2>5. i \in DOMAIN rows \/ i = Len(rows) + 1  BY <1>1, <2>1
  <2>6. Owe(Command, items)  BY <2>1
  <2> HIDE DEF items
  <2>7. QED BY <1>1, <1>2, <2>3, <2>4, <2>5, <2>6
<1>6. ASSUME NEW r \in Runs, CommitRow(r) PROVE Unsent(i)'
  <2>1. PICK more \in {<<>>, <<ReadOf(r)>>} : Owe(r, <<RowOf(Len(rows) + 1)>> \o more)
    BY <1>6 DEF CommitRow
  <2>2. Len(rows) + 1 \in 1 .. MaxRows /\ rows' = Append(rows, r)
    <3>1. MaxRows \in Nat  BY SessionStreamAssumption DEF SessionStreamAssumption
    <3>2. QED BY <1>1, <1>6, <3>1 DEF CommitRow
  <2>3. more \in Seq(Publications)
    <3>1. ReadOf(r) \in Publications  BY ItemsTyped
    <3>2. <<ReadOf(r)>> \in Seq(Publications)  BY <3>1
    <3>3. CASE more = <<>>  BY <3>3
    <3>4. QED BY <2>1, <3>2, <3>3
  <2> DEFINE first == <<RowOf(Len(rows) + 1)>>
  <2>4. first \in Seq(Publications) /\ Range(first) = {RowOf(Len(rows) + 1)}
    <3>1. RowOf(Len(rows) + 1) \in Publications  BY <2>2, ItemsTyped
    <3>2. QED BY <3>1 DEF Range
  <2>5. Owe(r, first \o more)  BY <2>1
  <2>6. i \in DOMAIN rows \/ i = Len(rows) + 1  BY <1>1, <2>2
  <2> HIDE DEF first
  <2>7. first \o more \in Seq(Publications) /\ Range(first) \subseteq Range(first \o more)
    BY <2>3, <2>4, RangeOfConcat
  <2>8. QED BY <1>1, <1>2, <2>4, <2>5, <2>6, <2>7
<1>7. ASSUME NEW r \in Runs, ConsumePendingUserTurns(r) PROVE Unsent(i)'
  <2>1. PICK n \in 2 .. MaxJoin :
          /\ Len(rows) + n <= MaxRows
          /\ rows' = rows \o [j \in 1 .. n |-> r]
          /\ Owe(r, [j \in 1 .. n |-> RowOf(Len(rows) + j)])
    BY <1>7 DEF ConsumePendingUserTurns
  <2>2. MaxRows \in Nat /\ MaxJoin \in Nat
    BY SessionStreamAssumption DEF SessionStreamAssumption
  <2>3. n \in Nat /\ \A j \in 1 .. n : Len(rows) + j \in 1 .. MaxRows
    BY <1>1, <2>1, <2>2
  <2> DEFINE items == [j \in 1 .. n |-> RowOf(Len(rows) + j)]
             new == [j \in 1 .. n |-> r]
  <2>4. items \in Seq(Publications)
    <3>1. \A j \in 1 .. n : RowOf(Len(rows) + j) \in Publications  BY <2>3, ItemsTyped
    <3>2. items \in [1 .. n -> Publications]  BY <3>1
    <3>3. QED BY <3>2, <2>3, SeqDef
  <2>5. \A j \in 1 .. n : RowOf(Len(rows) + j) \in Range(items)  BY DEF Range
  <2>6. new \in Seq(Runs) /\ Len(new) = n
    <3>1. new \in [1 .. n -> Runs]  OBVIOUS
    <3>2. QED BY <3>1, <2>3, SeqDef
  <2>7. rows' = rows \o new /\ Owe(r, items)  BY <2>1
  <2> HIDE DEF items, new
  <2>8. DOMAIN rows' = 1 .. Len(rows) + n
    <3>1. rows \o new \in Seq(Runs) /\ Len(rows \o new) = Len(rows) + n
      BY <1>1, <2>3, <2>6, ConcatProperties
    <3>2. QED BY <2>7, <3>1
  <2>9. i \in DOMAIN rows \/ (i - Len(rows) \in 1 .. n /\ i = Len(rows) + (i - Len(rows)))
    BY <1>1, <2>3, <2>8
  <2>10. i \in DOMAIN rows \/ RowOf(i) \in Range(items)
    BY <2>5, <2>9
  <2>11. QED BY <1>1, <1>2, <2>4, <2>7, <2>10
<1>8. ASSUME NEW r \in Runs, RepeatUserTurn(r) PROVE Unsent(i)'
  <2>1. /\ rows' = rows
        /\ Owe(Command, <<RowOf(FirstRow(r))>> \o StatusCommit(r, status[r]))
    BY <1>8 DEF RepeatUserTurn, durable
  <2>2. FirstRow(r) \in 1 .. MaxRows
    <3>1. FirstRow(r) \in DOMAIN rows  BY <1>8, FirstRowExists DEF RepeatUserTurn
    <3>2. MaxRows \in Nat /\ Len(rows) <= MaxRows
      BY SessionStreamAssumption DEF SessionStreamAssumption, TypeOK
    <3>3. QED BY <1>1, <3>1, <3>2
  <2> DEFINE first == <<RowOf(FirstRow(r))>>
             then == StatusCommit(r, status[r])
  <2>3. first \in Seq(Publications)  BY <2>2, ItemsTyped
  <2>4. then \in Seq(Publications)  BY <1>1, ItemsTyped
  <2>5. Owe(Command, first \o then)  BY <2>1
  <2> HIDE DEF first, then
  <2>6. first \o then \in Seq(Publications)  BY <2>3, <2>4
  <2>7. QED BY <1>1, <1>2, <2>1, <2>5, <2>6
<1>9. ASSUME NEW r \in Runs, Begin(r) \/ FinishRun(r) PROVE Unsent(i)'
  <2>1. <<ReadOf(r)>> \in Seq(Publications) /\ StatusCommit(r, "ended") \in Seq(Publications)
    BY ItemsTyped DEF Status, TerminalStatus
  <2>2. UNCHANGED rows /\ (Owe(r, <<ReadOf(r)>>) \/ Owe(r, StatusCommit(r, "ended")))
    BY <1>9 DEF Begin, FinishRun
  <2>3. i \in DOMAIN rows /\ r \in Publishers  BY <1>1, <2>2
  <2>4. CASE Owe(r, <<ReadOf(r)>>)  BY <1>2, <2>1, <2>3, <2>4
  <2>5. CASE Owe(r, StatusCommit(r, "ended"))  BY <1>2, <2>1, <2>3, <2>5
  <2>6. QED BY <2>2, <2>4, <2>5
<1>10. ASSUME NEW t \in Publishers, ReadRun(t) PROVE Unsent(i)'
  <2>1. rows' = rows  BY <1>10 DEF ReadRun, durable
  <2>2. i \in Nat  BY <1>1, <2>1
  <2>3. QED BY <1>10, <2>1, <2>2, ReadRunEffect DEF Unsent
<1>11. ASSUME NEW t \in Publishers, ~Idle(t), Due(t) = Successor, UNCHANGED rows,
              owed' = [owed EXCEPT ![t] = Tail(@)]
       PROVE  Unsent(i)'
  <2>1. Successor # RowOf(i)  BY DEF Successor, RowOf
  <2>2. QED BY <1>3, <1>11, <2>1
<1>12. ASSUME NEW r \in Runs, Admit(r) PROVE Unsent(i)'
  BY <1>4, <1>11, <1>12 DEF Admit
<1>13. ASSUME NEW t \in Publishers, NoSuccessor(t) PROVE Unsent(i)'
  BY <1>11, <1>13 DEF NoSuccessor, durable
<1>14. ASSUME NEW t \in Publishers, Broadcast(t)
       PROVE  Unsent(i)' \/ Due(t) = RowOf(i)
  BY <1>3, <1>14 DEF Broadcast, durable
<1>15. QED
  BY <1>4, <1>5, <1>6, <1>7, <1>8, <1>9, <1>10, <1>12, <1>13, <1>14
     DEF Next, vars, durable, Connect, Receive, ReadProjection, RegisterSubscriber,
         RefuseSubscriber, EndConnection


LEMMA LossStep ==
  ASSUME TypeOK, RunsOpenInv, RegistrationInv, SnapshotInv, NoRowIsLost, [Next]_vars
  PROVE  NoRowIsLost'
<1> SUFFICES ASSUME current' \in subscribed', NEW i \in DOMAIN rows'
             PROVE  Arrives(i)' \/ Unsent(i)'
  BY DEF NoRowIsLost, Arrives, Unsent
<1>1. DOMAIN rows = 1 .. Len(rows) /\ Len(rows) \in Nat  BY RowsOnlyGrow
<1>2. CASE RegisterSubscriber(current)
  <2>1. current \in Connections
    <3>1. current \in 0 .. MaxConnections /\ registry = current
      BY <1>2 DEF TypeOK, RegisterSubscriber
    <3>2. Nobody \notin 0 .. MaxConnections
      BY SessionStreamAssumption DEF SessionStreamAssumption
    <3>3. QED BY <3>1, <3>2 DEF TypeOK
  <2>2. rows' = rows /\ \A j \in 1 .. Len(rows) : Arrives(j)'
    BY <1>2, <2>1, RegisteredEffect
  <2>3. QED BY <1>1, <2>2
<1>3. CASE ~RegisterSubscriber(current)
  <2>1. /\ current' = current /\ current \in subscribed /\ current \in Connections
        /\ \A j \in Nat \ {0} : Arrives(j) => Arrives(j)'
    BY <1>3, ArrivingStep
  <2>2. i \in DOMAIN rows => Arrives(i) \/ Unsent(i)
    BY <2>1 DEF NoRowIsLost, Arrives, Unsent
  <2>3. CASE i \in DOMAIN rows /\ Arrives(i)
    BY <1>1, <2>1, <2>3
  <2>4. CASE i \in DOMAIN rows => Unsent(i)
    <3>1. Unsent(i)' \/ \E t \in Publishers : Broadcast(t) /\ Due(t) = RowOf(i)
      BY <2>4, OwedStep
    <3>2. ASSUME NEW t \in Publishers, Broadcast(t), Due(t) = RowOf(i) PROVE Arrives(i)'
      <4>1. rows' = rows /\ i \in Nat \ {0}  BY <1>1, <3>2 DEF Broadcast, durable
      <4>2. Suppressed(current, Due(t)) \/ Due(t) \in Range(queue'[current'])
        BY <2>1, <3>2, BroadcastEffect
      <4>3. CASE Due(t) \in Range(queue'[current'])
        <5>1. Carries(RowOf(i), i)  BY DEF Carries, RowOf
        <5>2. \E m \in Range(queue'[current']) : Carries(m, i)  BY <3>2, <4>3, <5>1
        <5>3. QED BY <5>2 DEF Arrives, Carries
      <4>4. CASE Suppressed(current, Due(t))
        <5>1. watermark[current] = i  BY <3>2, <4>4 DEF Suppressed, RowOf
        <5>2. i \in 1 .. watermark[current]  BY <4>1, <5>1
        <5>3. Arrives(i)  BY <2>1, <5>2 DEF SnapshotInv
        <5>4. QED BY <2>1, <4>1, <5>3
      <4>5. QED BY <4>2, <4>3, <4>4
    <3>3. QED BY <3>1, <3>2
  <2>5. QED BY <2>2, <2>3, <2>4
<1>4. QED BY <1>2, <1>3

-----------------------------------------------------------------------------
(* The theorems.                                                           *)

LEMMA StreamInvariant == Spec => []StreamInv
<1>1. Init => StreamInv
  <2> SUFFICES ASSUME Init PROVE StreamInv  OBVIOUS
  <2>1. TypeOK  BY InitTyped
  <2>2. RunsOpenInv  BY DEF Init, RunsOpenInv
  <2>3. RegistrationInv  BY DEF Init, RegistrationInv
  <2>4. SnapshotInv /\ ReplyPrecedesFrames /\ NoRowIsLost
    BY DEF Init, SnapshotInv, ReplyPrecedesFrames, NoRowIsLost
  <2>5. QED BY <2>1, <2>2, <2>3, <2>4 DEF StreamInv
<1>2. StreamInv /\ [Next]_vars => StreamInv'
  BY TypeStep, RunsOpenStep, RegistrationStep, SnapshotStep, ReplyStep, LossStep DEF StreamInv
<1>3. QED BY <1>1, <1>2, PTL DEF Spec

\* Every state is of its type: a connection's queue never exceeds its bound, also
\* when a subscription is answered while frames are broadcast, and only rows that
\* exist are published and shown.
THEOREM StreamType == Spec => []TypeOK
<1>1. StreamInv => TypeOK  BY DEF StreamInv
<1>2. QED BY <1>1, StreamInvariant, PTL

\* Whatever is committed, published, retried, refused, registered and ended in
\* between, a registered client is shown every committed row, or its connection
\* carries the row, or a thread still owes its frame.
THEOREM NoRowIsLostAlways == Spec => []NoRowIsLost
<1>1. StreamInv => NoRowIsLost  BY DEF StreamInv
<1>2. QED BY <1>1, StreamInvariant, PTL

\* A registered client that has no reply yet finds it before any frame.
THEOREM ReplyPrecedesFramesAlways == Spec => []ReplyPrecedesFrames
<1>1. StreamInv => ReplyPrecedesFrames  BY DEF StreamInv
<1>2. QED BY <1>1, StreamInvariant, PTL


=============================================================================
