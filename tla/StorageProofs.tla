---------------------------- MODULE StorageProofs ----------------------------
(***************************************************************************)
(* Theorems about Storage for every set of sessions, keys, runs, texts and *)
(* calls and for every bound: first the types of the tables, then the      *)
(* transcript.  Every step has one of six shapes, told by what it does to  *)
(* turns, rows, runs and results; each invariant of the transcript is      *)
(* preserved by each shape, and each shape is one action of TurnDelivery,  *)
(* or none.                                                                *)
(***************************************************************************)
EXTENDS StorageDelivery, SequenceTheorems, TLAPS

-----------------------------------------------------------------------------
(* Rows and appends.                                                       *)

\* A turn row built from declared values is a row of the turns table.
LEMMA TurnTyped ==
  ASSUME epoch \in Nat, NEW s \in Sessions, NEW k \in Keys, NEW c \in Texts,
         NEW r \in RunIds, NEW state \in TurnState
  PROVE  Turn(s, k, c, r, state) \in TurnRow
BY DEF Turn, TurnRow

\* A message row built from declared values is a row of the messages table.
LEMMA RowTyped ==
  ASSUME NEW s \in Sessions, NEW r \in RunIds, NEW kind \in RowKind,
         NEW i \in Nat, NEW call \in Calls \cup {NoCall}
  PROVE  Row(s, r, kind, i, call) \in MessageRow
BY DEF Row, MessageRow

\* Appending keeps every earlier element and adds one at the end.
LEMMA Appended ==
  ASSUME NEW S, NEW q \in Seq(S), NEW e \in S
  PROVE  /\ Append(q, e) \in Seq(S)
         /\ Len(Append(q, e)) = Len(q) + 1
         /\ DOMAIN Append(q, e) = 1 .. Len(q) + 1
         /\ DOMAIN q = 1 .. Len(q)
         /\ \A i \in 1 .. Len(q) : Append(q, e)[i] = q[i]
         /\ Append(q, e)[Len(q) + 1] = e
         /\ Len(q) \in Nat
OBVIOUS

\* Changing the state of one turn changes nothing else of the table.
LEMMA StateChanged ==
  ASSUME NEW q \in Seq(TurnRow), NEW i \in DOMAIN q, NEW state \in TurnState
  PROVE  LET p == [q EXCEPT ![i].state = state]
         IN  /\ p \in Seq(TurnRow)
             /\ DOMAIN p = DOMAIN q
             /\ Len(p) = Len(q)
             /\ \A j \in DOMAIN q : p[j] = [q[j] EXCEPT !.state = IF j = i THEN state ELSE @]
<1>1. [q[i] EXCEPT !.state = state] \in TurnRow
  <2>1. q[i] \in TurnRow
    OBVIOUS
  <2>2. QED  BY <2>1 DEF TurnRow
<1>2. \A j \in DOMAIN q : q[j] = [q[j] EXCEPT !.state = @]
  <2>1. \A j \in DOMAIN q : q[j] \in TurnRow
    OBVIOUS
  <2>2. QED  BY <2>1 DEF TurnRow
<1>3. [q EXCEPT ![i].state = state] = [q EXCEPT ![i] = [q[i] EXCEPT !.state = state]]
  OBVIOUS
<1>4. QED
  BY <1>1, <1>2, <1>3, ExceptSeq, LenProperties

-----------------------------------------------------------------------------
(* The type invariant.                                                     *)

\* The rows a join appends, one per joined turn.
LEMMA JoinedRows ==
  ASSUME TypeOK, NEW s \in Sessions, NEW r \in RunIds,
         NEW q \in InRowidOrder(Pending(s))
  PROVE  LET new == [a \in DOMAIN q |-> Row(s, r, "user", q[a], NoCall)]
         IN  /\ new \in Seq(MessageRow)
             /\ Len(new) = Len(q)
             /\ Len(q) \in Nat
             /\ DOMAIN q = 1 .. Len(q)
             /\ \A a \in 1 .. Len(q) : q[a] \in Pending(s)
<1>0. Len(turns) \in Nat
  BY LenProperties DEF TypeOK
<1>0a. q \in UNION {[1 .. n -> Pending(s)] : n \in 0 .. Len(turns)}
  BY DEF InRowidOrder
<1>0b. PICK n \in 0 .. Len(turns) : q \in [1 .. n -> Pending(s)]
  BY <1>0a
<1>1. n \in Nat /\ q \in [1 .. n -> Pending(s)]
  BY <1>0, <1>0b
<1>2. Len(q) = n /\ DOMAIN q = 1 .. n
  BY <1>1
<1>3. \A a \in 1 .. n : q[a] \in Pending(s) /\ q[a] \in Nat
  BY <1>1, LenProperties DEF Pending, TypeOK
<1>4. \A a \in 1 .. n : Row(s, r, "user", q[a], NoCall) \in MessageRow
  BY <1>3, RowTyped DEF RowKind
<1>5. [a \in 1 .. n |-> Row(s, r, "user", q[a], NoCall)] \in [1 .. n -> MessageRow]
  BY <1>4
<1>6. [a \in 1 .. n |-> Row(s, r, "user", q[a], NoCall)] \in Seq(MessageRow)
  BY <1>5, SeqDef
<1>7. QED
  BY <1>1, <1>2, <1>3, <1>5, <1>6

\* Starting a run keeps the runs and the transcript well typed.
LEMMA StartRunTyped ==
  ASSUME TypeOK, NEW s \in Sessions, NEW i \in Nat, NEW r \in RunIds, NEW v \in Nat,
         StartRun(s, i, r, v)
  PROVE  runs' \in [RunIds -> RunRow] /\ rows' \in Seq(MessageRow) /\ born' \subseteq RunIds
<1>1. Row(s, r, "user", i, NoCall) \in MessageRow
  BY RowTyped DEF RowKind
<1>2. QED
  BY <1>1, Appended DEF StartRun, TypeOK, RunRow, ActiveStatus

\* Every step keeps every table well typed.
LEMMA TypeStep == TypeOK /\ [Next]_vars => TypeOK'
<1> SUFFICES ASSUME TypeOK, [Next]_vars PROVE TypeOK'
  OBVIOUS
<1>1. CASE Open
  <2>1. \A r \in RunIds : [runs[r] EXCEPT !.status = "interrupted"] \in RunRow
    BY DEF TypeOK, RunRow, TerminalStatus
  <2>2. QED  BY <1>1, <2>1 DEF Open, RecoverUnfinishedRuns, TypeOK
<1>2. CASE Crash
  BY <1>2 DEF Crash, TypeOK
<1>3. ASSUME NEW s \in Sessions, CreateSession(s) PROVE TypeOK'
  BY <1>3 DEF CreateSession, TypeOK
<1>4. ASSUME NEW s \in Sessions, NEW k \in Keys, NEW c \in Texts, NEW r \in RunIds,
             AcceptUserTurn(s, k, c, r)
      PROVE  TypeOK'
  <2>1. Turn(s, k, c, r, "pending") \in TurnRow /\ Turn(s, k, c, r, "started") \in TurnRow
    BY TurnTyped DEF TypeOK, TurnState
  <2>2. CASE QueuePendingTurn(s, k, c, r)
    BY <1>4, <2>1, <2>2, Appended DEF AcceptUserTurn, QueuePendingTurn, TypeOK
  <2>3. CASE StartOldestPending(s, k, c, r)
    <3>1. PICK i \in Pending(s) :
            /\ turns' = Append([turns EXCEPT ![i].state = "started"], Turn(s, k, c, r, "pending"))
            /\ StartRun(s, i, turns[i].run, turns[i].revision)
      BY <2>3 DEF StartOldestPending
    <3>2. i \in DOMAIN turns /\ i \in Nat /\ turns[i] \in TurnRow
      BY LenProperties DEF Pending, TypeOK
    <3>3. [turns EXCEPT ![i].state = "started"] \in Seq(TurnRow)
      BY <3>2, StateChanged DEF TypeOK, TurnState
    <3>4. turns' \in Seq(TurnRow)
      BY <2>1, <3>1, <3>3, Appended
    <3>5. turns[i].run \in RunIds /\ turns[i].revision \in Nat
      BY <3>2 DEF TurnRow
    <3>6. QED
      BY <1>4, <3>1, <3>2, <3>4, <3>5, StartRunTyped DEF AcceptUserTurn, TypeOK
  <2>4. CASE StartAcceptedTurn(s, k, c, r)
    <3>1. turns' \in Seq(TurnRow)
      BY <2>1, <2>4, Appended DEF StartAcceptedTurn, TypeOK
    <3>2. Len(turns) + 1 \in Nat /\ epoch \in Nat
      BY DEF TypeOK
    <3>3. StartRun(s, Len(turns) + 1, r, epoch)
      BY <2>4 DEF StartAcceptedTurn
    <3>4. QED
      BY <1>4, <3>1, <3>2, <3>3, StartRunTyped DEF AcceptUserTurn, TypeOK
  <2>5. QED  BY <1>4, <2>2, <2>3, <2>4 DEF AcceptUserTurn
<1>5. ASSUME NEW s \in Sessions, NEW i \in DOMAIN turns, RemoveTurn(s, i) PROVE TypeOK'
  BY <1>5, StateChanged DEF RemoveTurn, TypeOK, TurnState
<1>6. ASSUME NEW s \in Sessions, NEW r \in RunIds, ConsumePendingUserTurns(s, r)
      PROVE  TypeOK'
  <2>1. PICK q \in InRowidOrder(Pending(s)) :
          rows' = rows \o [a \in DOMAIN q |-> Row(s, r, "user", q[a], NoCall)]
    BY <1>6 DEF ConsumePendingUserTurns
  <2>2. rows' \in Seq(MessageRow)
    BY <2>1, JoinedRows, ConcatProperties DEF TypeOK
  <2>3. ASSUME NEW i \in DOMAIN turns
        PROVE  turns[i] \in TurnRow /\ [turns[i] EXCEPT !.state = "appended"] \in TurnRow
    <3>1. turns[i] \in TurnRow
      BY LenProperties, ElementOfSeq DEF TypeOK
    <3>2. QED  BY <3>1 DEF TurnRow, TurnState
  <2>4. turns' \in [1 .. Len(turns) -> TurnRow] /\ Len(turns) \in Nat
    BY <1>6, <2>3, LenProperties DEF ConsumePendingUserTurns, TypeOK
  <2>5. turns' \in Seq(TurnRow)
    BY <2>4, SeqDef
  <2>6. QED  BY <1>6, <2>2, <2>5 DEF ConsumePendingUserTurns, TypeOK
<1>7. ASSUME NEW s \in Sessions, NEW r \in RunIds, TransitionRun(s, r) PROVE TypeOK'
  BY <1>7 DEF TransitionRun, TypeOK, RunRow, ActiveStatus
<1>8. ASSUME NEW s \in Sessions, NEW r \in RunIds, NEW status \in TerminalStatus,
             NEW e \in Evidence, FinishRun(s, r, status, e)
      PROVE  TypeOK'
  BY <1>8 DEF FinishRun, TypeOK, RunRow
<1>9. ASSUME NEW s \in Sessions, NEW r \in RunIds, NEW kind \in RowKind,
             NEW call \in Calls \cup {NoCall}, AppendMessage(s, r, kind, call)
      PROVE  TypeOK'
  BY <1>9, RowTyped, Appended DEF AppendMessage, TypeOK
<1>10. ASSUME NEW s \in Sessions, NEW r \in RunIds, NEW call \in Calls,
              WriteToolResult(s, r, call)
       PROVE  TypeOK'
  <2>1. Row(s, r, "tool_result", 0, call) \in MessageRow
    BY RowTyped DEF RowKind
  <2>2. QED  BY <1>10, <2>1, Appended DEF WriteToolResult, TypeOK
<1>11. CASE UNCHANGED vars
  BY <1>11 DEF vars, TypeOK
<1>12. QED
  BY <1>1, <1>2, <1>3, <1>4, <1>5, <1>6, <1>7, <1>8, <1>9, <1>10, <1>11
     DEF Next, ExecutorWrites, RowKind

\* Every table holds only declared rows, also the transcript that a join
\* extends by several rows at once.
THEOREM StorageType == Spec => []TypeOK
<1>1. ASSUME Init PROVE TypeOK
  <2>1. NoRun \in RunRow
    BY DEF NoRun, RunRow
  <2>2. <<>> \in Seq(TurnRow) /\ <<>> \in Seq(MessageRow)
    BY EmptySeq
  <2>3. turns \in Seq(TurnRow) /\ rows \in Seq(MessageRow)
    BY <1>1, <2>2, Zenon DEF Init
  <2>4. runs \in [RunIds -> RunRow]
    BY <1>1, <2>1 DEF Init
  <2>5. QED
    BY <1>1, <2>3, <2>4 DEF Init, TypeOK
<1>2. QED
  BY <1>1, TypeStep, PTL DEF Spec

-----------------------------------------------------------------------------
(* What each acceptance, join and removal does to the tables, row by row.  *)

\* The new turn is the last row of its table and earlier rows are untouched,
\* but for the state of the turn in promoted.
TurnAdded(promoted, new) ==
  /\ DOMAIN turns' = 1 .. Len(turns) + 1
  /\ turns'[Len(turns) + 1] = new
  /\ \A j \in 1 .. Len(turns) :
       turns'[j] = [turns[j] EXCEPT !.state = IF j = promoted THEN "started" ELSE @]

\* Accepting a turn leaves a sequence of turn rows.
LEMMA TurnsTyped ==
  ASSUME TypeOK
  PROVE  /\ Len(turns) \in Nat /\ DOMAIN turns = 1 .. Len(turns)
         /\ Len(rows) \in Nat /\ DOMAIN rows = 1 .. Len(rows)
         /\ \A i \in 1 .. Len(turns) : /\ turns[i] \in TurnRow
                                       /\ turns[i] = [turns[i] EXCEPT !.state = @]
         /\ \A j \in 1 .. Len(rows) : rows[j] \in MessageRow
<1>1. \A i \in 1 .. Len(turns) : turns[i] \in TurnRow
  BY ElementOfSeq DEF TypeOK
<1>2. \A t \in TurnRow : t = [t EXCEPT !.state = @]
  BY DEF TurnRow
<1>3. QED
  BY <1>1, <1>2, ElementOfSeq, LenProperties DEF TypeOK

\* Queueing a turn appends it and promotes none.
LEMMA QueueEffect ==
  ASSUME TypeOK, NEW s \in Sessions, NEW k \in Keys, NEW c \in Texts, NEW r \in RunIds,
         QueuePendingTurn(s, k, c, r)
  PROVE  TurnAdded(0, Turn(s, k, c, r, "pending"))
<1>1. Turn(s, k, c, r, "pending") \in TurnRow
  BY TurnTyped DEF TypeOK, TurnState
<1>2. turns \in Seq(TurnRow)
  BY DEF TypeOK
<1>3. \A j \in 1 .. Len(turns) :
        turns[j] = [turns[j] EXCEPT !.state = IF j = 0 THEN "started" ELSE @]
  BY TurnsTyped
<1>4. QED
  BY <1>1, <1>2, <1>3, Appended DEF QueuePendingTurn, TurnAdded

\* A turn accepted by an idle, empty session is appended as started.
LEMMA AcceptedEffect ==
  ASSUME TypeOK, NEW s \in Sessions, NEW k \in Keys, NEW c \in Texts, NEW r \in RunIds,
         StartAcceptedTurn(s, k, c, r)
  PROVE  TurnAdded(0, Turn(s, k, c, r, "started"))
<1>1. Turn(s, k, c, r, "started") \in TurnRow
  BY TurnTyped DEF TypeOK, TurnState
<1>2. turns \in Seq(TurnRow)
  BY DEF TypeOK
<1>3. \A j \in 1 .. Len(turns) :
        turns[j] = [turns[j] EXCEPT !.state = IF j = 0 THEN "started" ELSE @]
  BY TurnsTyped
<1>4. QED
  BY <1>1, <1>2, <1>3, Appended DEF StartAcceptedTurn, TurnAdded

\* A turn accepted by an idle session with waiting turns promotes the
\* oldest of them and waits itself.
LEMMA PromotedEffect ==
  ASSUME TypeOK, NEW s \in Sessions, NEW k \in Keys, NEW c \in Texts, NEW r \in RunIds,
         StartOldestPending(s, k, c, r)
  PROVE  \E i \in Pending(s) :
           /\ OldestPending(s, i)
           /\ i \in 1 .. Len(turns)
           /\ TurnAdded(i, Turn(s, k, c, r, "pending"))
           /\ StartRun(s, i, turns[i].run, turns[i].revision)
<1>1. PICK i \in Pending(s) :
        /\ OldestPending(s, i)
        /\ turns' = Append([turns EXCEPT ![i].state = "started"], Turn(s, k, c, r, "pending"))
        /\ StartRun(s, i, turns[i].run, turns[i].revision)
  BY DEF StartOldestPending
<1>2. i \in DOMAIN turns /\ DOMAIN turns = 1 .. Len(turns) /\ turns \in Seq(TurnRow)
  BY TurnsTyped DEF Pending, TypeOK
<1>3. Turn(s, k, c, r, "pending") \in TurnRow
  BY TurnTyped DEF TypeOK, TurnState
<1> DEFINE p == [turns EXCEPT ![i].state = "started"]
<1>4. /\ p \in Seq(TurnRow) /\ DOMAIN p = DOMAIN turns /\ Len(p) = Len(turns)
      /\ \A j \in DOMAIN turns :
           p[j] = [turns[j] EXCEPT !.state = IF j = i THEN "started" ELSE @]
  BY <1>2, StateChanged DEF TurnState
<1>5. turns' = Append(p, Turn(s, k, c, r, "pending"))
  BY <1>1
<1> HIDE DEF p
<1> DEFINE new == Turn(s, k, c, r, "pending")
<1> HIDE DEF new
<1>5a. new \in TurnRow /\ turns' = Append(p, new)
  BY <1>3, <1>5 DEF new
<1>5b. /\ DOMAIN turns' = 1 .. Len(p) + 1
       /\ turns'[Len(p) + 1] = new
       /\ \A j \in 1 .. Len(p) : turns'[j] = p[j]
  BY <1>4, <1>5a, Appended
<1>5c. \A j \in 1 .. Len(turns) :
         turns'[j] = [turns[j] EXCEPT !.state = IF j = i THEN "started" ELSE @]
  BY <1>2, <1>4, <1>5b
<1>5d. TurnAdded(i, new)
  BY <1>4, <1>5b, <1>5c DEF TurnAdded
<1>6. TurnAdded(i, Turn(s, k, c, r, "pending"))
  BY <1>5d DEF new
<1>7. QED
  BY <1>1, <1>2, <1>6

\* One row is appended to the transcript.
RowAdded(new) ==
  /\ DOMAIN rows' = 1 .. Len(rows) + 1
  /\ rows'[Len(rows) + 1] = new
  /\ \A j \in 1 .. Len(rows) : rows'[j] = rows[j]

\* Appending a row adds that row and keeps the others.
LEMMA RowEffect ==
  ASSUME TypeOK, NEW new \in MessageRow, rows' = Append(rows, new)
  PROVE  RowAdded(new)
BY Appended DEF TypeOK, RowAdded

\* Starting a run adds its user message and touches no other run.
LEMMA StartRunEffect ==
  ASSUME TypeOK, NEW s \in Sessions, NEW i \in Nat, NEW r \in RunIds, NEW v \in Nat,
         StartRun(s, i, r, v)
  PROVE  RowAdded(Row(s, r, "user", i, NoCall))
<1>1. Row(s, r, "user", i, NoCall) \in MessageRow
  BY RowTyped DEF RowKind
<1>2. QED  BY <1>1, RowEffect DEF StartRun

\* The turns of q are appended to the transcript and leave the queue.
Joined(s, r, q) ==
  /\ DOMAIN rows' = 1 .. Len(rows) + Len(q)
  /\ \A j \in 1 .. Len(rows) : rows'[j] = rows[j]
  /\ \A a \in 1 .. Len(q) : rows'[Len(rows) + a] = Row(s, r, "user", q[a], NoCall)
  /\ DOMAIN turns' = DOMAIN turns
  /\ \A i \in DOMAIN turns :
       turns'[i] = [turns[i] EXCEPT !.state = IF i \in Pending(s) THEN "appended" ELSE @]

\* A join appends one user row per pending turn and settles exactly those.
LEMMA JoinEffect ==
  ASSUME TypeOK, NEW s \in Sessions, NEW r \in RunIds, ConsumePendingUserTurns(s, r)
  PROVE  \E q \in InRowidOrder(Pending(s)) :
           Joined(s, r, q) /\ Len(q) \in Nat /\ DOMAIN q = 1 .. Len(q)
<1>1. PICK q \in InRowidOrder(Pending(s)) :
        rows' = rows \o [a \in DOMAIN q |-> Row(s, r, "user", q[a], NoCall)]
  BY DEF ConsumePendingUserTurns
<1> DEFINE new == [a \in DOMAIN q |-> Row(s, r, "user", q[a], NoCall)]
<1>2. /\ new \in Seq(MessageRow) /\ Len(new) = Len(q) /\ Len(q) \in Nat
      /\ DOMAIN q = 1 .. Len(q)
  BY JoinedRows
<1>3. \A a \in 1 .. Len(q) : new[a] = Row(s, r, "user", q[a], NoCall)
  BY <1>2
<1>4. rows' = rows \o new /\ rows \in Seq(MessageRow) /\ Len(rows) \in Nat
  BY <1>1, LenProperties DEF TypeOK
<1> HIDE DEF new
<1>5. /\ rows' \in Seq(MessageRow)
      /\ Len(rows') = Len(rows) + Len(q)
      /\ \A j \in 1 .. Len(rows) + Len(q) :
           rows'[j] = IF j <= Len(rows) THEN rows[j] ELSE new[j - Len(rows)]
  <2>1. /\ rows \o new \in Seq(MessageRow)
        /\ Len(rows \o new) = Len(rows) + Len(new)
        /\ \A j \in 1 .. Len(rows) + Len(new) :
             (rows \o new)[j] = IF j <= Len(rows) THEN rows[j] ELSE new[j - Len(rows)]
    BY <1>2, <1>4, ConcatProperties
  <2>2. QED  BY <1>2, <1>4, <2>1
<1>6. DOMAIN rows' = 1 .. Len(rows) + Len(q)
  BY <1>5, LenProperties
<1>7. \A j \in 1 .. Len(rows) : rows'[j] = rows[j]
  BY <1>2, <1>4, <1>5
<1>8. ASSUME NEW a \in 1 .. Len(q)
      PROVE  rows'[Len(rows) + a] = Row(s, r, "user", q[a], NoCall)
  <2>1. Len(rows) + a \in 1 .. Len(rows) + Len(q) /\ ~(Len(rows) + a <= Len(rows))
        /\ Len(rows) + a - Len(rows) = a
    BY <1>2, <1>4
  <2>2. QED  BY <1>3, <1>5, <2>1
<1>9. DOMAIN turns' = DOMAIN turns /\ \A i \in DOMAIN turns :
        turns'[i] = [turns[i] EXCEPT !.state = IF i \in Pending(s) THEN "appended" ELSE @]
  <2>1. turns' = [i \in DOMAIN turns |-> IF i \in Pending(s)
                                         THEN [turns[i] EXCEPT !.state = "appended"]
                                         ELSE turns[i]]
    BY DEF ConsumePendingUserTurns
  <2>2. \A i \in DOMAIN turns : turns[i] = [turns[i] EXCEPT !.state = @]
    BY TurnsTyped
  <2>3. QED  BY <2>1, <2>2
<1>10. QED
  BY <1>2, <1>6, <1>7, <1>8, <1>9 DEF Joined

\* Removing a turn changes the state of that turn alone.
LEMMA RemoveEffect ==
  ASSUME TypeOK, NEW s \in Sessions, NEW i \in DOMAIN turns, RemoveTurn(s, i)
  PROVE  /\ DOMAIN turns' = DOMAIN turns
         /\ \A j \in DOMAIN turns :
              turns'[j] = [turns[j] EXCEPT !.state = IF j = i THEN "removed" ELSE @]
BY StateChanged DEF RemoveTurn, TypeOK, TurnState

-----------------------------------------------------------------------------
(* One active run per session, and none that outlives its process.         *)

RunsInv == OneActiveRun /\ ActiveRunsAreOfThisProcess

\* A run started in a session that has none is its only active run.
LEMMA StartRunKeepsOne ==
  ASSUME TypeOK, RunsInv, NEW s \in Sessions, NEW i \in Nat, NEW r \in RunIds, NEW v \in Nat,
         StartRun(s, i, r, v), ~HasActiveRun(s), UNCHANGED up
  PROVE  RunsInv'
<1>1. /\ runs'[r].session = s
      /\ \A q \in RunIds : q # r => runs'[q] = runs[q]
  BY DEF StartRun, TypeOK
<1>2. born' = born \cup {r}
  BY DEF StartRun
<1>3. OneActiveRun'
  BY <1>1 DEF RunsInv, OneActiveRun, HasActiveRun, Active
<1>4. ActiveRunsAreOfThisProcess'
  BY <1>1, <1>2 DEF RunsInv, ActiveRunsAreOfThisProcess, Active
<1>5. QED  BY <1>3, <1>4 DEF RunsInv

\* A step that only ends or advances runs that are active keeps both facts.
LEMMA RunsOnlyEnd ==
  ASSUME RunsInv, UNCHANGED <<up, born>>,
         \A r \in RunIds : (Active(r))' => Active(r),
         \A r \in RunIds : runs'[r].session = runs[r].session
  PROVE  RunsInv'
BY DEF RunsInv, OneActiveRun, ActiveRunsAreOfThisProcess

\* Every step keeps one active run per session, started by this process.
LEMMA RunsStep == TypeOK /\ RunsInv /\ [Next]_vars => RunsInv'
<1> SUFFICES ASSUME TypeOK, RunsInv, [Next]_vars PROVE RunsInv'
  OBVIOUS
<1>1. CASE Open
  <2>1. \A r \in RunIds : ~(Active(r))'
    BY <1>1 DEF Open, RecoverUnfinishedRuns, Active, TypeOK, RunRow, ActiveStatus
  <2>2. QED
    BY <2>1 DEF RunsInv, OneActiveRun, ActiveRunsAreOfThisProcess
<1>2. CASE Crash
  BY <1>2 DEF Crash, RunsInv, OneActiveRun, ActiveRunsAreOfThisProcess, Active
<1>3. ASSUME NEW s \in Sessions, CreateSession(s) PROVE RunsInv'
  BY <1>3, RunsOnlyEnd DEF CreateSession, Active
<1>4. ASSUME NEW s \in Sessions, NEW k \in Keys, NEW c \in Texts, NEW r \in RunIds,
             AcceptUserTurn(s, k, c, r)
      PROVE  RunsInv'
  <2>1. CASE QueuePendingTurn(s, k, c, r)
    BY <1>4, <2>1, RunsOnlyEnd DEF AcceptUserTurn, QueuePendingTurn, Active
  <2>2. CASE StartOldestPending(s, k, c, r)
    <3>1. PICK i \in Pending(s) :
            i \in 1 .. Len(turns) /\ StartRun(s, i, turns[i].run, turns[i].revision)
      BY <2>2, PromotedEffect
    <3>2. i \in Nat /\ turns[i].run \in RunIds /\ turns[i].revision \in Nat
      BY <3>1, TurnsTyped DEF TurnRow
    <3>3. QED
      BY <1>4, <2>2, <3>1, <3>2, StartRunKeepsOne DEF AcceptUserTurn, StartOldestPending
  <2>3. CASE StartAcceptedTurn(s, k, c, r)
    <3>1. Len(turns) + 1 \in Nat /\ epoch \in Nat
      BY TurnsTyped DEF TypeOK
    <3>2. QED
      BY <1>4, <2>3, <3>1, StartRunKeepsOne DEF AcceptUserTurn, StartAcceptedTurn
  <2>4. QED  BY <1>4, <2>1, <2>2, <2>3 DEF AcceptUserTurn
<1>5. ASSUME NEW s \in Sessions, NEW i \in DOMAIN turns, RemoveTurn(s, i) PROVE RunsInv'
  BY <1>5, RunsOnlyEnd DEF RemoveTurn, Active
<1>6. ASSUME NEW s \in Sessions, NEW r \in RunIds, ExecutorWrites(s, r) PROVE RunsInv'
  <2>1. CASE TransitionRun(s, r)
    <3>1. \A q \in RunIds : /\ (Active(q))' => Active(q)
                            /\ runs'[q].session = runs[q].session
      BY <2>1 DEF TransitionRun, Active, TypeOK, RunRow, ActiveStatus
    <3>2. QED  BY <2>1, <3>1, RunsOnlyEnd DEF TransitionRun
  <2>2. ASSUME NEW status \in TerminalStatus, NEW e \in Evidence, FinishRun(s, r, status, e)
        PROVE  RunsInv'
    <3>1. \A q \in RunIds : /\ (Active(q))' => Active(q)
                            /\ runs'[q].session = runs[q].session
      BY <2>2 DEF FinishRun, RequireActiveRun, Active, TypeOK, RunRow, ActiveStatus
    <3>2. QED  BY <2>2, <3>1, RunsOnlyEnd DEF FinishRun
  <2>3. CASE UNCHANGED <<runs, up, born>>
    BY <2>3, RunsOnlyEnd DEF Active
  <2>4. QED
    BY <1>6, <2>1, <2>2, <2>3
       DEF ExecutorWrites, ConsumePendingUserTurns, AppendMessage, WriteToolResult
<1>7. CASE UNCHANGED vars
  BY <1>7, RunsOnlyEnd DEF vars, Active
<1>8. QED
  BY <1>1, <1>2, <1>3, <1>4, <1>5, <1>6, <1>7 DEF Next

\* A session never owns two runs that accept writes.
THEOREM OneActiveRunAlways == Spec => []OneActiveRun
<1>1. Init => RunsInv
  BY DEF Init, RunsInv, OneActiveRun, ActiveRunsAreOfThisProcess, Active, NoRun, ActiveStatus
<1>2. RunsInv => OneActiveRun
  BY DEF RunsInv
<1>3. QED
  BY <1>1, <1>2, RunsStep, StorageType, PTL DEF Spec

\* While a process serves, no run of an earlier process still looks alive.
THEOREM RecoveredRunsAlways == Spec => []ActiveRunsAreOfThisProcess
<1>1. Init => RunsInv
  BY DEF Init, RunsInv, OneActiveRun, ActiveRunsAreOfThisProcess, Active, NoRun, ActiveStatus
<1>2. RunsInv => ActiveRunsAreOfThisProcess
  BY DEF RunsInv
<1>3. QED
  BY <1>1, <1>2, RunsStep, StorageType, PTL DEF Spec

-----------------------------------------------------------------------------
(* Turn and run identities.                                                *)

TurnsInv == TurnIdentitiesUnique /\ RunsMatchStartedTurns

\* A turn whose key and run are new keeps identities unique, whatever turn the
\* same step promotes.
LEMMA AddedTurnUnique ==
  ASSUME TypeOK, TurnIdentitiesUnique, NEW s \in Sessions, NEW k \in Keys, NEW c \in Texts,
         NEW r \in RunIds, NEW state \in TurnState, NEW promoted \in Nat,
         Acceptable(s, k, r), TurnAdded(promoted, Turn(s, k, c, r, state))
  PROVE  TurnIdentitiesUnique'
<1> DEFINE n == Len(turns)
<1>1. /\ n \in Nat /\ DOMAIN turns = 1 .. n /\ DOMAIN turns' = 1 .. n + 1
      /\ \A j \in 1 .. n : turns[j] \in TurnRow
  BY TurnsTyped DEF TurnAdded
<1>2. \A j \in 1 .. n : /\ turns'[j].run = turns[j].run /\ turns'[j].key = turns[j].key
                        /\ turns'[j].session = turns[j].session
  BY <1>1 DEF TurnAdded, TurnRow
<1>3. turns'[n + 1].run = r /\ turns'[n + 1].key = k /\ turns'[n + 1].session = s
  BY DEF TurnAdded, Turn
<1>4. \A j \in 1 .. n : turns[j].run # r /\ (turns[j].session = s => turns[j].key # k)
  BY <1>1 DEF Acceptable, KeyBound, ProposedRunIdentityIsBound
<1> HIDE DEF n
<1>5. \A i \in 1 .. n + 1 : i \in 1 .. n \/ i = n + 1
  BY <1>1
<1>6. SUFFICES ASSUME NEW i \in 1 .. n + 1, NEW j \in 1 .. n + 1, i # j
               PROVE  /\ turns'[i].run # turns'[j].run
                      /\ turns'[i].session = turns'[j].session => turns'[i].key # turns'[j].key
  BY <1>1 DEF TurnIdentitiesUnique
<1>7. CASE i \in 1 .. n /\ j \in 1 .. n
  BY <1>1, <1>2, <1>6, <1>7 DEF TurnIdentitiesUnique
<1>8. CASE i = n + 1 /\ j \in 1 .. n
  BY <1>2, <1>3, <1>4, <1>8
<1>9. CASE i \in 1 .. n /\ j = n + 1
  BY <1>2, <1>3, <1>4, <1>9
<1>10. QED
  BY <1>5, <1>6, <1>7, <1>8, <1>9

\* A step that changes only the states of pending turns, none of them to
\* started, and only the status and evidence of runs, keeps the invariant.
LEMMA TurnsKept ==
  ASSUME TypeOK, TurnsInv,
         DOMAIN turns' = DOMAIN turns,
         \A i \in DOMAIN turns :
           \/ turns'[i] = turns[i]
           \/ /\ turns[i].state = "pending"
              /\ \E state \in TurnState \ {"started"} :
                   turns'[i] = [turns[i] EXCEPT !.state = state],
         \A r \in RunIds :
           /\ runs'[r].status # "absent" => runs[r].status # "absent"
           /\ runs'[r].turn = runs[r].turn /\ runs'[r].session = runs[r].session
           /\ runs'[r].revision = runs[r].revision
  PROVE  TurnsInv'
<1>1. \A i \in DOMAIN turns :
        /\ turns[i] \in TurnRow
        /\ turns'[i].run = turns[i].run /\ turns'[i].key = turns[i].key
        /\ turns'[i].session = turns[i].session /\ turns'[i].revision = turns[i].revision
        /\ turns'[i].state = "started" <=> turns[i].state = "started"
  BY TurnsTyped DEF TurnRow
<1>2. TurnIdentitiesUnique'
  BY <1>1 DEF TurnsInv, TurnIdentitiesUnique
<1>3. RunsMatchStartedTurns'
  BY <1>1 DEF TurnsInv, RunsMatchStartedTurns, TurnRow
<1>4. QED  BY <1>2, <1>3 DEF TurnsInv

\* The run of a turn that has not started does not exist.
LEMMA NotStartedHasNoRun ==
  ASSUME TypeOK, TurnsInv, NEW i \in DOMAIN turns, turns[i].state # "started"
  PROVE  runs[turns[i].run].status = "absent"
<1>1. turns[i] \in TurnRow
  BY TurnsTyped
<1>2. QED
  BY <1>1 DEF TurnsInv, TurnIdentitiesUnique, RunsMatchStartedTurns, TurnRow

\* Every step keeps identities unique and runs matched with their turns.
LEMMA TurnsStep == TypeOK /\ TurnsInv /\ [Next]_vars => TurnsInv'
<1> SUFFICES ASSUME TypeOK, TurnsInv, [Next]_vars PROVE TurnsInv'
  OBVIOUS
<1>0. \A i \in DOMAIN turns : turns[i] \in TurnRow
  BY TurnsTyped
<1>1. CASE Open
  <2>1. \A r \in RunIds :
          /\ runs'[r].status # "absent" => runs[r].status # "absent"
          /\ runs'[r].turn = runs[r].turn /\ runs'[r].session = runs[r].session
          /\ runs'[r].revision = runs[r].revision
    BY <1>1 DEF Open, RecoverUnfinishedRuns, Active, ActiveStatus, TypeOK, RunRow
  <2>2. QED  BY <1>1, <2>1, TurnsKept DEF Open
<1>2. ASSUME UNCHANGED <<turns, runs>> PROVE TurnsInv'
  BY <1>2 DEF TurnsInv, TurnIdentitiesUnique, RunsMatchStartedTurns
<1>3. ASSUME NEW s \in Sessions, NEW k \in Keys, NEW c \in Texts, NEW r \in RunIds,
             AcceptUserTurn(s, k, c, r)
      PROVE  TurnsInv'
  <2> DEFINE n == Len(turns)
  <2>0. n \in Nat /\ DOMAIN turns = 1 .. n /\ n + 1 \notin 1 .. n /\ 0 \notin 1 .. n
    BY TurnsTyped
  <2>1. CASE QueuePendingTurn(s, k, c, r)
    <3>1. TurnAdded(0, Turn(s, k, c, r, "pending")) /\ UNCHANGED runs
      BY <2>1, QueueEffect DEF QueuePendingTurn
    <3>2. TurnIdentitiesUnique'
      BY <1>3, <3>1, AddedTurnUnique DEF AcceptUserTurn, TurnsInv, TurnState
    <3>3. \A j \in 1 .. n : turns'[j] = turns[j]
      BY <2>0, <3>1, TurnsTyped DEF TurnAdded
    <3>4. turns'[n + 1].state # "started"
      BY <3>1 DEF TurnAdded, Turn
    <3>5. DOMAIN turns' = 1 .. n + 1
      BY <3>1 DEF TurnAdded
    <3>6. RunsMatchStartedTurns'
      BY <2>0, <3>1, <3>3, <3>4, <3>5 DEF TurnsInv, RunsMatchStartedTurns
    <3>7. QED  BY <3>2, <3>6 DEF TurnsInv
  <2>2. CASE StartOldestPending(s, k, c, r)
    <3>1. PICK i \in Pending(s) :
            /\ i \in 1 .. n
            /\ TurnAdded(i, Turn(s, k, c, r, "pending"))
            /\ StartRun(s, i, turns[i].run, turns[i].revision)
      BY <2>2, PromotedEffect
    <3>2. /\ turns[i] \in TurnRow /\ turns[i].session = s /\ turns[i].state = "pending"
          /\ turns[i].run \in RunIds
      BY <1>0, <2>0, <3>1 DEF Pending, TurnRow
    <3>3. TurnIdentitiesUnique'
      BY <1>3, <2>0, <3>1, AddedTurnUnique DEF AcceptUserTurn, TurnsInv, TurnState
    <3>4. /\ DOMAIN turns' = 1 .. n + 1
          /\ \A j \in 1 .. n : j # i => turns'[j] = turns[j]
          /\ turns'[i] = [turns[i] EXCEPT !.state = "started"]
          /\ turns'[n + 1].state = "pending"
      BY <2>0, <3>1, TurnsTyped DEF TurnAdded, Turn
    <3>5. runs' = [runs EXCEPT ![turns[i].run] =
                     [session |-> s, turn |-> i, revision |-> turns[i].revision,
                      status |-> "starting", evidence |-> NoEvidence]]
      BY <3>1 DEF StartRun
    <3>6. runs[turns[i].run].status = "absent"
      BY <2>0, <3>1, <3>2, NotStartedHasNoRun
    <3>7. \A q \in RunIds : q # turns[i].run => runs'[q] = runs[q]
      BY <3>5 DEF TypeOK
    <3>8. /\ runs'[turns[i].run].turn = i /\ runs'[turns[i].run].session = s
          /\ runs'[turns[i].run].revision = turns[i].revision
      BY <3>2, <3>5 DEF TypeOK
    <3>9. \A j \in 1 .. n : turns'[j].run = turns[j].run /\ turns'[j].session = turns[j].session
                            /\ turns'[j].revision = turns[j].revision
      BY <1>0, <2>0, <3>4 DEF TurnRow
    <3>9a. turns'[i].state = "started"
      BY <3>2, <3>4 DEF TurnRow
    <3>10. ASSUME NEW q \in RunIds, runs'[q].status # "absent"
           PROVE  /\ runs'[q].turn \in DOMAIN turns'
                  /\ LET t == turns'[runs'[q].turn]
                     IN  /\ t.run = q /\ t.session = runs'[q].session
                         /\ t.revision = runs'[q].revision /\ t.state = "started"
      <4>1. CASE q = turns[i].run
        <5>1. runs'[q].turn = i /\ runs'[q].session = s /\ runs'[q].revision = turns[i].revision
          BY <3>8, <4>1
        <5>2. i \in DOMAIN turns'
          BY <2>0, <3>1, <3>4
        <5>3. /\ turns'[i].run = q /\ turns'[i].session = s
              /\ turns'[i].revision = turns[i].revision
          BY <3>1, <3>2, <3>9, <4>1
        <5>4. QED  BY <3>9a, <5>1, <5>2, <5>3
      <4>2. CASE q # turns[i].run
        <5>1. runs[q].status # "absent" /\ runs'[q] = runs[q]
          BY <3>7, <3>10, <4>2
        <5>2. /\ runs[q].turn \in 1 .. n
              /\ turns[runs[q].turn].run = q /\ turns[runs[q].turn].state = "started"
              /\ turns[runs[q].turn].session = runs[q].session
              /\ turns[runs[q].turn].revision = runs[q].revision
          BY <2>0, <5>1 DEF TurnsInv, RunsMatchStartedTurns
        <5>3. runs[q].turn # i
          BY <3>2, <5>2
        <5>4. turns'[runs[q].turn] = turns[runs[q].turn]
          BY <3>4, <5>2, <5>3
        <5>5. QED  BY <2>0, <3>4, <5>1, <5>2, <5>4
      <4>3. QED  BY <4>1, <4>2
    <3>11. ASSUME NEW j \in DOMAIN turns', turns'[j].state = "started"
           PROVE  runs'[turns'[j].run].turn = j
      <4>1. j \in 1 .. n
        BY <2>0, <3>4, <3>11
      <4>2. CASE j = i
        BY <3>8, <3>9, <4>1, <4>2
      <4>3. CASE j # i
        <5>1. turns[j].state = "started" /\ turns'[j] = turns[j] /\ turns[j] \in TurnRow
          BY <1>0, <2>0, <3>4, <3>11, <4>1, <4>3
        <5>2. turns[j].run # turns[i].run
          BY <2>0, <3>1, <4>1, <4>3 DEF TurnsInv, TurnIdentitiesUnique
        <5>3. turns[j].run \in RunIds
          BY <5>1 DEF TurnRow
        <5>4. QED
          BY <2>0, <3>7, <4>1, <5>1, <5>2, <5>3 DEF TurnsInv, RunsMatchStartedTurns
      <4>4. QED  BY <4>2, <4>3
    <3>12. RunsMatchStartedTurns'
      BY <3>10, <3>11 DEF RunsMatchStartedTurns
    <3>13. QED  BY <3>3, <3>12 DEF TurnsInv
  <2>3. CASE StartAcceptedTurn(s, k, c, r)
    <3>1. TurnAdded(0, Turn(s, k, c, r, "started"))
      BY <2>3, AcceptedEffect
    <3>2. TurnIdentitiesUnique'
      BY <1>3, <3>1, AddedTurnUnique DEF AcceptUserTurn, TurnsInv, TurnState
    <3>3. /\ DOMAIN turns' = 1 .. n + 1
          /\ \A j \in 1 .. n : turns'[j] = turns[j]
          /\ turns'[n + 1] = Turn(s, k, c, r, "started")
      BY <2>0, <3>1, TurnsTyped DEF TurnAdded
    <3>4. runs' = [runs EXCEPT ![r] =
                     [session |-> s, turn |-> n + 1, revision |-> epoch,
                      status |-> "starting", evidence |-> NoEvidence]]
      BY <2>3 DEF StartAcceptedTurn, StartRun
    <3>5. \A j \in 1 .. n : turns[j].run # r
      BY <1>3, <2>0 DEF AcceptUserTurn, Acceptable, ProposedRunIdentityIsBound
    <3>6. \A q \in RunIds : q # r => runs'[q] = runs[q]
      BY <3>4 DEF TypeOK
    <3>7. runs'[r].turn = n + 1 /\ runs'[r].session = s /\ runs'[r].revision = epoch
      BY <3>4 DEF TypeOK
    <3>8. /\ turns'[n + 1].run = r /\ turns'[n + 1].session = s
          /\ turns'[n + 1].revision = epoch /\ turns'[n + 1].state = "started"
      BY <3>3 DEF Turn
    <3>9. ASSUME NEW q \in RunIds, runs'[q].status # "absent"
          PROVE  /\ runs'[q].turn \in DOMAIN turns'
                 /\ LET t == turns'[runs'[q].turn]
                    IN  /\ t.run = q /\ t.session = runs'[q].session
                        /\ t.revision = runs'[q].revision /\ t.state = "started"
      <4>1. CASE q = r
        BY <2>0, <3>3, <3>7, <3>8, <4>1
      <4>2. CASE q # r
        <5>1. runs[q].status # "absent" /\ runs'[q] = runs[q]
          BY <3>6, <3>9, <4>2
        <5>2. /\ runs[q].turn \in 1 .. n
              /\ turns[runs[q].turn].run = q /\ turns[runs[q].turn].state = "started"
              /\ turns[runs[q].turn].session = runs[q].session
              /\ turns[runs[q].turn].revision = runs[q].revision
          BY <2>0, <5>1 DEF TurnsInv, RunsMatchStartedTurns
        <5>3. QED  BY <2>0, <3>3, <5>1, <5>2
      <4>3. QED  BY <4>1, <4>2
    <3>10. ASSUME NEW j \in DOMAIN turns', turns'[j].state = "started"
           PROVE  runs'[turns'[j].run].turn = j
      <4>1. CASE j = n + 1
        BY <3>7, <3>8, <4>1
      <4>2. CASE j \in 1 .. n
        <5>1. turns'[j] = turns[j] /\ turns[j] \in TurnRow /\ turns[j].run # r
          BY <1>0, <2>0, <3>3, <3>5, <4>2
        <5>2. turns[j].run \in RunIds
          BY <5>1 DEF TurnRow
        <5>3. QED
          BY <2>0, <3>6, <3>10, <4>2, <5>1, <5>2 DEF TurnsInv, RunsMatchStartedTurns
      <4>3. QED  BY <2>0, <3>3, <4>1, <4>2
    <3>11. RunsMatchStartedTurns'
      BY <3>9, <3>10 DEF RunsMatchStartedTurns
    <3>12. QED  BY <3>2, <3>11 DEF TurnsInv
  <2>4. QED  BY <1>3, <2>1, <2>2, <2>3 DEF AcceptUserTurn
<1>4. ASSUME NEW s \in Sessions, NEW i \in DOMAIN turns, RemoveTurn(s, i) PROVE TurnsInv'
  <2>1. turns[i].state = "pending" /\ UNCHANGED runs
    BY <1>4 DEF RemoveTurn, Pending
  <2>2. \A j \in DOMAIN turns : turns'[j] = turns[j] \/ (j = i /\ turns'[j] = [turns[j] EXCEPT !.state = "removed"])
    BY <1>4, RemoveEffect, TurnsTyped
  <2>3. "removed" \in TurnState \ {"started"}
    BY DEF TurnState
  <2>4. QED
    BY <1>4, <2>1, <2>2, <2>3, RemoveEffect, TurnsKept
<1>5. ASSUME NEW s \in Sessions, NEW r \in RunIds, ConsumePendingUserTurns(s, r)
      PROVE  TurnsInv'
  <2>1. UNCHANGED runs /\ DOMAIN turns' = DOMAIN turns
    BY <1>5, JoinEffect DEF ConsumePendingUserTurns, Joined
  <2>2. \A j \in DOMAIN turns :
          turns'[j] = turns[j]
            \/ (turns[j].state = "pending" /\ turns'[j] = [turns[j] EXCEPT !.state = "appended"])
    BY <1>5, JoinEffect, TurnsTyped DEF Joined, Pending
  <2>3. "appended" \in TurnState \ {"started"}
    BY DEF TurnState
  <2>4. QED
    BY <2>1, <2>2, <2>3, TurnsKept
<1>6. ASSUME NEW s \in Sessions, NEW r \in RunIds, TransitionRun(s, r) PROVE TurnsInv'
  <2>1. \A q \in RunIds :
          /\ runs'[q].status # "absent" => runs[q].status # "absent"
          /\ runs'[q].turn = runs[q].turn /\ runs'[q].session = runs[q].session
          /\ runs'[q].revision = runs[q].revision
    BY <1>6 DEF TransitionRun, TypeOK, RunRow
  <2>2. QED  BY <1>6, <2>1, TurnsKept DEF TransitionRun
<1>7. ASSUME NEW s \in Sessions, NEW r \in RunIds, NEW status \in TerminalStatus,
             NEW e \in Evidence, FinishRun(s, r, status, e)
      PROVE  TurnsInv'
  <2>1. \A q \in RunIds :
          /\ runs'[q].status # "absent" => runs[q].status # "absent"
          /\ runs'[q].turn = runs[q].turn /\ runs'[q].session = runs[q].session
          /\ runs'[q].revision = runs[q].revision
    BY <1>7 DEF FinishRun, RequireActiveRun, Active, ActiveStatus, TypeOK, RunRow
  <2>2. QED  BY <1>7, <2>1, TurnsKept DEF FinishRun
<1>8. QED
  BY <1>1, <1>2, <1>3, <1>4, <1>5, <1>6, <1>7
     DEF Next, ExecutorWrites, Crash, CreateSession, AppendMessage, WriteToolResult, vars

\* No command sequence binds a key or a run identity twice, and the run of a
\* promoted turn is the one the turn proposed, under the revision it selected.
THEOREM TurnsAndRunsMatchAlways == Spec => []TurnsMatchRuns
<1>1. Init => TurnsInv
  BY DEF Init, TurnsInv, TurnIdentitiesUnique, RunsMatchStartedTurns, NoRun
<1>2. QED
  BY <1>1, TurnsStep, StorageType, PTL DEF Spec, TurnsInv, TurnsMatchRuns


-----------------------------------------------------------------------------
(* The shapes of a step.                                                   *)

\* Only columns of existing runs change, and none of a run that ended.
RunsChange ==
  /\ UNCHANGED <<turns, rows, results>>
  /\ \A r \in RunIds :
       /\ runs'[r].session = runs[r].session /\ runs'[r].turn = runs[r].turn
       /\ runs'[r].status = "absent" <=> runs[r].status = "absent"
       /\ runs[r].status \in TerminalStatus => runs'[r] = runs[r]
       /\ runs'[r].status \in ActiveStatus => runs[r].status \in ActiveStatus

\* A turn is queued behind an active run.
TurnQueued ==
  /\ UNCHANGED <<rows, runs, results>>
  /\ DOMAIN turns' = 1 .. Len(turns) + 1
  /\ \A j \in 1 .. Len(turns) : turns'[j] = turns[j]
  /\ turns'[Len(turns) + 1].state = "pending"
  /\ HasActiveRun(turns'[Len(turns) + 1].session)

\* Turn i starts run r: it is the new turn of a session that keeps none
\* waiting, or the oldest waiting turn.
TurnStarted(s, i, r) ==
  /\ UNCHANGED results
  /\ ~HasActiveRun(s)
  /\ i \in 1 .. Len(turns) + 1
  /\ i = Len(turns) + 1 => Pending(s) = {}
  /\ turns'[Len(turns) + 1].session = s
  /\ DOMAIN turns' = 1 .. Len(turns) + 1
  /\ \A j \in 1 .. Len(turns) : j # i => turns'[j] = turns[j]
  /\ turns'[i].session = s /\ turns'[i].state = "started"
  /\ i \in 1 .. Len(turns) => /\ turns[i].session = s /\ turns[i].state = "pending"
                              /\ turns'[i] = [turns[i] EXCEPT !.state = "started"]
  /\ i # Len(turns) + 1 => turns'[Len(turns) + 1].state = "pending"
  /\ \A j \in Pending(s) : i <= j
  /\ RowAdded(Row(s, r, "user", i, NoCall))
  /\ runs[r].status = "absent"
  /\ runs'[r].session = s /\ runs'[r].turn = i /\ runs'[r].status = "starting"
  /\ \A q \in RunIds : q # r => runs'[q] = runs[q]

\* A waiting turn is withdrawn.
TurnRemoved(i) ==
  /\ UNCHANGED <<rows, runs, results>>
  /\ DOMAIN turns' = DOMAIN turns
  /\ \A j \in DOMAIN turns : j # i => turns'[j] = turns[j]
  /\ turns[i].state = "pending"
  /\ turns'[i] = [turns[i] EXCEPT !.state = "removed"]

\* The waiting turns, in the order of q, join the active run r.
TurnsJoined(s, r, q) ==
  /\ UNCHANGED <<runs, results>>
  /\ RequireActiveRun(s, r)
  /\ q \in InRowidOrder(Pending(s)) /\ Len(q) \in Nat /\ DOMAIN q = 1 .. Len(q)
  /\ Joined(s, r, q)

\* The executor of the active run r adds a row that is no user message.
RowWritten(s, r, kind, call) ==
  /\ UNCHANGED <<turns, runs>>
  /\ RequireActiveRun(s, r)
  /\ RowAdded(Row(s, r, kind, 0, call))
  /\ \/ kind = "tool_result" /\ call \in Calls \ results /\ results' = results \cup {call}
     \/ kind # "tool_result" /\ UNCHANGED results

StepShape ==
  \/ RunsChange
  \/ TurnQueued
  \/ \E s \in Sessions, i \in Nat, r \in RunIds : TurnStarted(s, i, r)
  \/ \E i \in DOMAIN turns : TurnRemoved(i)
  \/ \E s \in Sessions, r \in RunIds, q \in Seq(Nat) : TurnsJoined(s, r, q)
  \/ \E s \in Sessions, r \in RunIds, kind \in RowKind \ {"user"}, call \in Calls \cup {NoCall} :
       RowWritten(s, r, kind, call)

\* Starting an absent run leaves the other runs alone.
LEMMA StartedRun ==
  ASSUME TypeOK, NEW s \in Sessions, NEW i \in Nat, NEW r \in RunIds, NEW v \in Nat,
         StartRun(s, i, r, v)
  PROVE  /\ runs'[r].session = s /\ runs'[r].turn = i /\ runs'[r].status = "starting"
         /\ \A q \in RunIds : q # r => runs'[q] = runs[q]
BY DEF StartRun, TypeOK

\* A new turn of a session that keeps none waiting starts its own run.
LEMMA AcceptedShape ==
  ASSUME TypeOK, NEW s \in Sessions, NEW k \in Keys, NEW c \in Texts, NEW r \in RunIds,
         AcceptUserTurn(s, k, c, r), StartAcceptedTurn(s, k, c, r)
  PROVE  TurnStarted(s, Len(turns) + 1, r)
<1>1. /\ Len(turns) \in Nat /\ epoch \in Nat /\ Pending(s) = {} /\ UNCHANGED results
      /\ ~HasActiveRun(s)
  BY TurnsTyped DEF TypeOK, AcceptUserTurn, StartAcceptedTurn
<1>2. TurnAdded(0, Turn(s, k, c, r, "started"))
  BY AcceptedEffect
<1>3. StartRun(s, Len(turns) + 1, r, epoch)
  BY DEF StartAcceptedTurn
<1>4. RowAdded(Row(s, r, "user", Len(turns) + 1, NoCall))
  BY <1>1, <1>3, StartRunEffect
<1>5. runs[r].status = "absent"
  BY DEF AcceptUserTurn, Acceptable, ProposedRunIdentityIsBound
<1>6. \A j \in 1 .. Len(turns) : turns'[j] = turns[j]
  BY <1>1, <1>2, TurnsTyped DEF TurnAdded
<1>7. turns'[Len(turns) + 1].session = s /\ turns'[Len(turns) + 1].state = "started"
  BY <1>2 DEF TurnAdded, Turn
<1>8. DOMAIN turns' = 1 .. Len(turns) + 1
  BY <1>2 DEF TurnAdded
<1>9. /\ runs'[r].session = s /\ runs'[r].turn = Len(turns) + 1 /\ runs'[r].status = "starting"
      /\ \A q \in RunIds : q # r => runs'[q] = runs[q]
  <2>1. Len(turns) + 1 \in Nat /\ epoch \in Nat
    BY <1>1
  <2>2. QED  BY ONLY TypeOK, s \in Sessions, r \in RunIds, <1>3, <2>1, StartedRun
<1>10. Len(turns) + 1 \in 1 .. Len(turns) + 1 /\ Len(turns) + 1 \notin 1 .. Len(turns)
  BY <1>1
<1>11. QED
  BY <1>1, <1>4, <1>5, <1>6, <1>7, <1>8, <1>9, <1>10 DEF TurnStarted

\* A turn accepted by an idle session with waiting turns starts the oldest.
LEMMA PromotedShape ==
  ASSUME TypeOK, TurnsInv, NEW s \in Sessions, NEW k \in Keys, NEW c \in Texts, NEW r \in RunIds,
         AcceptUserTurn(s, k, c, r), StartOldestPending(s, k, c, r)
  PROVE  \E i \in Nat, q \in RunIds : TurnStarted(s, i, q)
<1>1. PICK i \in Pending(s) :
        /\ OldestPending(s, i)
        /\ i \in 1 .. Len(turns)
        /\ TurnAdded(i, Turn(s, k, c, r, "pending"))
        /\ StartRun(s, i, turns[i].run, turns[i].revision)
  BY PromotedEffect
<1>2. /\ Len(turns) \in Nat /\ i \in Nat /\ turns[i] \in TurnRow
      /\ turns[i].session = s /\ turns[i].state = "pending"
      /\ turns[i].run \in RunIds /\ turns[i].revision \in Nat
  BY <1>1, TurnsTyped DEF Pending, TurnRow
<1>3. runs[turns[i].run].status = "absent"
  BY <1>1, <1>2, TurnsTyped, NotStartedHasNoRun
<1>4. RowAdded(Row(s, turns[i].run, "user", i, NoCall))
  BY <1>1, <1>2, StartRunEffect
<1>5. \A j \in 1 .. Len(turns) : j # i => turns'[j] = turns[j]
  BY <1>1, TurnsTyped DEF TurnAdded
<1>6. turns'[i] = [turns[i] EXCEPT !.state = "started"]
  BY <1>1 DEF TurnAdded
<1>7. turns'[i].session = s /\ turns'[i].state = "started"
  BY <1>2, <1>6 DEF TurnRow
<1>8. /\ turns'[Len(turns) + 1].state = "pending" /\ turns'[Len(turns) + 1].session = s
      /\ DOMAIN turns' = 1 .. Len(turns) + 1 /\ i # Len(turns) + 1
  BY <1>1, <1>2 DEF TurnAdded, Turn
<1>9. \A j \in Pending(s) : i <= j
  BY <1>1 DEF OldestPending
<1>10. UNCHANGED results /\ ~HasActiveRun(s)
  BY DEF AcceptUserTurn, StartOldestPending
<1>11. TurnStarted(s, i, turns[i].run)
  BY <1>1, <1>2, <1>3, <1>4, <1>5, <1>6, <1>7, <1>8, <1>9, <1>10, StartedRun DEF TurnStarted
<1>12. QED
  BY <1>2, <1>11

\* Every step of the repository has one of the six shapes.
LEMMA StepShapes == TypeOK /\ TurnsInv /\ [Next]_vars => StepShape
<1> SUFFICES ASSUME TypeOK, TurnsInv, [Next]_vars PROVE StepShape
  OBVIOUS
<1>1. CASE Open
  BY <1>1 DEF Open, RecoverUnfinishedRuns, Active, ActiveStatus, TerminalStatus, TypeOK, RunRow,
              RunsChange, StepShape
<1>2. CASE UNCHANGED <<turns, rows, results, runs>>
  BY <1>2 DEF RunsChange, StepShape
<1>3. ASSUME NEW s \in Sessions, NEW k \in Keys, NEW c \in Texts, NEW r \in RunIds,
             AcceptUserTurn(s, k, c, r)
      PROVE  StepShape
  <2>1. CASE QueuePendingTurn(s, k, c, r)
    <3>1. TurnAdded(0, Turn(s, k, c, r, "pending"))
      BY <2>1, QueueEffect
    <3>2. \A j \in 1 .. Len(turns) : turns'[j] = turns[j]
      BY <3>1, TurnsTyped DEF TurnAdded
    <3>3. /\ turns'[Len(turns) + 1].state = "pending" /\ turns'[Len(turns) + 1].session = s
          /\ DOMAIN turns' = 1 .. Len(turns) + 1
      BY <3>1 DEF TurnAdded, Turn
    <3>4. TurnQueued
      BY <1>3, <2>1, <3>2, <3>3 DEF AcceptUserTurn, QueuePendingTurn, TurnQueued
    <3>5. QED  BY <3>4 DEF StepShape
  <2>2. CASE StartOldestPending(s, k, c, r)
    BY <1>3, <2>2, PromotedShape DEF StepShape
  <2>3. CASE StartAcceptedTurn(s, k, c, r)
    <3>1. TurnStarted(s, Len(turns) + 1, r) /\ Len(turns) + 1 \in Nat
      BY <1>3, <2>3, AcceptedShape, TurnsTyped
    <3>2. QED  BY <3>1 DEF StepShape
  <2>4. QED  BY <1>3, <2>1, <2>2, <2>3 DEF AcceptUserTurn
<1>4. ASSUME NEW s \in Sessions, NEW i \in DOMAIN turns, RemoveTurn(s, i) PROVE StepShape
  <2>1. /\ DOMAIN turns' = DOMAIN turns /\ turns'[i] = [turns[i] EXCEPT !.state = "removed"]
        /\ \A j \in DOMAIN turns : j # i => turns'[j] = turns[j]
    BY <1>4, RemoveEffect, TurnsTyped
  <2>2. TurnRemoved(i)
    BY <1>4, <2>1 DEF RemoveTurn, Pending, TurnRemoved
  <2>3. QED  BY <2>2 DEF StepShape
<1>5. ASSUME NEW s \in Sessions, NEW r \in RunIds, ConsumePendingUserTurns(s, r)
      PROVE  StepShape
  <2>1. PICK q \in InRowidOrder(Pending(s)) : Joined(s, r, q) /\ Len(q) \in Nat /\ DOMAIN q = 1 .. Len(q)
    BY <1>5, JoinEffect
  <2>2. \A a \in 1 .. Len(q) : q[a] \in Nat
    <3>1. \A a \in 1 .. Len(q) : q[a] \in Pending(s)
      BY <2>1, JoinedRows
    <3>2. QED  BY <3>1, TurnsTyped DEF Pending
  <2>3. q \in [1 .. Len(q) -> Nat]
    <3>1. PICK n \in Nat : q \in [1 .. n -> Pending(s)]
      <4>1. q \in UNION {[1 .. n -> Pending(s)] : n \in 0 .. Len(turns)}
        BY <2>1 DEF InRowidOrder
      <4>2. PICK n \in 0 .. Len(turns) : q \in [1 .. n -> Pending(s)]
        BY <4>1
      <4>3. QED  BY <4>2, TurnsTyped
    <3>2. QED  BY <2>1, <2>2, <3>1
  <2>4. q \in Seq(Nat)
    BY <2>1, <2>3, SeqDef
  <2>5. TurnsJoined(s, r, q)
    BY <1>5, <2>1 DEF TurnsJoined, ConsumePendingUserTurns
  <2>6. QED  BY <2>4, <2>5 DEF StepShape
<1>6. ASSUME NEW s \in Sessions, NEW r \in RunIds, TransitionRun(s, r) PROVE StepShape
  BY <1>6 DEF TransitionRun, TerminalStatus, ActiveStatus, TypeOK, RunRow, RunsChange, StepShape
<1>7. ASSUME NEW s \in Sessions, NEW r \in RunIds, NEW status \in TerminalStatus,
             NEW e \in Evidence, FinishRun(s, r, status, e)
      PROVE  StepShape
  BY <1>7 DEF FinishRun, RequireActiveRun, Active, ActiveStatus, TerminalStatus, TypeOK, RunRow,
              RunsChange, StepShape
<1>8. ASSUME NEW s \in Sessions, NEW r \in RunIds, NEW kind \in RowKind \ {"user", "tool_result"},
             NEW call \in Calls \cup {NoCall}, AppendMessage(s, r, kind, call)
      PROVE  StepShape
  <2>1. RowAdded(Row(s, r, kind, 0, call))
    BY <1>8, RowTyped, RowEffect DEF AppendMessage
  <2>2. RowWritten(s, r, kind, call)
    BY <1>8, <2>1 DEF AppendMessage, RowWritten
  <2>3. QED  BY <2>2 DEF StepShape
<1>9. ASSUME NEW s \in Sessions, NEW r \in RunIds, NEW call \in Calls, WriteToolResult(s, r, call)
      PROVE  StepShape
  <2>1. "tool_result" \in RowKind \ {"user"}
    BY DEF RowKind
  <2>2. RowAdded(Row(s, r, "tool_result", 0, call))
    BY <1>9, <2>1, RowTyped, RowEffect DEF WriteToolResult
  <2>3. RowWritten(s, r, "tool_result", call)
    BY <1>9, <2>2 DEF WriteToolResult, RowWritten
  <2>4. QED  BY <2>1, <2>3 DEF StepShape
<1>10. QED
  BY <1>1, <1>2, <1>3, <1>4, <1>5, <1>6, <1>7, <1>8, <1>9
     DEF Next, ExecutorWrites, Crash, CreateSession, vars, RowKind
-----------------------------------------------------------------------------
(* Rows name their run and their turn.                                     *)

\* Turns that exist keep their session in every shape, and no turn vanishes.
LEMMA SessionsKept ==
  ASSUME TypeOK, StepShape
  PROVE  \A j \in DOMAIN turns : j \in DOMAIN turns' /\ turns'[j].session = turns[j].session
<1>1. /\ Len(turns) \in Nat /\ DOMAIN turns = 1 .. Len(turns)
      /\ \A j \in DOMAIN turns : turns[j] \in TurnRow
  BY TurnsTyped
<1>2. CASE RunsChange
  BY <1>2 DEF RunsChange
<1>3. CASE TurnQueued
  BY <1>1, <1>3 DEF TurnQueued
<1>4. ASSUME NEW s \in Sessions, NEW i \in Nat, NEW r \in RunIds, TurnStarted(s, i, r)
      PROVE  \A j \in DOMAIN turns : j \in DOMAIN turns' /\ turns'[j].session = turns[j].session
  BY <1>1, <1>4 DEF TurnStarted
<1>5. ASSUME NEW i \in DOMAIN turns, TurnRemoved(i)
      PROVE  \A j \in DOMAIN turns : j \in DOMAIN turns' /\ turns'[j].session = turns[j].session
  BY <1>1, <1>5 DEF TurnRemoved, TurnRow
<1>6. ASSUME NEW s \in Sessions, NEW r \in RunIds, NEW q, TurnsJoined(s, r, q)
      PROVE  \A j \in DOMAIN turns : j \in DOMAIN turns' /\ turns'[j].session = turns[j].session
  BY <1>1, <1>6 DEF TurnsJoined, Joined, TurnRow
<1>7. CASE UNCHANGED turns
  BY <1>7
<1>8. QED
  BY <1>2, <1>3, <1>4, <1>5, <1>6, <1>7 DEF StepShape, RowWritten

\* A joined row carries a turn that waited in the session.
LEMMA JoinedTurns ==
  ASSUME TypeOK, NEW s \in Sessions, NEW r \in RunIds, NEW q, TurnsJoined(s, r, q)
  PROVE  /\ Len(q) \in Nat /\ DOMAIN q = 1 .. Len(q)
         /\ \A a \in 1 .. Len(q) : /\ q[a] \in DOMAIN turns /\ q[a] \in Nat
                                   /\ turns[q[a]].session = s /\ turns[q[a]].state = "pending"
         /\ \A a, b \in 1 .. Len(q) : a < b => q[a] < q[b]
         /\ \A i \in Pending(s) : \E a \in 1 .. Len(q) : q[a] = i
         /\ \A j \in DOMAIN rows' :
              \/ j \in 1 .. Len(rows) /\ rows'[j] = rows[j]
              \/ \E a \in 1 .. Len(q) : /\ j = Len(rows) + a
                                        /\ rows'[j] = Row(s, r, "user", q[a], NoCall)
<1>1. /\ Len(q) \in Nat /\ DOMAIN q = 1 .. Len(q) /\ Joined(s, r, q)
      /\ q \in InRowidOrder(Pending(s)) /\ Len(rows) \in Nat
  BY TurnsTyped DEF TurnsJoined
<1>2. \A a \in 1 .. Len(q) : q[a] \in Pending(s)
  BY <1>1, JoinedRows
<1>3. \A a \in 1 .. Len(q) : /\ q[a] \in DOMAIN turns /\ q[a] \in Nat
                             /\ turns[q[a]].session = s /\ turns[q[a]].state = "pending"
  BY <1>2, TurnsTyped DEF Pending
<1>4. /\ \A a, b \in 1 .. Len(q) : a < b => q[a] < q[b]
      /\ \A i \in Pending(s) : \E a \in 1 .. Len(q) : q[a] = i
  BY <1>1 DEF InRowidOrder
<1>5. ASSUME NEW j \in DOMAIN rows', j \notin 1 .. Len(rows)
      PROVE  \E a \in 1 .. Len(q) : /\ j = Len(rows) + a
                                    /\ rows'[j] = Row(s, r, "user", q[a], NoCall)
  <2>1. j \in 1 .. Len(rows) + Len(q)
    BY <1>1 DEF Joined
  <2>2. j - Len(rows) \in 1 .. Len(q) /\ j = Len(rows) + (j - Len(rows))
    BY <1>1, <1>5, <2>1
  <2>3. QED  BY <1>1, <2>2 DEF Joined
<1>6. \A j \in 1 .. Len(rows) : rows'[j] = rows[j]
  BY <1>1 DEF Joined
<1>7. QED
  BY <1>1, <1>3, <1>4, <1>5, <1>6

\* Rows of sessions and runs that exist stay so, and new rows name such.
LEMMA RowsNameStep ==
  ASSUME TypeOK, RowsNameTheirRunAndTurn, StepShape
  PROVE  RowsNameTheirRunAndTurn'
<1> DEFINE Names(row) ==
      /\ runs'[row.run].status # "absent"
      /\ runs'[row.run].session = row.session
      /\ row.kind = "user" => /\ row.turn \in DOMAIN turns'
                              /\ turns'[row.turn].session = row.session
<1>1. /\ Len(turns) \in Nat /\ DOMAIN turns = 1 .. Len(turns)
      /\ Len(rows) \in Nat /\ DOMAIN rows = 1 .. Len(rows)
      /\ \A j \in DOMAIN rows : rows[j] \in MessageRow
  BY TurnsTyped
<1>2. ASSUME NEW j \in DOMAIN rows
      PROVE  /\ runs[rows[j].run].status # "absent" /\ runs[rows[j].run].session = rows[j].session
             /\ rows[j].kind = "user" => /\ rows[j].turn \in DOMAIN turns'
                                         /\ turns'[rows[j].turn].session = rows[j].session
             /\ rows[j].run \in RunIds
  BY <1>1, <1>2, SessionsKept DEF RowsNameTheirRunAndTurn, MessageRow
<1>3. CASE RunsChange
  BY <1>2, <1>3 DEF RunsChange, RowsNameTheirRunAndTurn
<1>4. CASE UNCHANGED <<rows, runs>>
  BY <1>2, <1>4 DEF RowsNameTheirRunAndTurn
<1>5. ASSUME NEW s \in Sessions, NEW i \in Nat, NEW r \in RunIds, TurnStarted(s, i, r)
      PROVE  RowsNameTheirRunAndTurn'
  <2>1. \A j \in DOMAIN rows : Names(rows[j])
    BY <1>2, <1>5 DEF TurnStarted
  <2>2. Names(Row(s, r, "user", i, NoCall))
    BY <1>5 DEF TurnStarted, Row
  <2>3. QED
    BY <1>1, <1>5, <2>1, <2>2 DEF TurnStarted, RowAdded, RowsNameTheirRunAndTurn
<1>6. ASSUME NEW s \in Sessions, NEW r \in RunIds, NEW q, TurnsJoined(s, r, q)
      PROVE  RowsNameTheirRunAndTurn'
  <2>1. \A j \in DOMAIN rows : Names(rows[j])
    BY <1>2, <1>6 DEF TurnsJoined
  <2>2. runs'[r].status # "absent" /\ runs'[r].session = s
    BY <1>6 DEF TurnsJoined, RequireActiveRun, Active, ActiveStatus
  <2>3. \A a \in 1 .. Len(q) : Names(Row(s, r, "user", q[a], NoCall))
    BY <1>6, <2>2, JoinedTurns, SessionsKept DEF Row
  <2>4. ASSUME NEW j \in DOMAIN rows' PROVE Names(rows'[j])
    <3>1. CASE j \in 1 .. Len(rows) /\ rows'[j] = rows[j]
      BY <1>1, <2>1, <3>1
    <3>2. ASSUME NEW a \in 1 .. Len(q), rows'[j] = Row(s, r, "user", q[a], NoCall)
          PROVE  Names(rows'[j])
      <4>1. Names(Row(s, r, "user", q[a], NoCall))
        BY <2>3
      <4> HIDE DEF Names
      <4>2. QED  BY <3>2, <4>1
    <3>3. QED  BY <1>6, <3>1, <3>2, JoinedTurns
  <2>5. QED  BY <2>4 DEF RowsNameTheirRunAndTurn
<1>7. ASSUME NEW s \in Sessions, NEW r \in RunIds, NEW kind \in RowKind \ {"user"},
             NEW call \in Calls \cup {NoCall}, RowWritten(s, r, kind, call)
      PROVE  RowsNameTheirRunAndTurn'
  <2>1. \A j \in DOMAIN rows : Names(rows[j])
    BY <1>2, <1>7 DEF RowWritten
  <2>2. Names(Row(s, r, kind, 0, call))
    BY <1>7 DEF RowWritten, RequireActiveRun, Active, ActiveStatus, Row
  <2>3. QED
    BY <1>1, <1>7, <2>1, <2>2 DEF RowWritten, RowAdded, RowsNameTheirRunAndTurn
<1>8. QED
  BY <1>3, <1>4, <1>5, <1>6, <1>7 DEF StepShape, TurnQueued, TurnRemoved
-----------------------------------------------------------------------------
(* Turns enter the transcript once, in order.                              *)

\* The rows of a transcript q that carry turn i.
Carriers(q, i) == {j \in DOMAIN q : q[j].kind = "user" /\ q[j].turn = i}

\* TurnsEnterTranscriptOnce for one turn of a given state.
Once(q, i, state) ==
  /\ \A a, b \in Carriers(q, i) : a = b
  /\ Carriers(q, i) # {} <=> state \in {"started", "appended"}

\* An added row carries its own turn only.
LEMMA CarriersOfAdded ==
  ASSUME TypeOK, NEW row, RowAdded(row), NEW i
  PROVE  Carriers(rows', i) = Carriers(rows, i)
           \cup (IF row.kind = "user" /\ row.turn = i THEN {Len(rows) + 1} ELSE {})
BY TurnsTyped DEF RowAdded, Carriers

\* A join adds one carrier of each turn that waited and none of another.
LEMMA CarriersOfJoined ==
  ASSUME TypeOK, NEW s \in Sessions, NEW r \in RunIds, NEW q, TurnsJoined(s, r, q), NEW i
  PROVE  /\ i \in Pending(s) => \E j : j \notin Carriers(rows, i)
                                       /\ Carriers(rows', i) = Carriers(rows, i) \cup {j}
         /\ i \notin Pending(s) => Carriers(rows', i) = Carriers(rows, i)
<1>1. /\ Len(q) \in Nat /\ Len(rows) \in Nat /\ DOMAIN rows = 1 .. Len(rows)
      /\ DOMAIN rows' = 1 .. Len(rows) + Len(q)
      /\ \A a \in 1 .. Len(q) : q[a] \in Pending(s) /\ q[a] \in Nat
      /\ \A a, b \in 1 .. Len(q) : a < b => q[a] < q[b]
      /\ \A k \in Pending(s) : \E a \in 1 .. Len(q) : q[a] = k
      /\ \A j \in DOMAIN rows' :
           j \in 1 .. Len(rows) \/ \E a \in 1 .. Len(q) : j = Len(rows) + a
  BY JoinedTurns, TurnsTyped DEF TurnsJoined, Joined, Pending
<1>2. /\ \A j \in 1 .. Len(rows) : rows'[j] = rows[j]
      /\ \A a \in 1 .. Len(q) : /\ rows'[Len(rows) + a].kind = "user"
                                /\ rows'[Len(rows) + a].turn = q[a]
  <2>1. /\ \A j \in 1 .. Len(rows) : rows'[j] = rows[j]
        /\ \A a \in 1 .. Len(q) : rows'[Len(rows) + a] = Row(s, r, "user", q[a], NoCall)
    BY DEF TurnsJoined, Joined
  <2>2. \A a : LET row == Row(s, r, "user", q[a], NoCall) IN row.kind = "user" /\ row.turn = q[a]
    BY DEF Row
  <2>3. QED  BY <2>1, <2>2
<1>3. CASE i \in Pending(s)
  <2>1. PICK a \in 1 .. Len(q) : q[a] = i
    BY <1>1, <1>3
  <2>2. \A b \in 1 .. Len(q) : q[b] = i => b = a
    BY <1>1, <2>1
  <2>3. Carriers(rows', i) = Carriers(rows, i) \cup {Len(rows) + a}
    <3>1. ASSUME NEW j \in Carriers(rows', i) PROVE j \in Carriers(rows, i) \cup {Len(rows) + a}
      <4>1. CASE j \in 1 .. Len(rows)
        BY <1>1, <1>2, <3>1, <4>1 DEF Carriers
      <4>2. ASSUME NEW b \in 1 .. Len(q), j = Len(rows) + b PROVE j = Len(rows) + a
        BY <1>2, <2>2, <3>1, <4>2 DEF Carriers
      <4>3. QED  BY <1>1, <3>1, <4>1, <4>2 DEF Carriers
    <3>2. Carriers(rows, i) \subseteq Carriers(rows', i)
      BY <1>1, <1>2 DEF Carriers
    <3>3. Len(rows) + a \in Carriers(rows', i)
      BY <1>1, <1>2, <2>1 DEF Carriers
    <3>4. QED  BY <3>1, <3>2, <3>3
  <2>4. Len(rows) + a \notin Carriers(rows, i)
    BY <1>1 DEF Carriers
  <2>5. QED  BY <1>3, <2>3, <2>4
<1>4. CASE i \notin Pending(s)
  <2>1. \A b \in 1 .. Len(q) : q[b] # i
    BY <1>1, <1>4
  <2>2. ASSUME NEW j \in Carriers(rows', i) PROVE j \in Carriers(rows, i)
    <3>1. CASE j \in 1 .. Len(rows)
      BY <1>1, <1>2, <2>2, <3>1 DEF Carriers
    <3>2. ASSUME NEW b \in 1 .. Len(q), j = Len(rows) + b PROVE FALSE
      BY <1>2, <2>1, <2>2, <3>2 DEF Carriers
    <3>3. QED  BY <1>1, <2>2, <3>1, <3>2 DEF Carriers
  <2>3. Carriers(rows, i) \subseteq Carriers(rows', i)
    BY <1>1, <1>2 DEF Carriers
  <2>4. QED  BY <1>4, <2>2, <2>3
<1>5. QED  BY <1>3, <1>4

\* A turn that starts or joins was waiting or new, so no row carried it.
LEMMA EntersOnceStep ==
  ASSUME TypeOK, RowsNameTheirRunAndTurn, TurnsEnterTranscriptOnce, StepShape
  PROVE  TurnsEnterTranscriptOnce'
<1>1. /\ Len(turns) \in Nat /\ DOMAIN turns = 1 .. Len(turns)
      /\ Len(rows) \in Nat /\ DOMAIN rows = 1 .. Len(rows)
      /\ \A j \in DOMAIN turns : turns[j] \in TurnRow
  BY TurnsTyped
<1>2. \A i \in DOMAIN turns : Once(rows, i, turns[i].state)
  BY DEF TurnsEnterTranscriptOnce, UserRowsOf, Once, Carriers
<1>3. Carriers(rows, Len(turns) + 1) = {}
  BY <1>1 DEF RowsNameTheirRunAndTurn, Carriers
<1>4. SUFFICES \A i \in DOMAIN turns' : Once(rows', i, turns'[i].state)
  BY DEF TurnsEnterTranscriptOnce, UserRowsOf, Once, Carriers
<1>5. CASE RunsChange
  BY <1>2, <1>5 DEF RunsChange
<1>6. CASE TurnQueued
  BY <1>1, <1>2, <1>3, <1>6 DEF TurnQueued, Once
<1>7. ASSUME NEW k \in DOMAIN turns, TurnRemoved(k)
      PROVE  \A i \in DOMAIN turns' : Once(rows', i, turns'[i].state)
  <2>1. turns'[k].state = "removed" /\ turns[k].state = "pending"
    BY <1>1, <1>7 DEF TurnRemoved, TurnRow
  <2>2. QED  BY <1>1, <1>2, <1>7, <2>1 DEF TurnRemoved, Once
<1>8. ASSUME NEW s \in Sessions, NEW k \in Nat, NEW r \in RunIds, TurnStarted(s, k, r)
      PROVE  \A i \in DOMAIN turns' : Once(rows', i, turns'[i].state)
  <2>1. \A i : Carriers(rows', i) = Carriers(rows, i) \cup (IF k = i THEN {Len(rows) + 1} ELSE {})
    <3>1. RowAdded(Row(s, r, "user", k, NoCall))
      BY <1>8 DEF TurnStarted
    <3>2. QED  BY <3>1, CarriersOfAdded DEF Row
  <2>2. Carriers(rows, k) = {}
    <3>1. CASE k \in 1 .. Len(turns)
      <4>1. turns[k].state = "pending"
        BY <1>8, <3>1 DEF TurnStarted
      <4>2. QED  BY <1>1, <1>2, <3>1, <4>1 DEF Once
    <3>2. CASE k = Len(turns) + 1
      BY <1>3, <3>2
    <3>3. QED  BY <1>1, <1>8, <3>1, <3>2 DEF TurnStarted
  <2>3. Once(rows', k, turns'[k].state)
    BY <1>8, <2>1, <2>2 DEF TurnStarted, Once
  <2>4. ASSUME NEW i \in 1 .. Len(turns), i # k PROVE Once(rows', i, turns'[i].state)
    BY <1>1, <1>2, <1>8, <2>1, <2>4 DEF TurnStarted, Once
  <2>5. ASSUME k # Len(turns) + 1 PROVE Once(rows', Len(turns) + 1, turns'[Len(turns) + 1].state)
    BY <1>3, <1>8, <2>1, <2>5 DEF TurnStarted, Once
  <2>6. \A i \in DOMAIN turns' : i \in 1 .. Len(turns) \/ i = Len(turns) + 1
    BY <1>1, <1>8 DEF TurnStarted
  <2>7. QED  BY <2>3, <2>4, <2>5, <2>6
<1>9. ASSUME NEW s \in Sessions, NEW r \in RunIds, NEW q, TurnsJoined(s, r, q)
      PROVE  \A i \in DOMAIN turns' : Once(rows', i, turns'[i].state)
  <2>1. ASSUME NEW i \in DOMAIN turns PROVE Once(rows', i, turns'[i].state)
    <3>1. CASE i \in Pending(s)
      <4>1. turns[i].state = "pending" /\ turns'[i].state = "appended"
        BY <1>1, <1>9, <3>1 DEF TurnsJoined, Joined, Pending, TurnRow
      <4>2. Carriers(rows, i) = {}
        BY <1>2, <4>1 DEF Once
      <4>3. \E j : Carriers(rows', i) = {j}
        BY <1>9, <3>1, <4>2, CarriersOfJoined
      <4>4. QED  BY <4>1, <4>3 DEF Once
    <3>2. CASE i \notin Pending(s)
      <4>1. turns'[i].state = turns[i].state
        BY <1>1, <1>9, <3>2 DEF TurnsJoined, Joined, TurnRow
      <4>2. Carriers(rows', i) = Carriers(rows, i)
        BY <1>9, <3>2, CarriersOfJoined
      <4>3. QED  BY <1>2, <4>1, <4>2 DEF Once
    <3>3. QED  BY <3>1, <3>2
  <2>2. QED  BY <1>9, <2>1 DEF TurnsJoined, Joined
<1>10. ASSUME NEW s \in Sessions, NEW r \in RunIds, NEW kind \in RowKind \ {"user"},
              NEW call \in Calls \cup {NoCall}, RowWritten(s, r, kind, call)
       PROVE  \A i \in DOMAIN turns' : Once(rows', i, turns'[i].state)
  <2>1. RowAdded(Row(s, r, kind, 0, call)) /\ turns' = turns
    BY <1>10 DEF RowWritten
  <2>2. \A i : Carriers(rows', i) = Carriers(rows, i)
    <3>1. Row(s, r, kind, 0, call).kind # "user"
      BY <1>10 DEF Row
    <3>2. QED  BY <2>1, <3>1, CarriersOfAdded
  <2>3. QED  BY <1>2, <2>1, <2>2 DEF Once
<1>11. QED
  BY <1>5, <1>6, <1>7, <1>8, <1>9, <1>10 DEF StepShape
-----------------------------------------------------------------------------
(* Turns enter the transcript in the order they were accepted.             *)

\* User rows of one session carry turns in the order of the rows.
RowsInOrder(q) ==
  \A a, b \in DOMAIN q :
    (q[a].kind = "user" /\ q[b].kind = "user" /\ q[a].session = q[b].session /\ a < b)
      => q[a].turn < q[b].turn

\* A waiting turn of a table t is younger than every turn in the transcript q.
WaitBehind(q, t) ==
  \A a \in DOMAIN q, i \in DOMAIN t :
    (q[a].kind = "user" /\ t[i].session = q[a].session /\ t[i].state = "pending")
      => q[a].turn < i

LEMMA OrderSplit ==
  TranscriptInAcceptanceOrder <=> RowsInOrder(rows) /\ WaitBehind(rows, turns)
BY DEF TranscriptInAcceptanceOrder, RowsInOrder, WaitBehind, Pending

\* A new row carries a turn that waited, and so is behind all rows, and the
\* oldest of these, and so is ahead of those that still wait.
LEMMA OrderStep ==
  ASSUME TypeOK, RowsNameTheirRunAndTurn, TranscriptInAcceptanceOrder, StepShape
  PROVE  TranscriptInAcceptanceOrder'
<1>1. /\ Len(turns) \in Nat /\ DOMAIN turns = 1 .. Len(turns)
      /\ Len(rows) \in Nat /\ DOMAIN rows = 1 .. Len(rows)
      /\ \A i \in DOMAIN turns : turns[i] \in TurnRow
      /\ \A j \in DOMAIN rows : rows[j].turn \in Nat
  BY TurnsTyped DEF MessageRow
<1>2. RowsInOrder(rows) /\ WaitBehind(rows, turns)
  BY OrderSplit
<1>3. \A j \in DOMAIN rows : rows[j].kind = "user" => rows[j].turn <= Len(turns)
  BY <1>1 DEF RowsNameTheirRunAndTurn
<1>4. SUFFICES RowsInOrder(rows') /\ WaitBehind(rows', turns')
  BY DEF TranscriptInAcceptanceOrder, RowsInOrder, WaitBehind, Pending
<1>5. CASE RunsChange
  BY <1>2, <1>5 DEF RunsChange
<1>6. CASE TurnQueued
  <2>1. WaitBehind(rows, turns')
    <3>1. SUFFICES ASSUME NEW a \in DOMAIN rows, NEW i \in DOMAIN turns', rows[a].kind = "user",
                          turns'[i].session = rows[a].session, turns'[i].state = "pending"
                   PROVE  rows[a].turn < i
      BY DEF WaitBehind
    <3>2. CASE i \in 1 .. Len(turns)
      BY <1>1, <1>2, <1>6, <3>1, <3>2 DEF TurnQueued, WaitBehind
    <3>3. CASE i = Len(turns) + 1
      BY <1>1, <1>3, <3>1, <3>3
    <3>4. QED  BY <1>1, <1>6, <3>2, <3>3 DEF TurnQueued
  <2>2. QED  BY <1>2, <1>6, <2>1 DEF TurnQueued
<1>7. ASSUME NEW k \in DOMAIN turns, TurnRemoved(k)
      PROVE  RowsInOrder(rows') /\ WaitBehind(rows', turns')
  <2>1. turns'[k].state = "removed"
    BY <1>1, <1>7 DEF TurnRemoved, TurnRow
  <2>2. rows' = rows /\ DOMAIN turns' = DOMAIN turns
        /\ \A i \in DOMAIN turns : turns'[i].state = "pending" => turns'[i] = turns[i]
    BY <1>7, <2>1 DEF TurnRemoved
  <2>3. WaitBehind(rows, turns')
    BY <1>2, <2>2 DEF WaitBehind
  <2>4. QED  BY <1>2, <2>2, <2>3
<1>8. ASSUME NEW s \in Sessions, NEW k \in Nat, NEW r \in RunIds, TurnStarted(s, k, r)
      PROVE  RowsInOrder(rows') /\ WaitBehind(rows', turns')
  <2> DEFINE m == Len(rows) + 1
             n == Len(turns) + 1
  <2>1. /\ DOMAIN rows' = 1 .. m /\ m \in Nat /\ n \in Nat
        /\ \A j \in 1 .. Len(rows) : rows'[j] = rows[j]
        /\ rows'[m].kind = "user" /\ rows'[m].session = s /\ rows'[m].turn = k
    BY <1>1, <1>8 DEF TurnStarted, RowAdded, Row
  <2>2. \A a \in 1 .. Len(rows) :
          rows[a].kind = "user" /\ rows[a].session = s => rows[a].turn < k
    <3>1. CASE k \in 1 .. Len(turns)
      <4>1. turns[k].session = s /\ turns[k].state = "pending"
        BY <1>8, <3>1 DEF TurnStarted
      <4>2. QED  BY <1>1, <1>2, <3>1, <4>1 DEF WaitBehind
    <3>2. CASE k = n
      BY <1>1, <1>3, <3>2
    <3>3. QED  BY <1>1, <1>8, <3>1, <3>2 DEF TurnStarted
  <2>3. RowsInOrder(rows')
    <3>1. SUFFICES ASSUME NEW a \in 1 .. m, NEW b \in 1 .. m, rows'[a].kind = "user",
                          rows'[b].kind = "user", rows'[a].session = rows'[b].session, a < b
                   PROVE  rows'[a].turn < rows'[b].turn
      BY <2>1 DEF RowsInOrder
    <3>2. a \in 1 .. Len(rows) /\ (b \in 1 .. Len(rows) \/ b = m)
      <4>1. a < b
        BY <3>1
      <4>2. QED  BY <1>1, <4>1
    <3>3. CASE b = m
      BY <2>1, <2>2, <3>1, <3>2, <3>3
    <3>4. CASE b \in 1 .. Len(rows)
      BY <1>1, <1>2, <2>1, <3>1, <3>2, <3>4 DEF RowsInOrder
    <3>5. QED  BY <3>2, <3>3, <3>4
  <2>4. WaitBehind(rows', turns')
    <3>1. SUFFICES ASSUME NEW a \in 1 .. m, NEW i \in 1 .. n, rows'[a].kind = "user",
                          turns'[i].session = rows'[a].session, turns'[i].state = "pending"
                   PROVE  rows'[a].turn < i
      BY <1>8, <2>1 DEF WaitBehind, TurnStarted
    <3>2. i # k
      BY <1>8, <3>1 DEF TurnStarted
    <3>3. CASE i = n
      <4>1. k < n
        BY <1>1, <1>8, <3>2, <3>3 DEF TurnStarted
      <4>2. CASE a = m
        BY <2>1, <3>3, <4>1, <4>2
      <4>3. CASE a \in 1 .. Len(rows)
        <5>1. rows'[a] = rows[a]
          BY <2>1, <4>3
        <5>2. rows[a].turn \in Nat /\ rows[a].turn <= Len(turns)
          BY <1>1, <1>3, <3>1, <4>3, <5>1
        <5>3. QED  BY <1>1, <3>3, <5>1, <5>2
      <4>4. QED  BY <1>1, <4>2, <4>3
    <3>4. CASE i \in 1 .. Len(turns)
      <4>1. turns'[i] = turns[i]
        BY <1>8, <3>2, <3>4 DEF TurnStarted
      <4>2. CASE a = m
        <5>1. i \in Pending(s)
          BY <1>1, <2>1, <3>1, <3>4, <4>1, <4>2 DEF Pending
        <5>2. k <= i
          BY <1>8, <5>1 DEF TurnStarted
        <5>3. QED  BY <2>1, <3>2, <3>4, <4>2, <5>2
      <4>3. CASE a \in 1 .. Len(rows)
        BY <1>1, <1>2, <2>1, <3>1, <3>4, <4>1, <4>3 DEF WaitBehind
      <4>4. QED  BY <1>1, <3>1, <4>2, <4>3
    <3>5. QED  BY <1>1, <3>3, <3>4
  <2>5. QED  BY <2>3, <2>4
<1>9. ASSUME NEW s \in Sessions, NEW r \in RunIds, NEW q, TurnsJoined(s, r, q)
      PROVE  RowsInOrder(rows') /\ WaitBehind(rows', turns')
  <2>1. /\ Len(q) \in Nat /\ DOMAIN q = 1 .. Len(q)
        /\ \A a \in 1 .. Len(q) : /\ q[a] \in DOMAIN turns /\ q[a] \in Nat
                                  /\ turns[q[a]].session = s /\ turns[q[a]].state = "pending"
        /\ \A a, b \in 1 .. Len(q) : a < b => q[a] < q[b]
    BY <1>9, JoinedTurns
  <2>2. \A j \in DOMAIN rows' :
          \/ j \in 1 .. Len(rows) /\ rows'[j] = rows[j]
          \/ \E a \in 1 .. Len(q) : /\ j = Len(rows) + a /\ rows'[j].kind = "user"
                                    /\ rows'[j].session = s /\ rows'[j].turn = q[a]
    BY <1>9, JoinedTurns DEF Row
  <2>3. RowsInOrder(rows')
    <3>1. SUFFICES ASSUME NEW x \in DOMAIN rows', NEW y \in DOMAIN rows', rows'[x].kind = "user",
                          rows'[y].kind = "user", rows'[x].session = rows'[y].session, x < y
                   PROVE  rows'[x].turn < rows'[y].turn
      BY DEF RowsInOrder
    <3>2. CASE y \in 1 .. Len(rows) /\ rows'[y] = rows[y]
      <4>1. x \in 1 .. Len(rows) /\ rows'[x] = rows[x]
        BY <1>1, <2>1, <2>2, <3>1, <3>2
      <4>2. QED  BY <1>1, <1>2, <3>1, <3>2, <4>1 DEF RowsInOrder
    <3>3. ASSUME NEW b \in 1 .. Len(q), y = Len(rows) + b, rows'[y].session = s, rows'[y].turn = q[b]
          PROVE  rows'[x].turn < rows'[y].turn
      <4>1. CASE x \in 1 .. Len(rows) /\ rows'[x] = rows[x]
        BY <1>1, <1>2, <2>1, <3>1, <3>3, <4>1 DEF WaitBehind
      <4>2. ASSUME NEW a \in 1 .. Len(q), x = Len(rows) + a, rows'[x].turn = q[a]
            PROVE  rows'[x].turn < rows'[y].turn
        BY <1>1, <2>1, <3>1, <3>3, <4>2
      <4>3. QED  BY <2>2, <4>1, <4>2
    <3>4. QED  BY <2>2, <3>2, <3>3
  <2>4. WaitBehind(rows', turns')
    <3>1. SUFFICES ASSUME NEW x \in DOMAIN rows', NEW i \in DOMAIN turns', rows'[x].kind = "user",
                          turns'[i].session = rows'[x].session, turns'[i].state = "pending"
                   PROVE  rows'[x].turn < i
      BY DEF WaitBehind
    <3>2. i \in DOMAIN turns /\ i \notin Pending(s) /\ turns'[i].session = turns[i].session
          /\ turns'[i].state = turns[i].state
      BY <1>1, <1>9, <3>1 DEF TurnsJoined, Joined, TurnRow
    <3>3. turns[i].session # s
      BY <3>1, <3>2 DEF Pending
    <3>4. x \in 1 .. Len(rows) /\ rows'[x] = rows[x]
      BY <2>2, <3>1, <3>2, <3>3
    <3>5. QED  BY <1>1, <1>2, <3>1, <3>2, <3>4 DEF WaitBehind
  <2>5. QED  BY <2>3, <2>4
<1>10. ASSUME NEW s \in Sessions, NEW r \in RunIds, NEW kind \in RowKind \ {"user"},
              NEW call \in Calls \cup {NoCall}, RowWritten(s, r, kind, call)
       PROVE  RowsInOrder(rows') /\ WaitBehind(rows', turns')
  <2>1. \A j \in DOMAIN rows' : rows'[j].kind = "user" => j \in DOMAIN rows /\ rows'[j] = rows[j]
    BY <1>1, <1>10 DEF RowWritten, RowAdded, Row
  <2>2. QED  BY <1>2, <1>10, <2>1 DEF RowWritten, RowsInOrder, WaitBehind
<1>11. QED
  BY <1>5, <1>6, <1>7, <1>8, <1>9, <1>10 DEF StepShape
-----------------------------------------------------------------------------
(* The transcript only grows; runs open with their turn.                   *)

\* No step changes or removes a row, and new rows come last.
LEMMA RowsOnlyGrow ==
  ASSUME TypeOK, StepShape
  PROVE  /\ Len(rows) \in Nat /\ DOMAIN rows = 1 .. Len(rows)
         /\ \A j \in DOMAIN rows : j \in DOMAIN rows' /\ rows'[j] = rows[j]
         /\ \A j \in DOMAIN rows' : j \in Nat /\ (j \notin DOMAIN rows => j > Len(rows))
<1>1. Len(rows) \in Nat /\ DOMAIN rows = 1 .. Len(rows)
  BY TurnsTyped
<1>2. CASE UNCHANGED rows
  BY <1>1, <1>2
<1>3. ASSUME NEW row, RowAdded(row)
      PROVE  /\ \A j \in DOMAIN rows : j \in DOMAIN rows' /\ rows'[j] = rows[j]
             /\ \A j \in DOMAIN rows' : j \in Nat /\ (j \notin DOMAIN rows => j > Len(rows))
  BY <1>1, <1>3 DEF RowAdded
<1>4. ASSUME NEW s \in Sessions, NEW r \in RunIds, NEW q, TurnsJoined(s, r, q)
      PROVE  /\ \A j \in DOMAIN rows : j \in DOMAIN rows' /\ rows'[j] = rows[j]
             /\ \A j \in DOMAIN rows' : j \in Nat /\ (j \notin DOMAIN rows => j > Len(rows))
  <2>1. /\ Len(q) \in Nat /\ DOMAIN rows' = 1 .. Len(rows) + Len(q)
        /\ \A j \in 1 .. Len(rows) : rows'[j] = rows[j]
    BY <1>4 DEF TurnsJoined, Joined
  <2>2. QED  BY <1>1, <2>1
<1>5. QED
  BY <1>1, <1>2, <1>3, <1>4
     DEF StepShape, RunsChange, TurnQueued, TurnStarted, TurnRemoved, RowWritten

\* The first row of run r in the transcript q is the user message of turn t.
Opens(q, s, r, t) ==
  \E j \in DOMAIN q :
    /\ q[j].kind = "user" /\ q[j].session = s /\ q[j].run = r /\ q[j].turn = t
    /\ \A m \in DOMAIN q : q[m].run = r => j <= m

LEMMA OpensSplit ==
  RunsOpenWithTheirTurn <=>
    \A r \in RunIds :
      runs[r].status # "absent" => Opens(rows, runs[r].session, r, runs[r].turn)
BY DEF RunsOpenWithTheirTurn, FirstUserMessage, Opens

\* A run that has its opening row keeps it, because later rows are behind it.
LEMMA OpensKept ==
  ASSUME TypeOK, StepShape, NEW s, NEW r, NEW t, Opens(rows, s, r, t)
  PROVE  Opens(rows', s, r, t)
<1>1. PICK j \in DOMAIN rows :
        /\ rows[j].kind = "user" /\ rows[j].session = s /\ rows[j].run = r /\ rows[j].turn = t
        /\ \A m \in DOMAIN rows : rows[m].run = r => j <= m
  BY DEF Opens
<1>2. ASSUME NEW m \in DOMAIN rows', rows'[m].run = r PROVE j <= m
  BY <1>1, <1>2, RowsOnlyGrow
<1>3. QED
  BY <1>1, <1>2, RowsOnlyGrow DEF Opens

\* A run that starts has no row before its opening row.
LEMMA OpensStep ==
  ASSUME TypeOK, RowsNameTheirRunAndTurn, RunsOpenWithTheirTurn, StepShape
  PROVE  RunsOpenWithTheirTurn'
<1>1. \A r \in RunIds :
        runs[r].status # "absent" => Opens(rows', runs[r].session, r, runs[r].turn)
  BY OpensSplit, OpensKept
<1>2. SUFFICES \A r \in RunIds :
        runs'[r].status # "absent" => Opens(rows', runs'[r].session, r, runs'[r].turn)
  BY DEF RunsOpenWithTheirTurn, FirstUserMessage, Opens
<1>3. CASE RunsChange
  BY <1>1, <1>3 DEF RunsChange
<1>4. CASE UNCHANGED runs
  BY <1>1, <1>4
<1>5. ASSUME NEW s \in Sessions, NEW i \in Nat, NEW r \in RunIds, TurnStarted(s, i, r)
      PROVE  \A q \in RunIds :
               runs'[q].status # "absent" => Opens(rows', runs'[q].session, q, runs'[q].turn)
  <2>1. /\ Len(rows) \in Nat /\ DOMAIN rows = 1 .. Len(rows)
        /\ DOMAIN rows' = 1 .. Len(rows) + 1
        /\ \A j \in 1 .. Len(rows) : rows'[j] = rows[j]
        /\ rows'[Len(rows) + 1] = Row(s, r, "user", i, NoCall)
    BY <1>5, TurnsTyped DEF TurnStarted, RowAdded
  <2>2. \A j \in 1 .. Len(rows) : rows'[j].run # r
    BY <1>5, <2>1 DEF TurnStarted, RowsNameTheirRunAndTurn
  <2>3. Opens(rows', s, r, i)
    <3>1. LET row == rows'[Len(rows) + 1]
          IN  row.kind = "user" /\ row.session = s /\ row.run = r /\ row.turn = i
      BY <2>1 DEF Row
    <3>2. \A m \in DOMAIN rows' : rows'[m].run = r => Len(rows) + 1 <= m
      BY <2>1, <2>2
    <3>3. Len(rows) + 1 \in DOMAIN rows'
      BY <2>1
    <3>4. QED  BY <3>1, <3>2, <3>3 DEF Opens
  <2>4. QED  BY <1>1, <1>5, <2>3 DEF TurnStarted
<1>6. QED
  BY <1>3, <1>4, <1>5 DEF StepShape, TurnQueued, TurnRemoved, TurnsJoined, RowWritten

-----------------------------------------------------------------------------
(* Calls are answered once.                                                *)

\* The rows of a transcript q that answer a call.
AnswersIn(q, call) == {j \in DOMAIN q : q[j].kind = "tool_result" /\ q[j].call = call}

\* Only the write that records a call's evidence adds a row that answers it.
LEMMA AnswersStep ==
  ASSUME TypeOK, ToolResultsAnswerOnce, StepShape
  PROVE  ToolResultsAnswerOnce'
<1> DEFINE Answered(q, known) ==
      \A call \in Calls : /\ \A a, b \in AnswersIn(q, call) : a = b
                          /\ AnswersIn(q, call) # {} <=> call \in known
<1>1. Answered(rows, results)
  BY DEF ToolResultsAnswerOnce, AnswersIn
<1>2. SUFFICES Answered(rows', results')
  BY DEF ToolResultsAnswerOnce, AnswersIn
<1>3. CASE UNCHANGED <<rows, results>>
  BY <1>1, <1>3
<1>4. ASSUME NEW row, RowAdded(row), NEW call
      PROVE  AnswersIn(rows', call) = AnswersIn(rows, call)
               \cup (IF row.kind = "tool_result" /\ row.call = call THEN {Len(rows) + 1} ELSE {})
  BY <1>4, TurnsTyped DEF RowAdded, AnswersIn
<1>5. ASSUME NEW s \in Sessions, NEW i \in Nat, NEW r \in RunIds, TurnStarted(s, i, r)
      PROVE  Answered(rows', results')
  <2>1. RowAdded(Row(s, r, "user", i, NoCall)) /\ results' = results
    BY <1>5 DEF TurnStarted
  <2>2. Row(s, r, "user", i, NoCall).kind # "tool_result"
    BY DEF Row
  <2>3. \A call : AnswersIn(rows', call) = AnswersIn(rows, call)
    BY <1>4, <2>1, <2>2
  <2>4. QED  BY <1>1, <2>1, <2>3
<1>6. ASSUME NEW s \in Sessions, NEW r \in RunIds, NEW q, TurnsJoined(s, r, q)
      PROVE  Answered(rows', results')
  <2>1. \A j \in DOMAIN rows' : \/ j \in DOMAIN rows /\ rows'[j] = rows[j]
                                \/ rows'[j].kind = "user"
    BY <1>6, JoinedTurns, TurnsTyped DEF Row
  <2>2. \A j \in DOMAIN rows : j \in DOMAIN rows' /\ rows'[j] = rows[j]
    BY <1>6, RowsOnlyGrow
  <2>3. \A call : AnswersIn(rows', call) = AnswersIn(rows, call)
    BY <2>1, <2>2 DEF AnswersIn
  <2>4. QED  BY <1>1, <1>6, <2>3 DEF TurnsJoined
<1>7. ASSUME NEW s \in Sessions, NEW r \in RunIds, NEW kind \in RowKind \ {"user"},
             NEW call \in Calls \cup {NoCall}, RowWritten(s, r, kind, call)
      PROVE  Answered(rows', results')
  <2>1. /\ RowAdded(Row(s, r, kind, 0, call))
        /\ Row(s, r, kind, 0, call).kind = kind /\ Row(s, r, kind, 0, call).call = call
    BY <1>7 DEF RowWritten, Row
  <2>2. CASE kind = "tool_result"
    <3>1. call \in Calls \ results /\ results' = results \cup {call}
      BY <1>7, <2>2 DEF RowWritten
    <3>2. AnswersIn(rows', call) = {Len(rows) + 1}
      BY <1>1, <1>4, <2>1, <2>2, <3>1
    <3>3. \A other : other # call => AnswersIn(rows', other) = AnswersIn(rows, other)
      BY <1>4, <2>1
    <3>4. QED  BY <1>1, <3>1, <3>2, <3>3
  <2>3. CASE kind # "tool_result"
    <3>1. results' = results
      BY <1>7, <2>3 DEF RowWritten
    <3>2. \A other : AnswersIn(rows', other) = AnswersIn(rows, other)
      BY <1>4, <2>1, <2>3
    <3>3. QED  BY <1>1, <3>1, <3>2
  <2>4. QED  BY <2>2, <2>3
<1>8. QED
  BY <1>3, <1>5, <1>6, <1>7 DEF StepShape, RunsChange, TurnQueued, TurnRemoved
-----------------------------------------------------------------------------
(* The theorems.                                                           *)

TranscriptInv ==
  /\ RowsNameTheirRunAndTurn
  /\ TurnsEnterTranscriptOnce
  /\ TranscriptInAcceptanceOrder
  /\ RunsOpenWithTheirTurn
  /\ ToolResultsAnswerOnce

\* What all steps keep together: types, identities and the transcript.
LEMMA TranscriptInvariant == Spec => [](TypeOK /\ TurnsInv /\ TranscriptInv)
<1>1. Init => TurnsInv
  BY DEF Init, TurnsInv, TurnIdentitiesUnique, RunsMatchStartedTurns, NoRun
<1>2. Init => TranscriptInv
  BY DEF Init, TranscriptInv, RowsNameTheirRunAndTurn, TurnsEnterTranscriptOnce, UserRowsOf,
         TranscriptInAcceptanceOrder, RunsOpenWithTheirTurn, ToolResultsAnswerOnce, NoRun
<1>3. TypeOK /\ TurnsInv /\ TranscriptInv /\ [Next]_vars => TranscriptInv'
  BY StepShapes, RowsNameStep, EntersOnceStep, OrderStep, OpensStep, AnswersStep
     DEF TranscriptInv
<1>4. QED
  BY <1>1, <1>2, <1>3, TurnsStep, StorageType, PTL DEF Spec

\* A run owns its rows, across any number of sessions, runs and recoveries.
THEOREM RowsBelongAlways == Spec => []RowsBelongToTheirRun
<1>1. TranscriptInv => RowsBelongToTheirRun
  BY DEF TranscriptInv, RowsBelongToTheirRun
<1>2. QED  BY <1>1, TranscriptInvariant, PTL

\* Turns enter the transcript once and in order, however many wait.
THEOREM TurnsEnterAlways == Spec => []TurnsEnterOnceInOrder
<1>1. TranscriptInv => TurnsEnterOnceInOrder
  BY DEF TranscriptInv, TurnsEnterOnceInOrder
<1>2. QED  BY <1>1, TranscriptInvariant, PTL

\* No write reaches a transcript through a run, or for a turn, of another
\* session.
THEOREM RowsNameTheirRunAndTurnAlways == Spec => []RowsNameTheirRunAndTurn
<1>1. TranscriptInv => RowsNameTheirRunAndTurn
  BY DEF TranscriptInv
<1>2. QED  BY <1>1, TranscriptInvariant, PTL

\* An accepted turn has exactly one user message once it started or joined,
\* and none while it waits or after it was removed.
THEOREM TurnsEnterOnceAlways == Spec => []TurnsEnterTranscriptOnce
<1>1. TranscriptInv => TurnsEnterTranscriptOnce
  BY DEF TranscriptInv
<1>2. QED  BY <1>1, TranscriptInvariant, PTL

\* No promotion and no join overtakes an older turn, however many wait.
THEOREM AcceptanceOrderAlways == Spec => []TranscriptInAcceptanceOrder
<1>1. TranscriptInv => TranscriptInAcceptanceOrder
  BY DEF TranscriptInv
<1>2. QED  BY <1>1, TranscriptInvariant, PTL

\* The rows of a run begin with the message of the turn that started it.
THEOREM RunsOpenAlways == Spec => []RunsOpenWithTheirTurn
<1>1. TranscriptInv => RunsOpenWithTheirTurn
  BY DEF TranscriptInv
<1>2. QED  BY <1>1, TranscriptInvariant, PTL

\* The evidence table and the transcript answer the same calls, each once.
THEOREM CallsAnsweredOnceAlways == Spec => []ToolResultsAnswerOnce
<1>1. TranscriptInv => ToolResultsAnswerOnce
  BY DEF TranscriptInv
<1>2. QED  BY <1>1, TranscriptInvariant, PTL

\* A run that ended keeps its outcome and gets no further row.
THEOREM TerminalRunsStayClosedAlways == Spec => TerminalRunsStayClosed
<1> DEFINE Closed ==
      \A r \in RunIds :
        runs[r].status \in TerminalStatus =>
          /\ runs'[r] = runs[r]
          /\ \A j \in DOMAIN rows' : rows'[j].run = r => j \in DOMAIN rows
<1>1. ASSUME TypeOK, TurnsInv, [Next]_vars PROVE Closed
  <2>1. StepShape
    BY <1>1, StepShapes
  <2>2. /\ Len(rows) \in Nat /\ DOMAIN rows = 1 .. Len(rows)
        /\ \A r \in RunIds : runs[r].status \in TerminalStatus =>
             runs[r].status # "absent" /\ ~Active(r)
    BY TurnsTyped DEF TerminalStatus, Active, ActiveStatus
  <2>3. CASE RunsChange
    BY <2>3 DEF RunsChange
  <2>4. CASE UNCHANGED <<rows, runs>>
    BY <2>4
  <2>5. ASSUME NEW s \in Sessions, NEW i \in Nat, NEW r \in RunIds, TurnStarted(s, i, r)
        PROVE  Closed
    <3>1. \A j \in DOMAIN rows' : j \in DOMAIN rows \/ rows'[j].run = r
      BY <2>2, <2>5 DEF TurnStarted, RowAdded, Row
    <3>2. QED  BY <2>2, <2>5, <3>1 DEF TurnStarted
  <2>6. ASSUME NEW s \in Sessions, NEW r \in RunIds, NEW q, TurnsJoined(s, r, q)
        PROVE  Closed
    <3>1. \A j \in DOMAIN rows' : j \in DOMAIN rows \/ rows'[j].run = r
      BY <1>1, <2>2, <2>6, JoinedTurns DEF Row
    <3>2. QED  BY <2>2, <2>6, <3>1 DEF TurnsJoined, RequireActiveRun
  <2>7. ASSUME NEW s \in Sessions, NEW r \in RunIds, NEW kind \in RowKind \ {"user"},
               NEW call \in Calls \cup {NoCall}, RowWritten(s, r, kind, call)
        PROVE  Closed
    <3>1. \A j \in DOMAIN rows' : j \in DOMAIN rows \/ rows'[j].run = r
      BY <2>2, <2>7 DEF RowWritten, RowAdded, Row
    <3>2. QED  BY <2>2, <2>7, <3>1 DEF RowWritten, RequireActiveRun
  <2>8. QED
    BY <2>1, <2>3, <2>4, <2>5, <2>6, <2>7 DEF StepShape, TurnQueued, TurnRemoved
<1>2. TypeOK /\ TurnsInv /\ [Next]_vars => [Closed]_vars
  BY <1>1
<1>3. QED
  BY <1>2, TranscriptInvariant, PTL DEF Spec, TerminalRunsStayClosed

\* A turn that left the queue never returns, and no step changes its content:
\* what a client was told of an accepted turn stays true of its row.
THEOREM AcceptedTurnsSettleAlways == Spec => AcceptedTurnsSettle
<1> DEFINE Settled ==
      \A i \in DOMAIN turns :
        /\ i \in DOMAIN turns'
        /\ [turns'[i] EXCEPT !.state = turns[i].state] = turns[i]
        /\ turns[i].state # "pending" => turns'[i].state = turns[i].state
<1>1. ASSUME TypeOK, TurnsInv, [Next]_vars PROVE Settled
  <2>1. StepShape
    BY <1>1, StepShapes
  <2>2. /\ Len(turns) \in Nat /\ DOMAIN turns = 1 .. Len(turns)
        /\ \A i \in DOMAIN turns : turns[i] \in TurnRow
    BY <1>1, TurnsTyped
  <2>3. \A t \in TurnRow : [t EXCEPT !.state = t.state] = t
    BY DEF TurnRow
  <2>4. \A t \in TurnRow, state \in TurnState :
          [[t EXCEPT !.state = state] EXCEPT !.state = t.state] = t
    BY DEF TurnRow
  <2>5. ASSUME NEW i \in DOMAIN turns, turns'[i] = turns[i]
         PROVE  [turns'[i] EXCEPT !.state = turns[i].state] = turns[i]
    BY <2>2, <2>3, <2>5
  <2>6. ASSUME NEW i \in DOMAIN turns, NEW state \in TurnState,
                turns'[i] = [turns[i] EXCEPT !.state = state]
         PROVE  [turns'[i] EXCEPT !.state = turns[i].state] = turns[i]
    BY <2>2, <2>4, <2>6
  <2>7. CASE UNCHANGED turns
    BY <2>2, <2>3, <2>7
  <2>8. CASE TurnQueued
    BY <2>2, <2>3, <2>8 DEF TurnQueued
  <2>9. ASSUME NEW s \in Sessions, NEW k \in Nat, NEW r \in RunIds, TurnStarted(s, k, r)
        PROVE  Settled
    <3>1. ASSUME NEW i \in 1 .. Len(turns), i # k
          PROVE  i \in DOMAIN turns' /\ turns'[i] = turns[i]
      BY <2>2, <2>9, <3>1 DEF TurnStarted
    <3>2. ASSUME k \in 1 .. Len(turns)
          PROVE  /\ k \in DOMAIN turns' /\ turns[k].state = "pending"
                 /\ turns'[k] = [turns[k] EXCEPT !.state = "started"]
      BY <2>2, <2>9, <3>2 DEF TurnStarted
    <3>3. "started" \in TurnState
      BY DEF TurnState
    <3>4. ASSUME NEW i \in DOMAIN turns
          PROVE  /\ i \in DOMAIN turns'
                 /\ [turns'[i] EXCEPT !.state = turns[i].state] = turns[i]
                 /\ turns[i].state # "pending" => turns'[i].state = turns[i].state
      <4>1. CASE i = k
        BY <2>2, <2>6, <3>2, <3>3, <4>1
      <4>2. CASE i # k
        BY <2>2, <2>5, <3>1, <4>2
      <4>3. QED  BY <4>1, <4>2
    <3>5. QED  BY <3>4
  <2>10. ASSUME NEW k \in DOMAIN turns, TurnRemoved(k) PROVE Settled
    <3>1. "removed" \in TurnState
      BY DEF TurnState
    <3>2. ASSUME NEW i \in DOMAIN turns
          PROVE  /\ i \in DOMAIN turns'
                 /\ [turns'[i] EXCEPT !.state = turns[i].state] = turns[i]
                 /\ turns[i].state # "pending" => turns'[i].state = turns[i].state
      <4>1. CASE i = k
        BY <2>2, <2>6, <2>10, <3>1, <4>1 DEF TurnRemoved
      <4>2. CASE i # k
        BY <2>2, <2>5, <2>10, <4>2 DEF TurnRemoved
      <4>3. QED  BY <4>1, <4>2
    <3>3. QED  BY <3>2
  <2>11. ASSUME NEW s \in Sessions, NEW r \in RunIds, NEW q, TurnsJoined(s, r, q)
        PROVE  Settled
    <3>1. \A i \in DOMAIN turns :
            /\ i \in DOMAIN turns'
            /\ i \in Pending(s) => /\ turns'[i] = [turns[i] EXCEPT !.state = "appended"]
                                   /\ turns[i].state = "pending"
            /\ i \notin Pending(s) => turns'[i] = [turns[i] EXCEPT !.state = turns[i].state]
      BY <2>11 DEF TurnsJoined, Joined, Pending
    <3>2. "appended" \in TurnState
      BY DEF TurnState
    <3>3. QED  BY <2>2, <2>3, <2>4, <3>1, <3>2
  <2>12. QED
    BY <2>1, <2>7, <2>8, <2>9, <2>10, <2>11 DEF StepShape, RunsChange, RowWritten
<1>2. TypeOK /\ TurnsInv /\ [Next]_vars => [Settled]_vars
  BY <1>1
<1>3. QED
  BY <1>2, TranscriptInvariant, PTL DEF Spec, AcceptedTurnsSettle

-----------------------------------------------------------------------------
(* The tables implement TurnDelivery: each shape of a step is one action   *)
(* of the promise, or none.  First the abstract state as functions of the  *)
(* tables.                                                                 *)

WaitingIn(t) ==
  [s \in Sessions |-> {i \in DOMAIN t : t[i].session = s /\ t[i].state = "pending"}]

DeliveredIn(q) ==
  [s \in Sessions |->
     {q[j].turn : j \in {m \in DOMAIN q : q[m].kind = "user" /\ q[m].session = s}}]

ServingIn(u) ==
  [s \in Sessions |-> \E r \in RunIds : u[r].session = s /\ u[r].status \in ActiveStatus]

\* A function that agrees with another except at one point is its EXCEPT.
LEMMA ChangedAt ==
  ASSUME NEW f, NEW g, f = [t \in Sessions |-> f[t]], g = [t \in Sessions |-> g[t]],
         NEW s \in Sessions, NEW v, \A t \in Sessions : g[t] = IF t = s THEN v ELSE f[t]
  PROVE  g = [f EXCEPT ![s] = v]
OBVIOUS

\* The derived values are functions on the sessions, whatever the tables hold.
LEMMA DerivedFunctions ==
  ASSUME NEW t, NEW q, NEW u
  PROVE  /\ WaitingIn(t) = [s \in Sessions |-> WaitingIn(t)[s]]
         /\ DeliveredIn(q) = [s \in Sessions |-> DeliveredIn(q)[s]]
         /\ ServingIn(u) = [s \in Sessions |-> ServingIn(u)[s]]
BY DEF WaitingIn, DeliveredIn, ServingIn

\* They are the values the refinement mapping gives the promise's variables.
LEMMA AbstractState ==
  /\ WaitingIn(turns) = [s \in Sessions |-> Pending(s)]
  /\ WaitingIn(turns') = [s \in Sessions |-> Pending(s)']
  /\ DeliveredIn(rows) = [s \in Sessions |-> DeliveredTurns(s)]
  /\ DeliveredIn(rows') = [s \in Sessions |-> DeliveredTurns(s)']
  /\ ServingIn(runs) = [s \in Sessions |-> HasActiveRun(s)]
  /\ ServingIn(runs') = [s \in Sessions |-> HasActiveRun(s)']
BY DEF WaitingIn, DeliveredIn, ServingIn, Pending, DeliveredTurns, HasActiveRun, Active

\* The six lemmas that follow state one action of the promise each, over the
\* functions of the tables.  Here an arrival waits.
LEMMA AbstractWait ==
  ASSUME NEW s \in Sessions, ServingIn(runs)[s], Len(turns') = Len(turns) + 1,
         WaitingIn(turns') = [WaitingIn(turns) EXCEPT ![s] = @ \cup {Len(turns) + 1}],
         DeliveredIn(rows') = DeliveredIn(rows), ServingIn(runs') = ServingIn(runs)
  PROVE  Delivery!Next
<1>1. Delivery!Wait(s)
  BY AbstractState DEF Delivery!Wait
<1>2. QED  BY <1>1 DEF Delivery!Next

\* The turn that waits longest is served and the arrival waits.
LEMMA AbstractServeOldest ==
  ASSUME NEW s \in Sessions, ~ServingIn(runs)[s], Len(turns') = Len(turns) + 1,
         NEW i \in WaitingIn(turns)[s], \A j \in WaitingIn(turns)[s] : i <= j,
         WaitingIn(turns') =
           [WaitingIn(turns) EXCEPT ![s] = (@ \ {i}) \cup {Len(turns) + 1}],
         DeliveredIn(rows') = [DeliveredIn(rows) EXCEPT ![s] = @ \cup {i}],
         ServingIn(runs') = [ServingIn(runs) EXCEPT ![s] = TRUE]
  PROVE  Delivery!Next
<1>1. Delivery!ServeOldest(s)
  BY AbstractState DEF Delivery!ServeOldest, Delivery!Oldest
<1>2. QED  BY <1>1 DEF Delivery!Next

\* The arrival is served at once.
LEMMA AbstractServeArrival ==
  ASSUME NEW s \in Sessions, ~ServingIn(runs)[s], Len(turns') = Len(turns) + 1,
         WaitingIn(turns)[s] = {}, WaitingIn(turns') = WaitingIn(turns),
         DeliveredIn(rows') = [DeliveredIn(rows) EXCEPT ![s] = @ \cup {Len(turns) + 1}],
         ServingIn(runs') = [ServingIn(runs) EXCEPT ![s] = TRUE]
  PROVE  Delivery!Next
<1>1. Delivery!ServeArrival(s)
  BY AbstractState DEF Delivery!ServeArrival
<1>2. QED  BY <1>1 DEF Delivery!Next

\* A waiting turn is withdrawn.
LEMMA AbstractWithdraw ==
  ASSUME NEW s \in Sessions, NEW i \in WaitingIn(turns)[s], Len(turns') = Len(turns),
         WaitingIn(turns') = [WaitingIn(turns) EXCEPT ![s] = @ \ {i}],
         DeliveredIn(rows') = DeliveredIn(rows), ServingIn(runs') = ServingIn(runs)
  PROVE  Delivery!Next
<1>1. Delivery!Withdraw(s)
  BY AbstractState DEF Delivery!Withdraw
<1>2. QED  BY <1>1 DEF Delivery!Next

\* All waiting turns of a session join its run.
LEMMA AbstractJoin ==
  ASSUME NEW s \in Sessions, ServingIn(runs)[s], Len(turns') = Len(turns),
         DeliveredIn(rows') = [DeliveredIn(rows) EXCEPT ![s] = @ \cup WaitingIn(turns)[s]],
         WaitingIn(turns') = [WaitingIn(turns) EXCEPT ![s] = {}],
         ServingIn(runs') = ServingIn(runs)
  PROVE  Delivery!Next
<1>1. Delivery!Join(s)
  BY AbstractState DEF Delivery!Join
<1>2. QED  BY <1>1 DEF Delivery!Next

\* Some sessions stop serving, and nothing else changes.
LEMMA AbstractEndServing ==
  ASSUME Len(turns') = Len(turns), WaitingIn(turns') = WaitingIn(turns),
         DeliveredIn(rows') = DeliveredIn(rows),
         \A s \in Sessions : ServingIn(runs')[s] => ServingIn(runs)[s]
  PROVE  Delivery!Next
<1> DEFINE S == {s \in Sessions : ~ServingIn(runs')[s]}
<1>1. ServingIn(runs') = [s \in Sessions |-> ServingIn(runs)[s] /\ s \notin S]
  BY DEF ServingIn
<1>2. Delivery!EndServing(S)
  BY <1>1, AbstractState DEF Delivery!EndServing
<1>3. QED  BY <1>2 DEF Delivery!Next
-----------------------------------------------------------------------------
(* Each shape is an action of the promise.                                 *)

\* What the transcript delivers after one more row.
LEMMA DeliveredByAdded ==
  ASSUME TypeOK, NEW row, RowAdded(row)
  PROVE  /\ row.kind # "user" => DeliveredIn(rows') = DeliveredIn(rows)
         /\ row.kind = "user" /\ row.session \in Sessions =>
              DeliveredIn(rows') = [DeliveredIn(rows) EXCEPT ![row.session] = @ \cup {row.turn}]
<1>1. /\ Len(rows) \in Nat /\ DOMAIN rows = 1 .. Len(rows)
      /\ DOMAIN rows' = 1 .. Len(rows) + 1 /\ rows'[Len(rows) + 1] = row
      /\ \A j \in 1 .. Len(rows) : rows'[j] = rows[j]
  BY TurnsTyped DEF RowAdded
<1>2. ASSUME NEW s \in Sessions
      PROVE  {m \in DOMAIN rows' : rows'[m].kind = "user" /\ rows'[m].session = s}
               = {m \in DOMAIN rows : rows[m].kind = "user" /\ rows[m].session = s}
                 \cup (IF row.kind = "user" /\ row.session = s THEN {Len(rows) + 1} ELSE {})
  BY <1>1
<1>3. ASSUME NEW s \in Sessions
      PROVE  DeliveredIn(rows')[s] = DeliveredIn(rows)[s]
               \cup (IF row.kind = "user" /\ row.session = s THEN {row.turn} ELSE {})
  BY <1>1, <1>2 DEF DeliveredIn
<1>4. ASSUME row.kind # "user" PROVE DeliveredIn(rows') = DeliveredIn(rows)
  <2>1. \A s \in Sessions : DeliveredIn(rows')[s] = DeliveredIn(rows)[s]
    BY <1>3, <1>4
  <2>2. QED  BY <2>1, DerivedFunctions
<1>5. ASSUME row.kind = "user", row.session \in Sessions
      PROVE  DeliveredIn(rows') = [DeliveredIn(rows) EXCEPT ![row.session] = @ \cup {row.turn}]
  <2>1. \A s \in Sessions :
          DeliveredIn(rows')[s] =
            IF s = row.session THEN DeliveredIn(rows)[row.session] \cup {row.turn}
                               ELSE DeliveredIn(rows)[s]
    BY <1>3, <1>5
  <2>2. QED  BY <1>5, <2>1, DerivedFunctions, ChangedAt
<1>6. QED
  BY <1>4, <1>5

\* An arrival behind an active run waits in its session.
LEMMA QueuedMaps ==
  ASSUME TypeOK, TypeOK', TurnQueued
  PROVE  Delivery!Next
<1> DEFINE n == Len(turns)
<1>1. /\ n \in Nat /\ DOMAIN turns = 1 .. n /\ DOMAIN turns' = 1 .. n + 1
      /\ \A j \in 1 .. n : turns'[j] = turns[j]
      /\ turns'[n + 1].state = "pending"
  BY TurnsTyped DEF TurnQueued
<1>2. Len(turns') = n + 1 /\ turns'[n + 1] \in TurnRow
  BY <1>1, LenProperties, ElementOfSeq DEF TypeOK
<1>3. PICK s \in Sessions : s = turns'[n + 1].session
  BY <1>2 DEF TurnRow
<1>4. ServingIn(runs)[s]
  BY <1>3 DEF TurnQueued, HasActiveRun, Active, ServingIn
<1>5. WaitingIn(turns') = [WaitingIn(turns) EXCEPT ![s] = @ \cup {n + 1}]
  <2>1. ASSUME NEW t \in Sessions
        PROVE  WaitingIn(turns')[t] =
                 IF t = s THEN WaitingIn(turns)[s] \cup {n + 1} ELSE WaitingIn(turns)[t]
    BY <1>1, <1>3 DEF WaitingIn
  <2>2. QED  BY <1>3, <2>1, DerivedFunctions, ChangedAt
<1>6. DeliveredIn(rows') = DeliveredIn(rows) /\ ServingIn(runs') = ServingIn(runs)
  BY DEF TurnQueued
<1>7. QED
  BY <1>2, <1>3, <1>4, <1>5, <1>6, AbstractWait

\* Taking a pending turn back withdraws it.
LEMMA RemovedMaps ==
  ASSUME TypeOK, TypeOK', NEW i \in DOMAIN turns, TurnRemoved(i)
  PROVE  Delivery!Next
<1>1. /\ turns[i] \in TurnRow /\ turns[i].state = "pending"
      /\ DOMAIN turns' = DOMAIN turns /\ DOMAIN turns = 1 .. Len(turns) /\ Len(turns) \in Nat
      /\ turns'[i].state = "removed"
      /\ \A j \in DOMAIN turns : j # i => turns'[j] = turns[j]
  BY TurnsTyped DEF TurnRemoved, TurnRow
<1>2. Len(turns') = Len(turns)
  BY <1>1, LenProperties DEF TypeOK
<1>3. PICK s \in Sessions : s = turns[i].session
  BY <1>1 DEF TurnRow
<1>4. WaitingIn(turns') = [WaitingIn(turns) EXCEPT ![s] = @ \ {i}]
  <2>1. ASSUME NEW t \in Sessions
        PROVE  WaitingIn(turns')[t] =
                 IF t = s THEN WaitingIn(turns)[s] \ {i} ELSE WaitingIn(turns)[t]
    BY <1>1, <1>3 DEF WaitingIn
  <2>2. QED  BY <2>1, DerivedFunctions, ChangedAt
<1>5. i \in WaitingIn(turns)[s]
  BY <1>1, <1>3 DEF WaitingIn
<1>6. DeliveredIn(rows') = DeliveredIn(rows) /\ ServingIn(runs') = ServingIn(runs)
  BY DEF TurnRemoved
<1>7. QED
  BY <1>2, <1>4, <1>5, <1>6, AbstractWithdraw

\* A promotion serves the oldest waiting turn, or the arrival when none waits.
LEMMA StartedMaps ==
  ASSUME TypeOK, TypeOK', NEW s \in Sessions, NEW i \in Nat, NEW r \in RunIds,
         TurnStarted(s, i, r)
  PROVE  Delivery!Next
<1> DEFINE n == Len(turns)
<1>1. /\ n \in Nat /\ DOMAIN turns = 1 .. n /\ DOMAIN turns' = 1 .. n + 1
      /\ i \in 1 .. n + 1
      /\ \A j \in 1 .. n : j # i => turns'[j] = turns[j]
      /\ turns'[i].session = s /\ turns'[i].state = "started"
      /\ turns'[n + 1].session = s
  BY TurnsTyped DEF TurnStarted
<1>2. Len(turns') = n + 1
  BY <1>1, LenProperties DEF TypeOK
<1>3. ~ServingIn(runs)[s]
  BY DEF TurnStarted, HasActiveRun, Active, ServingIn
<1>4. ServingIn(runs') = [ServingIn(runs) EXCEPT ![s] = TRUE]
  <2>1. ServingIn(runs')[s]
    BY DEF TurnStarted, ServingIn, ActiveStatus
  <2>2. ASSUME NEW t \in Sessions, t # s PROVE ServingIn(runs')[t] = ServingIn(runs)[t]
    <3>1. /\ runs[r].status = "absent" /\ runs'[r].session = s
          /\ \A q \in RunIds : q # r => runs'[q] = runs[q]
      BY DEF TurnStarted
    <3>2. runs[r].status \notin ActiveStatus
      BY <3>1 DEF ActiveStatus
    <3>3. QED  BY <2>2, <3>1, <3>2 DEF ServingIn
  <2>3. QED  BY <2>1, <2>2 DEF ServingIn
<1>5. DeliveredIn(rows') = [DeliveredIn(rows) EXCEPT ![s] = @ \cup {i}]
  <2>1. RowAdded(Row(s, r, "user", i, NoCall))
    BY DEF TurnStarted
  <2>2. QED  BY <2>1, DeliveredByAdded DEF Row
<1>6. CASE i = n + 1
  <2>1. WaitingIn(turns)[s] = {}
    BY <1>6 DEF TurnStarted, WaitingIn, Pending
  <2>2. WaitingIn(turns') = WaitingIn(turns)
    BY <1>1, <1>6 DEF WaitingIn
  <2>3. QED
    BY <1>2, <1>3, <1>4, <1>5, <1>6, <2>1, <2>2, AbstractServeArrival
<1>7. CASE i \in 1 .. n
  <2>1. /\ turns[i].session = s /\ turns[i].state = "pending" /\ i # n + 1
        /\ turns'[n + 1].state = "pending"
    BY <1>1, <1>7 DEF TurnStarted
  <2>2. i \in WaitingIn(turns)[s]
    BY <1>1, <1>7, <2>1 DEF WaitingIn
  <2>3. \A j \in WaitingIn(turns)[s] : i <= j
    BY DEF TurnStarted, Pending, WaitingIn
  <2>4. WaitingIn(turns') = [WaitingIn(turns) EXCEPT ![s] = (@ \ {i}) \cup {n + 1}]
    <3>1. ASSUME NEW t \in Sessions
          PROVE  WaitingIn(turns')[t]
                   = IF t = s THEN (WaitingIn(turns)[t] \ {i}) \cup {n + 1} ELSE WaitingIn(turns)[t]
      BY <1>1, <1>7, <2>1 DEF WaitingIn
    <3>2. QED  BY <3>1 DEF WaitingIn
  <2>5. QED
    BY <1>2, <1>3, <1>4, <1>5, <2>2, <2>3, <2>4, AbstractServeOldest
<1>8. QED
  BY <1>1, <1>6, <1>7

\* Joining puts every waiting turn of the session before the model.
LEMMA JoinedMaps ==
  ASSUME TypeOK, TypeOK', NEW s \in Sessions, NEW r \in RunIds, NEW q, TurnsJoined(s, r, q)
  PROVE  Delivery!Next
<1>1. /\ DOMAIN turns' = DOMAIN turns /\ DOMAIN turns = 1 .. Len(turns) /\ Len(turns) \in Nat
      /\ \A i \in DOMAIN turns : turns[i] \in TurnRow
      /\ Len(rows) \in Nat /\ DOMAIN rows = 1 .. Len(rows)
  BY TurnsTyped DEF TurnsJoined, Joined
<1>2. Len(turns') = Len(turns)
  BY <1>1, LenProperties DEF TypeOK
<1>3. ServingIn(runs)[s] /\ ServingIn(runs') = ServingIn(runs)
  BY DEF TurnsJoined, RequireActiveRun, Active, ServingIn
<1>4. WaitingIn(turns') = [WaitingIn(turns) EXCEPT ![s] = {}]
  <2>1. \A i \in DOMAIN turns :
          /\ turns'[i].session = turns[i].session
          /\ turns'[i].state = IF i \in Pending(s) THEN "appended" ELSE turns[i].state
    BY <1>1 DEF TurnsJoined, Joined, TurnRow
  <2>2. ASSUME NEW t \in Sessions
        PROVE  WaitingIn(turns')[t] = IF t = s THEN {} ELSE WaitingIn(turns)[t]
    BY <1>1, <2>1 DEF WaitingIn, Pending
  <2>3. QED  BY <2>2 DEF WaitingIn
<1>5. DeliveredIn(rows') = [DeliveredIn(rows) EXCEPT ![s] = @ \cup WaitingIn(turns)[s]]
  <2>1. /\ Len(q) \in Nat
        /\ \A a \in 1 .. Len(q) : q[a] \in WaitingIn(turns)[s]
        /\ \A i \in WaitingIn(turns)[s] : \E a \in 1 .. Len(q) : q[a] = i
    BY JoinedTurns DEF WaitingIn, Pending
  <2>2. /\ DOMAIN rows' = 1 .. Len(rows) + Len(q)
        /\ \A j \in 1 .. Len(rows) : rows'[j] = rows[j]
        /\ \A a \in 1 .. Len(q) : rows'[Len(rows) + a] = Row(s, r, "user", q[a], NoCall)
    BY DEF TurnsJoined, Joined
  <2>3. ASSUME NEW a \in 1 .. Len(q)
        PROVE  /\ rows'[Len(rows) + a].kind = "user"
               /\ rows'[Len(rows) + a].session = s
               /\ rows'[Len(rows) + a].turn = q[a]
    <3>1. rows'[Len(rows) + a] = Row(s, r, "user", q[a], NoCall)
      BY <2>2
    <3>2. QED  BY <3>1 DEF Row
  <2>4. \A j \in DOMAIN rows' : j \in 1 .. Len(rows) \/ \E a \in 1 .. Len(q) : j = Len(rows) + a
    BY JoinedTurns
  <2>5. ASSUME NEW t \in Sessions, NEW k \in DeliveredIn(rows')[t]
        PROVE  k \in DeliveredIn(rows)[t] \/ (t = s /\ k \in WaitingIn(turns)[s])
    <3>1. PICK j \in DOMAIN rows' : rows'[j].kind = "user" /\ rows'[j].session = t /\ rows'[j].turn = k
      BY <2>5 DEF DeliveredIn
    <3>2. CASE j \in 1 .. Len(rows)
      BY <1>1, <2>2, <3>1, <3>2 DEF DeliveredIn
    <3>3. ASSUME NEW a \in 1 .. Len(q), j = Len(rows) + a
          PROVE  t = s /\ k \in WaitingIn(turns)[s]
      BY <2>1, <2>3, <3>1, <3>3
    <3>4. QED  BY <2>4, <3>2, <3>3
  <2>6. ASSUME NEW t \in Sessions, NEW k \in DeliveredIn(rows)[t] PROVE k \in DeliveredIn(rows')[t]
    <3>1. PICK j \in DOMAIN rows : rows[j].kind = "user" /\ rows[j].session = t /\ rows[j].turn = k
      BY <2>6 DEF DeliveredIn
    <3>2. j \in DOMAIN rows' /\ rows'[j] = rows[j]
      BY <1>1, <2>1, <2>2
    <3>3. QED  BY <3>1, <3>2 DEF DeliveredIn
  <2>7. ASSUME NEW k \in WaitingIn(turns)[s] PROVE k \in DeliveredIn(rows')[s]
    <3>1. PICK a \in 1 .. Len(q) : q[a] = k
      BY <2>1
    <3>2. Len(rows) + a \in DOMAIN rows'
      BY <1>1, <2>1, <2>2
    <3>3. QED  BY <2>3, <3>1, <3>2 DEF DeliveredIn
  <2>8. ASSUME NEW t \in Sessions
        PROVE  DeliveredIn(rows')[t] =
                 IF t = s THEN DeliveredIn(rows)[s] \cup WaitingIn(turns)[s]
                          ELSE DeliveredIn(rows)[t]
    <3>1. CASE t = s
      <4>1. \A k : k \in DeliveredIn(rows')[s]
                   <=> k \in DeliveredIn(rows)[s] \/ k \in WaitingIn(turns)[s]
        BY <2>5, <2>6, <2>7
      <4>2. DeliveredIn(rows')[s] = DeliveredIn(rows)[s] \cup WaitingIn(turns)[s]
        BY <4>1
      <4>3. QED  BY <3>1, <4>2
    <3>2. CASE t # s
      <4>1. \A k : k \in DeliveredIn(rows')[t] <=> k \in DeliveredIn(rows)[t]
        BY <2>5, <2>6, <3>2
      <4>2. QED  BY <3>2, <4>1 DEF DeliveredIn
    <3>3. QED  BY <3>1, <3>2
  <2>9. QED  BY <2>8, DerivedFunctions, ChangedAt
<1>6. QED
  BY <1>2, <1>3, <1>4, <1>5, AbstractJoin

\* Every step shape of the tables is a step of the promise.
LEMMA StepMaps ==
  ASSUME TypeOK, TypeOK', StepShape
  PROVE  Delivery!Next
<1>1. CASE RunsChange
  <2>1. \A s \in Sessions : ServingIn(runs')[s] => ServingIn(runs)[s]
    BY <1>1 DEF RunsChange, ServingIn
  <2>2. QED  BY <1>1, <2>1, AbstractEndServing DEF RunsChange
<1>2. ASSUME NEW s \in Sessions, NEW r \in RunIds, NEW kind \in RowKind \ {"user"},
             NEW call \in Calls \cup {NoCall}, RowWritten(s, r, kind, call)
      PROVE  Delivery!Next
  <2>1. RowAdded(Row(s, r, kind, 0, call)) /\ turns' = turns /\ runs' = runs
    BY <1>2 DEF RowWritten
  <2>2. DeliveredIn(rows') = DeliveredIn(rows)
    BY <2>1, DeliveredByAdded DEF Row
  <2>3. QED  BY <2>1, <2>2, AbstractEndServing
<1>3. QED
  BY <1>1, <1>2, QueuedMaps, RemovedMaps, StartedMaps, JoinedMaps DEF StepShape

\* Every history of the tables is a history of the promised queue of turns.
THEOREM StorageDeliversTurns == Spec => DeliversTurns
<1>1. Init => Delivery!Init
  BY DEF Init, Delivery!Init, Pending, DeliveredTurns, HasActiveRun, Active, NoRun, ActiveStatus
<1>2. TypeOK /\ TypeOK' /\ TurnsInv /\ [Next]_vars => [Delivery!Next]_Delivery!vars
  BY StepShapes, StepMaps
<1>3. QED
  BY <1>1, <1>2, TranscriptInvariant, PTL DEF Spec, DeliversTurns, Delivery!Spec
=============================================================================
