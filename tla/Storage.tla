------------------------------- MODULE Storage -------------------------------
(***************************************************************************)
(* The durable state of the relay: crates/intention-storage/src/sqlite.rs. *)
(*                                                                         *)
(* One daemon process owns one SQLite connection behind a mutex, and every *)
(* mutation of the repository is one immediate transaction, so every       *)
(* mutation is one action here.  A transaction that a crash interrupts is  *)
(* rolled back by the journal: it is the action not taken.  A call the     *)
(* repository refuses, and a call it answers from what is already recorded *)
(* (a replayed turn, a repeated equal outcome), changes no row: such a     *)
(* call is a stuttering step, and its answer is the operator ReplayOutcome.*)
(*                                                                         *)
(* The daemon process is up or down.  Opening mints the configuration      *)
(* revision of the process and interrupts every unfinished run before a    *)
(* command is served (intention-daemon/src/composition.rs).                *)
(***************************************************************************)
EXTENDS Naturals, Sequences

CONSTANTS
  Sessions,    \* session identities
  Keys,        \* idempotency keys
  RunIds,      \* run identities a caller may propose
  Texts,       \* contents of user turns that pass the content checks
  Calls,       \* tool call identities
  Evidence,    \* usage, finish reason and error recorded with an outcome
  NoSession,   \* the session of a run row that does not exist
  NoCall,      \* the call of a transcript row that is not a tool row
  NoEvidence,  \* the evidence columns while they are NULL
  MaxTurns,    \* bound: accepted turns
  MaxRows,     \* bound: transcript rows
  MaxEpochs    \* bound: daemon processes

ASSUME StorageAssumption ==
  /\ NoSession \notin Sessions
  /\ MaxTurns \in Nat /\ MaxRows \in Nat /\ MaxEpochs \in Nat

VARIABLES
  up,        \* a daemon process has recovered and serves commands
  epoch,     \* the process generation, which is its configuration revision
  born,      \* history: the runs the present process has started
  sessions,  \* table sessions
  turns,     \* table turns in rowid order
  runs,      \* table runs, by run identity
  rows,      \* table messages in id order
  results    \* table tool_results: the call identities that are answered

vars == <<up, epoch, born, sessions, turns, runs, rows, results>>

-----------------------------------------------------------------------------
ActiveStatus == {"starting", "running"}
TerminalStatus == {"completed", "failed", "interrupted"}
TurnState == {"pending", "started", "appended", "removed"}
RowKind == {"user", "assistant", "notice", "tool_call", "tool_result"}

TurnRow == [session : Sessions, key : Keys, run : RunIds, revision : Nat,
            text : Texts, state : TurnState]

RunRow == [session : Sessions \cup {NoSession}, turn : Nat, revision : Nat,
           status : {"absent"} \cup ActiveStatus \cup TerminalStatus,
           evidence : Evidence \cup {NoEvidence}]

MessageRow == [session : Sessions, run : RunIds, kind : RowKind, turn : Nat,
               call : Calls \cup {NoCall}]

NoRun == [session |-> NoSession, turn |-> 0, revision |-> 0,
          status |-> "absent", evidence |-> NoEvidence]

Turn(s, k, c, r, state) ==
  [session |-> s, key |-> k, run |-> r, revision |-> epoch, text |-> c,
   state |-> state]

Row(s, r, kind, i, call) ==
  [session |-> s, run |-> r, kind |-> kind, turn |-> i, call |-> call]

-----------------------------------------------------------------------------
(* Reads inside a transaction.                                             *)

Active(r) == runs[r].status \in ActiveStatus

\* Fault: a run that is still starting does not count as active.
HasActiveRunFault(s) == \E r \in RunIds : runs[r].session = s /\ runs[r].status = "running"

HasActiveRun(s) == \E r \in RunIds : runs[r].session = s /\ Active(r)

\* Fault: the write checks the scope of the run and not its status.
RequireActiveRunFault(s, r) == runs[r].session = s

\* Fault: the write checks the status of the run and not its session.
RequireActiveRunUnscopedFault(s, r) == Active(r)

\* The check of every write that addresses a run.
RequireActiveRun(s, r) == runs[r].session = s /\ Active(r)

Pending(s) ==
  {i \in DOMAIN turns : turns[i].session = s /\ turns[i].state = "pending"}

OldestPending(s, i) == i \in Pending(s) /\ \A j \in Pending(s) : i <= j

KeyBound(s, k) == \E i \in DOMAIN turns : turns[i].session = s /\ turns[i].key = k

\* Fault: identities that queued turns reserve are overlooked.
ProposedRunIdentityIsBoundFault(r) == runs[r].status # "absent"

ProposedRunIdentityIsBound(r) ==
  \/ \E i \in DOMAIN turns : turns[i].run = r
  \/ runs[r].status # "absent"

\* The first user message of a run: its starting turn.
FirstUserMessage(s, r, j) ==
  LET IsUser(m) == rows[m].kind = "user" /\ rows[m].session = s /\ rows[m].run = r
  IN  /\ j \in DOMAIN rows /\ IsUser(j)
      /\ \A m \in DOMAIN rows : IsUser(m) => j <= m

\* The answer to a repetition, with content c and run r, of the command that
\* was accepted as turn i.
ReplayOutcome(i, c, r) ==
  CASE turns[i].text # c \/ turns[i].run # r \/ turns[i].revision # epoch -> "conflict"
    [] turns[i].state = "removed" -> "conflict"
    [] turns[i].state \in {"pending", "appended"} -> "pending"
    [] OTHER -> "started"

-----------------------------------------------------------------------------
Init ==
  /\ up = FALSE
  /\ epoch = 0
  /\ born = {}
  /\ sessions = {}
  /\ turns = <<>>
  /\ runs = [r \in RunIds |-> NoRun]
  /\ rows = <<>>
  /\ results = {}

\* Fault: recovery overlooks the runs that were still starting.
RecoverUnfinishedRunsFault ==
  runs' = [r \in RunIds |-> IF runs[r].status = "running"
                            THEN [runs[r] EXCEPT !.status = "interrupted"]
                            ELSE runs[r]]

RecoverUnfinishedRuns ==
  runs' = [r \in RunIds |-> IF Active(r)
                            THEN [runs[r] EXCEPT !.status = "interrupted"]
                            ELSE runs[r]]

\* A process opens the database, mints its revision and recovers.
Open ==
  /\ ~up
  /\ epoch < MaxEpochs
  /\ up' = TRUE
  /\ epoch' = epoch + 1
  /\ RecoverUnfinishedRuns
  /\ UNCHANGED <<born, sessions, turns, rows, results>>

\* The process ends, for whatever reason, between two transactions.
Crash ==
  /\ up
  /\ up' = FALSE
  /\ born' = {}
  /\ UNCHANGED <<epoch, sessions, turns, runs, rows, results>>

CreateSession(s) ==
  /\ up
  /\ s \notin sessions
  /\ sessions' = sessions \cup {s}
  /\ UNCHANGED <<up, epoch, born, turns, runs, rows, results>>

-----------------------------------------------------------------------------
(* accept_user_turn                                                        *)

\* The turn is new: neither a replay nor a conflict of identities.
Acceptable(s, k, r) ==
  /\ up
  /\ s \in sessions
  /\ ~KeyBound(s, k)
  /\ ~ProposedRunIdentityIsBound(r)
  /\ Len(turns) < MaxTurns

QueuePendingTurn(s, k, c, r) ==
  /\ HasActiveRun(s)
  /\ turns' = Append(turns, Turn(s, k, c, r, "pending"))
  /\ UNCHANGED <<born, runs, rows>>

\* Fault: the run commits without its starting message.
StartRunFault(s, i, r, v) ==
  /\ runs' = [runs EXCEPT ![r] =
       [session |-> s, turn |-> i, revision |-> v, status |-> "starting",
        evidence |-> NoEvidence]]
  /\ born' = born \cup {r}
  /\ UNCHANGED rows

\* Commits the run of turn i and the user message that starts it.
StartRun(s, i, r, v) ==
  /\ Len(rows) < MaxRows
  /\ runs' = [runs EXCEPT ![r] =
       [session |-> s, turn |-> i, revision |-> v, status |-> "starting",
        evidence |-> NoEvidence]]
  /\ rows' = Append(rows, Row(s, r, "user", i, NoCall))
  /\ born' = born \cup {r}

\* Fault: the promoted turn runs under the identity of the new command.
StartOldestPendingFault(s, k, c, r) ==
  /\ ~HasActiveRun(s)
  /\ \E i \in Pending(s) :
       /\ OldestPending(s, i)
       /\ turns' = Append([turns EXCEPT ![i].state = "started"],
                          Turn(s, k, c, r, "pending"))
       /\ StartRun(s, i, r, epoch)

\* An idle session serves its oldest pending turn; the new one waits behind it.
StartOldestPending(s, k, c, r) ==
  /\ ~HasActiveRun(s)
  /\ \E i \in Pending(s) :
       /\ OldestPending(s, i)
       /\ turns' = Append([turns EXCEPT ![i].state = "started"],
                          Turn(s, k, c, r, "pending"))
       /\ StartRun(s, i, turns[i].run, turns[i].revision)

\* Fault: the new turn of an idle session overtakes those that wait.
StartAcceptedTurnFault(s, k, c, r) ==
  /\ ~HasActiveRun(s)
  /\ turns' = Append(turns, Turn(s, k, c, r, "started"))
  /\ StartRun(s, Len(turns) + 1, r, epoch)

StartAcceptedTurn(s, k, c, r) ==
  /\ ~HasActiveRun(s)
  /\ Pending(s) = {}
  /\ turns' = Append(turns, Turn(s, k, c, r, "started"))
  /\ StartRun(s, Len(turns) + 1, r, epoch)

AcceptUserTurn(s, k, c, r) ==
  /\ Acceptable(s, k, r)
  /\ \/ QueuePendingTurn(s, k, c, r)
     \/ StartOldestPending(s, k, c, r)
     \/ StartAcceptedTurn(s, k, c, r)
  /\ UNCHANGED <<up, epoch, sessions, results>>

\* Fault: a turn that already left the queue can be removed.
RemoveTurnFault(s, i) ==
  /\ up
  /\ turns[i].session = s
  /\ turns' = [turns EXCEPT ![i].state = "removed"]
  /\ UNCHANGED <<up, epoch, born, sessions, runs, rows, results>>

\* Fault: removal writes a state the reader does not declare.
RemoveTurnUndeclaredFault(s, i) ==
  /\ up
  /\ i \in Pending(s)
  /\ turns' = [turns EXCEPT ![i].state = "cancelled"]
  /\ UNCHANGED <<up, epoch, born, sessions, runs, rows, results>>

RemoveTurn(s, i) ==
  /\ up
  /\ i \in Pending(s)
  /\ turns' = [turns EXCEPT ![i].state = "removed"]
  /\ UNCHANGED <<up, epoch, born, sessions, runs, rows, results>>

-----------------------------------------------------------------------------
(* Writes of a run's executor.                                             *)

\* The enumerations of a set of turns in rowid order.
InRowidOrder(P) ==
  {q \in UNION {[1 .. n -> P] : n \in 0 .. Len(turns)} :
     /\ \A a, b \in DOMAIN q : a < b => q[a] < q[b]
     /\ \A i \in P : \E a \in DOMAIN q : q[a] = i}

\* Fault: the joined turns stay pending.
ConsumePendingUserTurnsFault(s, r) ==
  /\ up
  /\ RequireActiveRun(s, r)
  /\ \E q \in InRowidOrder(Pending(s)) :
       /\ Len(rows) + Len(q) <= MaxRows
       /\ rows' = rows \o [a \in DOMAIN q |-> Row(s, r, "user", q[a], NoCall)]
  /\ UNCHANGED <<up, epoch, born, sessions, turns, runs, results>>

\* Fault: a join takes one turn and leaves the others waiting.
ConsumeOneTurnFault(s, r) ==
  /\ up
  /\ RequireActiveRun(s, r)
  /\ Len(rows) < MaxRows
  /\ \E i \in Pending(s) :
       /\ OldestPending(s, i)
       /\ rows' = Append(rows, Row(s, r, "user", i, NoCall))
       /\ turns' = [turns EXCEPT ![i].state = "appended"]
  /\ UNCHANGED <<up, epoch, born, sessions, runs, results>>

\* Every pending turn joins the run, in order, in one transaction.
ConsumePendingUserTurns(s, r) ==
  /\ up
  /\ RequireActiveRun(s, r)
  /\ Pending(s) # {}
  /\ \E q \in InRowidOrder(Pending(s)) :
       /\ Len(rows) + Len(q) <= MaxRows
       /\ rows' = rows \o [a \in DOMAIN q |-> Row(s, r, "user", q[a], NoCall)]
  /\ turns' = [i \in DOMAIN turns |-> IF i \in Pending(s)
                                      THEN [turns[i] EXCEPT !.state = "appended"]
                                      ELSE turns[i]]
  /\ UNCHANGED <<up, epoch, born, sessions, runs, results>>

\* The only successor the executor asks transition_run for is running.
TransitionRun(s, r) ==
  /\ up
  /\ runs[r].session = s
  /\ runs[r].status = "starting"
  /\ runs' = [runs EXCEPT ![r].status = "running"]
  /\ UNCHANGED <<up, epoch, born, sessions, turns, rows, results>>

\* A starting run may fail or be interrupted; only a running one completes.
FinishRun(s, r, status, e) ==
  /\ up
  /\ RequireActiveRun(s, r)
  /\ runs[r].status = "starting" => status # "completed"
  /\ runs' = [runs EXCEPT ![r].status = status, ![r].evidence = e]
  /\ UNCHANGED <<up, epoch, born, sessions, turns, rows, results>>

AppendMessage(s, r, kind, call) ==
  /\ up
  /\ s \in sessions
  /\ RequireActiveRun(s, r)
  /\ Len(rows) < MaxRows
  /\ rows' = Append(rows, Row(s, r, kind, 0, call))
  /\ UNCHANGED <<up, epoch, born, sessions, turns, runs, results>>

\* Fault: a second result for the same call is accepted.
WriteToolResultFault(s, r, call) ==
  /\ up
  /\ RequireActiveRun(s, r)
  /\ Len(rows) < MaxRows
  /\ results' = results \cup {call}
  /\ rows' = Append(rows, Row(s, r, "tool_result", 0, call))
  /\ UNCHANGED <<up, epoch, born, sessions, turns, runs>>

\* The result evidence and the row that answers the call commit together.
WriteToolResult(s, r, call) ==
  /\ up
  /\ s \in sessions
  /\ RequireActiveRun(s, r)
  /\ call \notin results
  /\ Len(rows) < MaxRows
  /\ results' = results \cup {call}
  /\ rows' = Append(rows, Row(s, r, "tool_result", 0, call))
  /\ UNCHANGED <<up, epoch, born, sessions, turns, runs>>

-----------------------------------------------------------------------------
ExecutorWrites(s, r) ==
  \/ ConsumePendingUserTurns(s, r)
  \/ TransitionRun(s, r)
  \/ \E status \in TerminalStatus, e \in Evidence : FinishRun(s, r, status, e)
  \/ \E kind \in {"assistant", "notice"} : AppendMessage(s, r, kind, NoCall)
  \/ \E call \in Calls : AppendMessage(s, r, "tool_call", call)
  \/ \E call \in Calls : WriteToolResult(s, r, call)

Next ==
  \/ Open
  \/ Crash
  \/ \E s \in Sessions :
       \/ CreateSession(s)
       \/ \E k \in Keys, c \in Texts, r \in RunIds : AcceptUserTurn(s, k, c, r)
       \/ \E i \in DOMAIN turns : RemoveTurn(s, i)
       \/ \E r \in RunIds : ExecutorWrites(s, r)

Spec == Init /\ [][Next]_vars

-----------------------------------------------------------------------------
TypeOK ==
  /\ up \in BOOLEAN
  /\ epoch \in Nat
  /\ born \subseteq RunIds
  /\ sessions \subseteq Sessions
  /\ turns \in Seq(TurnRow)
  /\ runs \in [RunIds -> RunRow]
  /\ rows \in Seq(MessageRow)
  /\ results \subseteq Calls

\* A session never owns two runs that accept writes, however turns are
\* accepted, promoted, finished and recovered: the unique index
\* one_active_run_per_session is never what stops a second run.
OneActiveRun ==
  \A r1, r2 \in RunIds :
    (Active(r1) /\ Active(r2) /\ runs[r1].session = runs[r2].session) => r1 = r2

\* A key names at most one turn of its session and a run identity at most one
\* turn of the database, so a repeated command never creates a second turn and
\* the table's unique constraints are never what refuses a promotion.
TurnIdentitiesUnique ==
  \A i, j \in DOMAIN turns :
    i # j => /\ turns[i].run # turns[j].run
             /\ turns[i].session = turns[j].session => turns[i].key # turns[j].key

\* Run rows and started turns match one to one, also for a pending turn that
\* was promoted long after it was accepted: the run a replay looks up exists,
\* in the turn's session, under the revision that turn selected.
RunsMatchStartedTurns ==
  /\ \A r \in RunIds : runs[r].status # "absent" =>
       /\ runs[r].turn \in DOMAIN turns
       /\ LET t == turns[runs[r].turn]
          IN  /\ t.run = r /\ t.session = runs[r].session
              /\ t.revision = runs[r].revision /\ t.state = "started"
  /\ \A i \in DOMAIN turns :
       turns[i].state = "started" => runs[turns[i].run].turn = i

\* The tables of turns and of runs agree, however turns are repeated, queued,
\* promoted and recovered.
TurnsMatchRuns == TurnIdentitiesUnique /\ RunsMatchStartedTurns

\* Every transcript row belongs to a run of its own session, and a user row
\* carries a turn accepted in that session: no write reaches a transcript
\* through a run of another session.
RowsNameTheirRunAndTurn ==
  \A j \in DOMAIN rows :
    /\ runs[rows[j].run].status # "absent"
    /\ runs[rows[j].run].session = rows[j].session
    /\ rows[j].kind = "user" => /\ rows[j].turn \in DOMAIN turns
                                /\ turns[rows[j].turn].session = rows[j].session

\* The rows that carry turn i.
UserRowsOf(i) == {j \in DOMAIN rows : rows[j].kind = "user" /\ rows[j].turn = i}

\* A turn enters the transcript exactly once if it started a run or joined
\* one, and never while it is pending or after it was removed, whatever
\* crashes, recoveries and promotions happen in between.
TurnsEnterTranscriptOnce ==
  \A i \in DOMAIN turns :
    /\ \A a, b \in UserRowsOf(i) : a = b
    /\ UserRowsOf(i) # {} <=> turns[i].state \in {"started", "appended"}

\* Turns of a session enter its transcript in the order they were accepted,
\* and a turn still pending was accepted after all of them: no promotion and
\* no join overtakes an older turn.
TranscriptInAcceptanceOrder ==
  /\ \A a, b \in DOMAIN rows :
       ( /\ rows[a].kind = "user" /\ rows[b].kind = "user"
         /\ rows[a].session = rows[b].session /\ a < b )
       => rows[a].turn < rows[b].turn
  /\ \A a \in DOMAIN rows :
       rows[a].kind = "user" => \A i \in Pending(rows[a].session) : rows[a].turn < i

\* The transcript carries each turn that started or joined once, at the place
\* of its acceptance.
TurnsEnterOnceInOrder == TurnsEnterTranscriptOnce /\ TranscriptInAcceptanceOrder

\* The first row of every run is the user message of the turn that started
\* it, so the starting context and a replayed acceptance always find it.
RunsOpenWithTheirTurn ==
  \A r \in RunIds : runs[r].status # "absent" =>
    \E j \in DOMAIN rows :
      /\ FirstUserMessage(runs[r].session, r, j)
      /\ rows[j].turn = runs[r].turn
      /\ \A m \in DOMAIN rows : rows[m].run = r => j <= m

\* A run owns its rows: they are of its session, and the first one is the
\* message of the turn that started it.
RowsBelongToTheirRun == RowsNameTheirRunAndTurn /\ RunsOpenWithTheirTurn

\* A call has a result row in the transcript exactly when it has its evidence
\* row, and never two: the two tables cannot drift apart.
ToolResultsAnswerOnce ==
  \A call \in Calls :
    LET Answers == {j \in DOMAIN rows : rows[j].kind = "tool_result" /\ rows[j].call = call}
    IN  /\ \A a, b \in Answers : a = b
        /\ Answers # {} <=> call \in results

\* While a process serves, every unfinished run is one it started itself:
\* recovery leaves no run of a dead process looking alive.
ActiveRunsAreOfThisProcess == up => \A r \in RunIds : Active(r) => r \in born

\* A finished run is closed: its outcome is never replaced, recovery does not
\* rewrite it, and no later row is attributed to it.
TerminalRunsStayClosed ==
  [][\A r \in RunIds :
       runs[r].status \in TerminalStatus =>
         /\ runs'[r] = runs[r]
         /\ \A j \in DOMAIN rows' : rows'[j].run = r => j \in DOMAIN rows]_vars

\* An accepted turn is never lost or rebound: it keeps its place, its content
\* and its run, and once it left the queue its state is final.
AcceptedTurnsSettle ==
  [][\A i \in DOMAIN turns :
       /\ i \in DOMAIN turns'
       /\ [turns'[i] EXCEPT !.state = turns[i].state] = turns[i]
       /\ turns[i].state # "pending" => turns'[i].state = turns[i].state]_vars

-----------------------------------------------------------------------------
(* What the documents say of a repeated command.                           *)

\* "repeating an accepted turn with the same IdempotencyKey and unchanged
\* content returns the recorded outcome instead of writing a second turn"
\* (docs/intention-relay/architecture/04-sessions-runs-events-and-storage.md).
RepeatedTurnReplays ==
  up => \A i \in DOMAIN turns :
          turns[i].state # "removed" =>
            ReplayOutcome(i, turns[i].text, turns[i].run) # "conflict"
=============================================================================
