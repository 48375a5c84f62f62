------------------------------- MODULE Catalog -------------------------------
(***************************************************************************)
(* How a daemon comes to serve its database and what the commands that     *)
(* make sessions leave in it: the configuration document of                *)
(* crates/intention-config/src/lib.rs, the opening of the composition root *)
(* and its command gate in crates/intention-daemon/src/composition.rs,     *)
(* create_session of crates/intention-engine/src/lib.rs, and the file, its *)
(* schema stamp and its bindings in crates/intention-storage/src/sqlite.rs.*)
(*                                                                         *)
(* The process may end between any two steps, and in the middle of a write *)
(* of the database, which then leaves a torn file beside its rollback      *)
(* journal.  A row is its encoded size.  What recovery does to the runs is *)
(* the subject of Storage.                                                 *)
(***************************************************************************)
EXTENDS Naturals, Sequences, SequencesExt

CONSTANTS
  Clients,      \* the callers that make a session, each with fresh identities
  Roots,        \* workspace roots
  Nobody,       \* no caller, no root
  Documents,    \* configuration documents
  Budget,       \* bytes of one snapshot
  Sizes,        \* encoded sizes of a row and of a projection
  MaxRows,      \* bound: rows of the session a snapshot reads
  MaxStarts     \* bound: starts of the daemon

\* A document by the class of each field that a rule tells apart.
Document == [private : BOOLEAN, schema : {"none", "other", "current"},
             credential : {"none", "given"}, kind : {"generic", "openrouter"},
             endpoint : {"none", "blank", "given"}, model : {"blank", "given"},
             attempts : {"none", "zero", "one", "two", "three"},
             timeout : {"none", "zero", "one", "thirty", "sixty", "longer"},
             window : {"none", "zero", "small", "large"},
             theme : {"none", "light", "dark", "blue"}]

CatalogAssumption ==
  /\ Nobody \notin Clients \cup Roots
  /\ Documents \subseteq Document
  /\ Budget \in Nat /\ Sizes \subseteq Nat \ {0}
  /\ MaxRows \in Nat /\ MaxStarts \in Nat

VARIABLES
  stage,      \* how far the daemon process has come
  starts,     \* the number of the process, its fresh configuration revision
  selected,   \* the resolved configuration it holds
  file,       \* the database file
  journal,    \* a rollback journal lies beside the path of the file
  gate,       \* the caller whose command holds the command gate
  call,       \* where each caller's creation is
  joined,     \* the workspace identity each creation carries once joined
  rootOf,     \* the workspace root each caller asks for
  answer      \* the last snapshot read

process == <<stage, starts, selected>>
disk == <<file, journal>>
commands == <<gate, call, joined, rootOf>>
vars == <<process, disk, commands, answer>>

-----------------------------------------------------------------------------
(* The configuration document.                                             *)

Refused == [attempts |-> "none", window |-> "none", theme |-> "none"]

\* An absent field of a document is none.
OrDefault(field, default) == IF field = "none" THEN default ELSE field
MaxAttempts(document) == OrDefault(document.attempts, "two")
AttemptTimeout(document) == OrDefault(document.timeout, "thirty")
WindowTokens(document) == OrDefault(document.window, "large")
Theme(document) == OrDefault(document.theme, "light")

\* The ranges a number is refused outside of.
ExecutionAllowed(document) ==
  AttemptTimeout(document) \in {"one", "thirty", "sixty"} /\ MaxAttempts(document) \in {"one", "two"}
WindowAllowed(document) == WindowTokens(document) # "zero"
ThemeKnown(document) == Theme(document) \in {"light", "dark"}

\* The provider a document selects, and the driver made for it.
SelectionAllowed(document) == document.endpoint # "blank" /\ document.model # "blank"
DriverSelected(document) == document.kind = "generic" => document.endpoint # "none"
OnlyItsUserReads(document) == document.private

\* The first rule a document breaks refuses the whole document.
Resolve(document) ==
  IF /\ OnlyItsUserReads(document)
     /\ document.schema = "current" /\ document.credential = "given"
     /\ WindowAllowed(document) /\ SelectionAllowed(document)
     /\ ExecutionAllowed(document) /\ ThemeKnown(document)
     /\ DriverSelected(document)
  THEN [attempts |-> MaxAttempts(document), window |-> WindowTokens(document),
        theme |-> Theme(document)]
  ELSE Refused

-----------------------------------------------------------------------------
(* The database file.                                                      *)

\* What is committed: the workspace each root is bound to, the root of each
\* caller's session, the revision of each first turn, and the revisions.
Nothing == [bound |-> [r \in Roots |-> Nobody], session |-> [c \in Clients |-> Nobody],
            turn |-> [c \in Clients |-> 0], revisions |-> {}]

NoFile == [stamp |-> "absent", torn |-> FALSE, content |-> Nothing]
Written(stamp, content) == [stamp |-> stamp, torn |-> FALSE, content |-> content]

Exists == file # NoFile
Created == IF Exists THEN file ELSE Written("unstamped", Nothing)

\* An unfinished write is rolled back by the first read of a connection that
\* finds the journal; without it the file is no database.
HotJournal == journal /\ file.torn
CarriesCurrentSchemaStamp == file.stamp = "current" /\ (file.torn => journal)

Commit(content) == file' = [file EXCEPT !.content = content] /\ UNCHANGED journal

NoAnswer == [rows |-> <<>>, projection |-> 0, from |-> 0]
Silent == answer' = NoAnswer

Init ==
  /\ stage = "down" /\ starts = 0 /\ selected = Refused
  \* Nothing, an earlier version's file, or one a crash or a full disk cut short,
  \* alone or beside a journal.
  /\ file \in {NoFile, Written("earlier", Nothing), [Written("earlier", Nothing) EXCEPT !.torn = TRUE]}
  /\ journal \in BOOLEAN /\ (journal => Exists)
  /\ gate = Nobody
  /\ call = [c \in Clients |-> "idle"]
  /\ joined = [c \in Clients |-> Nobody]
  /\ rootOf \in [Clients -> Roots]
  /\ answer = NoAnswer

-----------------------------------------------------------------------------
(* Opening.                                                                *)

\* Configuration first: a refused document opens nothing.
LoadProviderConfiguration ==
  /\ stage = "down" /\ starts < MaxStarts
  /\ \E document \in Documents :
       /\ Resolve(document) # Refused
       /\ selected' = Resolve(document)
  /\ stage' = "configured" /\ starts' = starts + 1
  /\ Silent
  /\ UNCHANGED <<disk, commands>>

\* Fault: a journal beside the file is taken away before the file is read.
RecreateStaleDatabaseFault ==
  /\ stage = "configured"
  /\ IF ~Exists
     THEN stage' = "creating" /\ UNCHANGED disk
     ELSE /\ stage' = IF file.stamp = "current" /\ ~file.torn THEN "creating" ELSE "discarding"
          /\ journal' = FALSE
          /\ UNCHANGED file
  /\ Silent
  /\ UNCHANGED <<starts, selected, commands>>

\* The stamp of an existing file, read through a connection that rolls an
\* unfinished write back.
RecreateStaleDatabase ==
  /\ stage = "configured"
  /\ IF ~Exists
     THEN stage' = "creating" /\ UNCHANGED disk
     ELSE /\ stage' = IF CarriesCurrentSchemaStamp THEN "creating" ELSE "discarding"
          /\ file' = IF HotJournal THEN [file EXCEPT !.torn = FALSE] ELSE file
          /\ journal' = (journal /\ ~HotJournal)
  /\ Silent
  /\ UNCHANGED <<starts, selected, commands>>

\* Fault: the file goes first.
DiscardFault ==
  \/ stage = "discarding" /\ file' = NoFile /\ stage' = "unlinking" /\ UNCHANGED journal
  \/ stage = "unlinking" /\ journal' = FALSE /\ stage' = "creating" /\ UNCHANGED file

\* The two removals of a stale database.
Discard ==
  \/ stage = "discarding" /\ journal' = FALSE /\ stage' = "unlinking" /\ UNCHANGED file
  \/ stage = "unlinking" /\ file' = NoFile /\ stage' = "creating" /\ UNCHANGED journal

DiscardStale ==
  /\ Discard
  /\ Silent
  /\ UNCHANGED <<starts, selected, commands>>

\* The current schema, then its stamp.
CreateSchema ==
  /\ stage = "creating" /\ stage' = "stamping"
  /\ file' = Created
  /\ Silent
  /\ UNCHANGED <<starts, selected, journal, commands>>

StampSchema ==
  /\ stage = "stamping" /\ stage' = "accepting"
  /\ file' = [file EXCEPT !.stamp = "current"]
  /\ Silent
  /\ UNCHANGED <<starts, selected, journal, commands>>

AcceptConfigurationRevision ==
  /\ stage = "accepting" /\ stage' = "recovering"
  /\ Commit([file.content EXCEPT !.revisions = @ \cup {starts}])
  /\ Silent
  /\ UNCHANGED <<starts, selected, commands>>

\* Peers are served after the recovery, which leaves the catalog as it is.
RecoverBeforeReady ==
  /\ stage = "recovering" /\ stage' = "ready"
  /\ Silent
  /\ UNCHANGED <<starts, selected, disk, commands>>

\* The process ends: every call on it is lost.  In the middle of a write the
\* file is torn and the journal holds what it was.
Writing ==
  \/ stage = "creating" /\ ~Exists
  \/ stage \in {"stamping", "accepting", "recovering", "ready"}

Crash ==
  /\ stage # "down" /\ stage' = "down" /\ selected' = Refused
  /\ \/ UNCHANGED disk
     \/ Writing /\ file' = [Created EXCEPT !.torn = TRUE] /\ journal' = TRUE
  /\ gate' = Nobody
  /\ call' = [c \in Clients |-> IF call[c] \in {"joined", "made"} THEN "lost" ELSE call[c]]
  /\ joined' = [c \in Clients |-> Nobody]
  /\ Silent
  /\ UNCHANGED <<starts, rootOf>>

-----------------------------------------------------------------------------
(* create_session, from the reading of the binding to the first turn.      *)

Goto(c, place) == call' = [call EXCEPT ![c] = place]

\* Fault: the command does not wait for the gate.
EnterGateFault(c) == UNCHANGED gate

EnterGate(c) == gate = Nobody /\ gate' = c

Holds(c) == stage = "ready" /\ gate \in {c, Nobody}
LeaveGate(c) == gate' = Nobody

\* The identity a root is bound to.
WorkspaceBinding(root) == file.content.bound[root]

\* A creation, the first time or again because its answer was lost, carries the
\* identity its root is already bound to.
JoinWorkspaceBinding(c) ==
  /\ stage = "ready" /\ call[c] \in {"idle", "lost"}
  /\ EnterGate(c)
  /\ LET bound == WorkspaceBinding(rootOf[c]) IN
     joined' = [joined EXCEPT ![c] = IF bound = Nobody THEN c ELSE bound]
  /\ Goto(c, "joined") /\ Silent
  /\ UNCHANGED <<process, disk, rootOf>>

\* The transaction of the storage.  A session that exists already is answered
\* as it is; a root and an identity that are not bound to each other conflict.
CreateSession(c) ==
  /\ Holds(c) /\ call[c] = "joined"
  /\ LET content == file.content
         root == rootOf[c]
         Exist == content.session[c] # Nobody
         Conflict == \/ content.bound[root] \notin {Nobody, joined[c]}
                     \/ \E r \in Roots \ {root} : content.bound[r] = joined[c]
     IN \/ /\ Exist \/ ~Conflict
           /\ Goto(c, "made")
           /\ IF Exist THEN UNCHANGED disk
              ELSE Commit([content EXCEPT !.bound[root] = joined[c], !.session[c] = root])
           /\ UNCHANGED <<gate, joined>>
        \/ /\ ~Exist /\ Conflict
           /\ Goto(c, "conflict") /\ LeaveGate(c)
           /\ joined' = [joined EXCEPT ![c] = Nobody]
           /\ UNCHANGED disk
  /\ Silent
  /\ UNCHANGED <<process, rootOf>>

\* Fault: the answer leaves before the turn is committed.
AcceptFirstTurnFault(c) ==
  /\ Holds(c) /\ call[c] = "made"
  /\ Goto(c, "created") /\ LeaveGate(c) /\ Silent
  /\ joined' = [joined EXCEPT ![c] = Nobody]
  /\ UNCHANGED <<process, disk, rootOf>>

\* A turn the session already carries replays for the process that accepted it.  To
\* a later one it is a conflict of the turn's key, since each process makes its own
\* configuration revision.
ReplayedTurn(turn) == IF turn \in {0, starts} THEN "created" ELSE "refused"

\* The turn is accepted or replayed; the answer may not arrive.
AcceptFirstTurn(c) ==
  /\ Holds(c) /\ call[c] = "made"
  /\ IF file.content.turn[c] = 0
     THEN Commit([file.content EXCEPT !.turn[c] = starts, !.revisions = @ \cup {starts}])
     ELSE UNCHANGED disk
  /\ \E place \in {ReplayedTurn(file.content.turn[c]), "lost"} : Goto(c, place)
  /\ LeaveGate(c) /\ Silent
  /\ joined' = [joined EXCEPT ![c] = Nobody]
  /\ UNCHANGED <<process, rootOf>>

\* Either transaction fails and is rolled back.
CreationFails(c) ==
  /\ Holds(c) /\ call[c] \in {"joined", "made"}
  /\ Goto(c, "lost") /\ LeaveGate(c) /\ Silent
  /\ joined' = [joined EXCEPT ![c] = Nobody]
  /\ UNCHANGED <<process, disk, rootOf>>

-----------------------------------------------------------------------------
(* The snapshot of a session.                                              *)

Monus(a, b) == IF a > b THEN a - b ELSE 0

\* The size of the k-th newest row.
Newest(rows, k) == rows[Len(rows) + 1 - k]

\* The index of the first row kept: from the newest to the oldest, the newest
\* always, then every one that the budget the projection leaves still holds, up
\* to the first it does not.
BoundedSnapshotMessages(projection, rows) ==
  LET n == Len(rows)
      kept[k \in 0 .. n] ==
        IF k = 0
        THEN [budget |-> Monus(Budget, projection), from |-> n + 1, full |-> FALSE]
        ELSE LET before == kept[k - 1]
             IN  IF before.full \/ (Newest(rows, k) > before.budget /\ k # 1)
                 THEN [before EXCEPT !.full = TRUE]
                 ELSE [budget |-> Monus(before.budget, Newest(rows, k)), from |-> n + 1 - k,
                       full |-> FALSE]
  IN  kept[n].from

SessionSnapshot ==
  /\ stage = "ready"
  /\ \E rows \in BoundedSeq(Sizes, MaxRows), projection \in Sizes :
       answer' = [rows |-> rows, projection |-> projection,
                  from |-> BoundedSnapshotMessages(projection, rows)]
  /\ UNCHANGED <<process, disk, commands>>

Next ==
  \/ LoadProviderConfiguration
  \/ RecreateStaleDatabase
  \/ DiscardStale
  \/ CreateSchema
  \/ StampSchema
  \/ AcceptConfigurationRevision
  \/ RecoverBeforeReady
  \/ Crash
  \/ \E c \in Clients :
       JoinWorkspaceBinding(c) \/ CreateSession(c) \/ AcceptFirstTurn(c) \/ CreationFails(c)
  \/ SessionSnapshot

Spec == Init /\ [][Next]_vars

-----------------------------------------------------------------------------
Contents == [bound : [Roots -> Clients \cup {Nobody}], session : [Clients -> Roots \cup {Nobody}],
             turn : [Clients -> 0 .. MaxStarts], revisions : SUBSET (1 .. MaxStarts)]

Places == {"idle", "joined", "made", "created", "refused", "lost", "conflict"}

TypeOK ==
  /\ stage \in {"down", "configured", "discarding", "unlinking", "creating", "stamping",
                "accepting", "recovering", "ready"}
  /\ starts \in 0 .. MaxStarts
  /\ selected \in {Refused} \cup [attempts : {"one", "two"}, window : {"small", "large"},
                                  theme : {"light", "dark"}]
  /\ stage = "down" <=> selected = Refused
  /\ file \in [stamp : {"absent", "earlier", "unstamped", "current"}, torn : BOOLEAN,
               content : Contents]
  /\ journal \in BOOLEAN
  /\ gate \in Clients \cup {Nobody}
  /\ call \in [Clients -> Places]
  /\ joined \in [Clients -> Clients \cup {Nobody}]
  /\ rootOf \in [Clients -> Roots]
  /\ answer \in [rows : Seq(Sizes), projection : Sizes \cup {0}, from : Nat]

\* Whatever the earlier process left at the path and wherever it ended, a daemon
\* serves a whole database of the current schema that carries its revision, and
\* a crash between two removals never leaves a journal without its database.
ServedDatabaseIsWhole ==
  /\ stage = "ready" => /\ file.stamp = "current" /\ ~file.torn /\ ~journal
                        /\ starts \in file.content.revisions
  /\ journal => Exists

\* A creation that was answered stays in the database with its session, its
\* workspace and its first turn, through every crash, write and start that
\* follows, whether the answer was the creation or a refusal.  Another caller that
\* bound the same root meanwhile never refuses it; its own first turn does, and
\* only when an earlier process accepted that turn and its answer was lost.
AnsweredCreationsAreDurable ==
  \A c \in Clients :
    /\ call[c] # "conflict"
    /\ call[c] \in {"created", "refused"} =>
         /\ CarriesCurrentSchemaStamp
         /\ file.content.session[c] = rootOf[c]
         /\ file.content.bound[rootOf[c]] # Nobody
         /\ file.content.turn[c] \in file.content.revisions
    /\ call[c] = "refused" => file.content.turn[c] < starts

\* The bytes of the k newest rows.
Bytes(rows, k) ==
  LET sum[i \in 0 .. k] == IF i = 0 THEN 0 ELSE sum[i - 1] + Newest(rows, i)
  IN  sum[k]

\* The rows of a snapshot are the longest run of newest rows that the projection
\* leaves room for, and at least the newest, whatever its size.
SnapshotsFitTheirBudget ==
  LET n == Len(answer.rows)
      Fits(from) == Bytes(answer.rows, n + 1 - from) + answer.projection <= Budget
  IN n > 0 =>
       /\ answer.from \in 1 .. n
       /\ answer.from < n => Fits(answer.from)
       /\ \A from \in 1 .. answer.from - 1 : ~Fits(from)

\* The database a daemon serves is whole, what it answered survives, and what it
\* answers with fits a message (open, create_session, bounded_snapshot_messages).
CatalogIsKept ==
  ServedDatabaseIsWhole /\ AnsweredCreationsAreDurable /\ SnapshotsFitTheirBudget
=============================================================================
