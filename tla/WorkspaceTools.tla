---------------------------- MODULE WorkspaceTools ----------------------------
(***************************************************************************)
(* The file tools of crates/intention-tools/src/lib.rs: read, write, edit, *)
(* glob and grep, one call at a time, one action per file operation.  The  *)
(* call's stop signal may be raised, and another program may change the    *)
(* workspace, between any two of them.                                     *)
(*                                                                         *)
(* A file is a sequence of lines: "hit" matches the pattern of the search, *)
(* "miss" does not, "raw" is not UTF-8.  Sizes are counted in lines.       *)
(***************************************************************************)
EXTENDS Naturals, Sequences, FiniteSets, SequencesExt, Selections

CONSTANTS
  MaxLines,   \* bound: the lines of a file
  ReadCap,    \* MAX_TOOL_OUTPUT_BYTES
  EditCap,    \* MAX_EDIT_TARGET_BYTES
  Window,     \* MAX_GREP_AGGREGATE_BYTES, in entries
  MaxChanges  \* bound: changes by other programs

WorkspaceToolsAssumption ==
  {MaxLines, ReadCap, EditCap, Window, MaxChanges} \subseteq Nat /\ MaxLines > 0

Files == 1 .. 2          \* two files, in path order
Contents == BoundedSeq({"hit", "miss", "raw"}, MaxLines)
Missing == <<"missing">>
Texts == {<<"hit">>, <<"miss">>}

\* The calls; a guarded write or edit names the content it expects.
Calls ==
  [tool : {"read"}, path : Files] \cup [tool : {"glob", "grep_scope"}]
  \cup [tool : {"grep_file"}, path : Files]
  \cup [tool : {"write"}, path : Files, new : Texts, guard : {{}} \cup {{t} : t \in Texts}]
  \cup [tool : {"edit"}, path : Files, new : {<<"miss">>}, guard : {{}} \cup {{t} : t \in Texts}]

VARIABLES
  disk,      \* the content of each file
  call,      \* the call
  pc,        \* its next step
  cancelled, \* its stop signal
  text,      \* what it has read
  todo,      \* the files the search still has to read
  line,      \* the lines of the file in hand already scanned
  found,     \* its matches, or its paths
  truncated, \* its truncation mark
  result,    \* what it returned
  searched,  \* history: the files searched and what was in each
  passed,    \* history: the files read whose name no match can carry
  effect,    \* history: the call changed the file
  changes    \* changes by other programs

vars == <<disk, call, pc, cancelled, text, todo, line, found, truncated, result, searched,
          passed, effect, changes>>
search == <<text, todo, line, found, truncated, searched, passed>>

NoResult == [kind |-> "none"]
Error(code) == [kind |-> "error", code |-> code]
Outcome(kind, list, mark) == [kind |-> kind, list |-> list, truncated |-> mark]
Stop(list, mark) == Outcome("stopped", list, mark)
Complete(list, mark) == Outcome("completed", list, mark)
Silent == Stop(<<>>, FALSE)

Init ==
  /\ disk \in [Files -> Contents \cup {Missing}]
  /\ call \in Calls
  /\ pc = "dispatch" /\ cancelled = FALSE
  /\ text = <<>> /\ todo = <<>> /\ line = 0 /\ found = <<>> /\ truncated = FALSE
  /\ result = NoResult /\ searched = <<>> /\ passed = <<>> /\ effect = FALSE /\ changes = 0

Return(r) ==
  /\ result' = r /\ pc' = "returned"

Utf8(content) == "raw" \notin ToSet(content)
Min2(a, b) == IF a < b THEN a ELSE b

-----------------------------------------------------------------------------
(* Everyone else.                                                          *)

Cancel ==
  /\ ~cancelled /\ pc # "returned"
  /\ cancelled' = TRUE
  /\ UNCHANGED <<disk, call, pc, search, result, effect, changes>>

ChangeFile ==
  /\ changes < MaxChanges /\ pc # "returned"
  /\ \E f \in Files, c \in {<<"hit">>, <<"miss">>, Missing} : disk' = [disk EXCEPT ![f] = c]
  /\ changes' = changes + 1
  /\ UNCHANGED <<call, pc, cancelled, search, result, effect>>

-----------------------------------------------------------------------------
(* dispatch_with_cancellation, and read.                                   *)

FirstStep ==
  CASE call.tool = "write" -> IF call.guard = {} THEN "write" ELSE "check"
    [] call.tool = "edit" -> "target"
    [] call.tool = "grep_scope" -> "walk"
    [] OTHER -> call.tool

Dispatch ==
  /\ pc = "dispatch"
  /\ IF cancelled THEN Return(Silent)
     ELSE pc' = FirstStep /\ UNCHANGED result
  /\ UNCHANGED <<disk, call, cancelled, search, effect, changes>>

\* read_bounded: at most the cap, marked when something was dropped.
Bounded(content) == SubSeq(content, 1, Min2(ReadCap, Len(content)))
Dropped(content) == Len(content) > ReadCap

ReadFile ==
  /\ pc = "read"
  /\ IF disk[call.path] = Missing
     THEN Return(Error("tool_read_failed")) /\ UNCHANGED search
     ELSE /\ text' = Bounded(disk[call.path])
          /\ truncated' = (Dropped(disk[call.path]) \/ ~Utf8(text'))
          /\ searched' = <<[file |-> call.path, content |-> disk[call.path]]>>
          /\ pc' = "read_end"
          /\ UNCHANGED <<todo, line, found, passed, result>>
  /\ UNCHANGED <<disk, call, cancelled, effect, changes>>

\* A stop observed after the read keeps the bytes as the partial output.
ReadEnds ==
  /\ pc = "read_end"
  /\ Return(IF cancelled THEN Stop(text, truncated) ELSE Complete(text, truncated))
  /\ UNCHANGED <<disk, call, cancelled, search, effect, changes>>
-----------------------------------------------------------------------------
(* write and edit.                                                         *)

\* read_limited: the whole file, or none of it.
Limited(f) == IF disk[f] = Missing \/ Len(disk[f]) > EditCap THEN Missing ELSE disk[f]

\* The preflight of a guarded write.
CheckExpected ==
  /\ pc = "check"
  /\ text' = Limited(call.path)
  /\ IF text' \in call.guard
     THEN IF cancelled THEN Return(Silent) ELSE pc' = "write" /\ UNCHANGED result
     ELSE Return(Error("tool_write_conflict"))
  /\ UNCHANGED <<disk, call, cancelled, todo, line, found, truncated, searched, passed, effect,
                 changes>>

\* fs::write replaces the content.  A write that fails may have truncated the
\* file first.
WriteContent(content) ==
  \/ /\ disk' = [disk EXCEPT ![call.path] = content] /\ effect' = TRUE
     /\ Return(Complete(<<Len(content)>>, FALSE))
  \/ Return(Error("tool_write_failed")) /\ UNCHANGED <<disk, effect>>
  \/ /\ disk' = [disk EXCEPT ![call.path] = <<>>] /\ effect' = TRUE
     /\ Return(Error("tool_write_failed"))

WriteFile ==
  /\ pc = "write"
  /\ WriteContent(call.new)
  /\ UNCHANGED <<call, cancelled, search, changes>>

\* Plausible bug: the expected content of an edit is not compared.
EditChecksFault(content) ==
  << [fails |-> content = Missing \/ ~Utf8(content), code |-> "tool_read_failed"],
     [fails |-> ~Contains(content, "hit"), code |-> "edit_target_missing"] >>

\* The checks of an edit, in their order.
EditChecks(content) ==
  << [fails |-> content = Missing, code |-> "tool_read_failed"],
     [fails |-> Len(content) > EditCap, code |-> "tool_edit_target_too_large"],
     [fails |-> ~Utf8(content), code |-> "tool_read_failed"],
     [fails |-> ~Contains(content, "hit"), code |-> "edit_target_missing"],
     [fails |-> call.guard # {} /\ content \notin call.guard, code |-> "tool_edit_conflict"] >>

\* The target is read and checked; a stop comes after the checks.
ReadTarget ==
  LET checks == EditChecks(disk[call.path])
      Failed == {i \in DOMAIN checks : checks[i].fails}
  IN /\ pc = "target"
     /\ text' = disk[call.path]
     /\ IF Failed # {} THEN Return(Error(checks[Min(Failed)].code))
        ELSE IF cancelled THEN Return(Silent) ELSE pc' = "replace" /\ UNCHANGED result
     /\ UNCHANGED <<disk, call, cancelled, todo, line, found, truncated, searched, passed,
                    effect, changes>>

\* The first occurrence in the text that was read is replaced.
ReplaceOnce ==
  LET at == CHOOSE i \in DOMAIN text : text[i] = "hit" /\ \A j \in 1 .. i - 1 : text[j] # "hit"
  IN /\ pc = "replace"
     /\ WriteContent(SubSeq(text, 1, at - 1) \o call.new \o SubSeq(text, at + 1, Len(text)))
     /\ UNCHANGED <<call, cancelled, search, changes>>

-----------------------------------------------------------------------------
(* glob.                                                                   *)

Present == {f \in Files : disk[f] # Missing}

\* The traversal starts: it yields the entries in any order.
Traverse ==
  /\ pc = "glob"
  /\ todo' \in SetToSeqs(Present)
  /\ pc' = "list"
  /\ UNCHANGED <<disk, call, cancelled, text, line, found, truncated, searched, passed, result,
                 effect, changes>>

\* An entry that cannot be read, or whose name cannot be reported, skips itself.
ListEntry ==
  /\ pc = "list" /\ ~cancelled /\ todo # <<>>
  /\ found' \in {found, Append(found, Head(todo))} /\ todo' = Tail(todo)
  /\ UNCHANGED <<disk, call, pc, cancelled, text, line, truncated, searched, passed, result,
                 effect, changes>>

\* window_paths: the head of the sorted list that fits.
WindowPaths(paths) == SubSeq(SortSeq(paths, <), 1, Min2(Window, Len(paths)))

GlobEnds ==
  /\ pc = "list" /\ (cancelled \/ todo = <<>>)
  /\ Return(IF cancelled THEN Stop(WindowPaths(found), TRUE)
            ELSE Complete(WindowPaths(found), Len(found) > Window))
  /\ UNCHANGED <<disk, call, cancelled, search, effect, changes>>

-----------------------------------------------------------------------------
(* grep.                                                                   *)

\* The walk collects the files of the scope, in path order; a scope that is not there
\* fails the search, and a directory or an entry below it that cannot be read is
\* passed over in silence.
WalkScope ==
  /\ pc = "walk"
  /\ \/ /\ Return(Error("tool_search_failed"))
        /\ UNCHANGED todo
     \/ /\ cancelled /\ Return(Stop(<<>>, TRUE))
        /\ UNCHANGED todo
     \/ /\ ~cancelled /\ pc' = "next" /\ UNCHANGED result
        /\ \E unread \in SUBSET Present :
             todo' = Within([f \in Files |-> f], Present \ unread)
  /\ UNCHANGED <<disk, call, cancelled, text, line, found, truncated, searched, passed, effect,
                 changes>>

\* Plausible bug: the tail of a file over the cap is dropped in silence.
OpenFault(f) ==
  /\ text' = Bounded(disk[f]) /\ line' = 0
  /\ truncated' = (truncated \/ ~Utf8(text'))
  /\ searched' = Append(searched, [file |-> f, content |-> disk[f]])
  /\ pc' = "scan"
  /\ UNCHANGED <<passed, result>>

\* The bounded read of one file; the mark says that its tail was dropped or
\* that it was rewritten.
OpenForScan(f) ==
  /\ text' = Bounded(disk[f]) /\ line' = 0
  /\ truncated' = (truncated \/ Dropped(disk[f]) \/ ~Utf8(text'))
  /\ searched' = Append(searched, [file |-> f, content |-> disk[f]])
  /\ pc' = "scan"
  /\ UNCHANGED <<passed, result>>

GrepFile ==
  /\ pc = "grep_file"
  /\ IF disk[call.path] = Missing
     THEN /\ Return(Error("tool_search_failed"))
          /\ UNCHANGED <<text, line, truncated, searched, passed>>
     ELSE OpenForScan(call.path)
  /\ UNCHANGED <<disk, call, cancelled, todo, found, effect, changes>>

\* A file that was read and marked, and that no match can name, is left.
PassOver(f) ==
  /\ truncated' = (truncated \/ Dropped(disk[f]) \/ ~Utf8(Bounded(disk[f])))
  /\ passed' = Append(passed, [file |-> f, content |-> disk[f]])
  /\ UNCHANGED <<text, line, searched, pc, result>>

\* The next file of the scope; one that has gone, or cannot be read, fails the search.
NextFile ==
  /\ pc = "next" /\ todo # <<>>
  /\ todo' = Tail(todo)
  /\ \/ /\ Return(IF cancelled THEN Stop(found, TRUE) ELSE Error("tool_search_failed"))
        /\ UNCHANGED <<text, line, truncated, searched, passed>>
     \/ /\ ~cancelled /\ disk[Head(todo)] # Missing
        /\ OpenForScan(Head(todo)) \/ PassOver(Head(todo))
  /\ UNCHANGED <<disk, call, cancelled, found, effect, changes>>

Match == <<Last(searched).file, line + 1>>

\* Plausible bug: the cut of the window is not marked.
RecordFault ==
  /\ IF Len(found) < Window THEN found' = Append(found, Match) ELSE UNCHANGED found
  /\ UNCHANGED <<truncated, result, pc>>

\* record_grep_match: a match that does not fit ends the search, marked.
RecordMatch ==
  IF Len(found) < Window
  THEN found' = Append(found, Match) /\ UNCHANGED <<truncated, result, pc>>
  ELSE /\ truncated' = TRUE
       /\ IF call.tool = "grep_scope" THEN Return(Complete(found, TRUE))
          ELSE pc' = "grep_end" /\ UNCHANGED result
       /\ UNCHANGED found

ScanLine ==
  /\ pc = "scan" /\ line < Len(text)
  /\ line' = line + 1
  /\ IF cancelled THEN Return(Stop(found, TRUE)) /\ UNCHANGED <<found, truncated>>
     ELSE IF text[line + 1] = "hit" THEN RecordMatch
     ELSE UNCHANGED <<found, truncated, result, pc>>
  /\ UNCHANGED <<disk, call, cancelled, text, todo, searched, passed, effect, changes>>

FileScanned ==
  /\ pc = "scan" /\ line = Len(text)
  /\ pc' = IF call.tool = "grep_scope" THEN "next" ELSE "grep_end"
  /\ UNCHANGED <<disk, call, cancelled, search, result, effect, changes>>

GrepEnds ==
  /\ pc = "grep_end" \/ (pc = "next" /\ todo = <<>>)
  /\ Return(IF cancelled THEN Stop(found, TRUE) ELSE Complete(found, truncated))
  /\ UNCHANGED <<disk, call, cancelled, search, effect, changes>>

Next ==
  \/ Cancel \/ ChangeFile \/ Dispatch
  \/ ReadFile \/ ReadEnds
  \/ CheckExpected \/ WriteFile \/ ReadTarget \/ ReplaceOnce
  \/ Traverse \/ ListEntry \/ GlobEnds
  \/ WalkScope \/ GrepFile \/ NextFile \/ ScanLine \/ FileScanned \/ GrepEnds

Spec == Init /\ [][Next]_vars

-----------------------------------------------------------------------------
\* The matches of some contents, and those of the files that were searched: in
\* what the cap lets a search see of them, and in full.
MatchesOf(f, content) ==
  Within([i \in DOMAIN content |-> <<f, i>>],
         {<<f, i>> : i \in {j \in DOMAIN content : content[j] = "hit"}})
Visible == FlattenSeq([i \in DOMAIN searched |->
                         MatchesOf(searched[i].file, Bounded(searched[i].content))])
AllMatches == FlattenSeq([i \in DOMAIN searched |->
                            MatchesOf(searched[i].file, searched[i].content)])

\* The call is at one of its steps, its result is of a known kind, the scan
\* stays inside the text, and what a search found are places.
TypeOK ==
  /\ disk \in [Files -> Contents \cup {Missing}] /\ call \in Calls
  /\ result.kind \in {"none", "completed", "stopped", "error"}
  /\ (result = NoResult) = (pc # "returned")
  /\ line <= Len(text) + 1
  /\ call.tool \in {"grep_file", "grep_scope"} => found \in Seq(Files \X Nat)

\* A file was cut, or what is not UTF-8 in it rewritten.
Altered(files) ==
  \E i \in DOMAIN files : ~Utf8(files[i].content) \/ Dropped(files[i].content)

\* A search result tells the truth about the files it read and can name, wherever
\* the stop, the cap of a file, the window of the list and the changes of others
\* fall: the matches listed are the first ones the search could see, in order, and
\* a result without the mark lists every match of each.  Only a cap, a rewriting or
\* the window sets the mark of a completed search: what the walk could not read,
\* and a file no match can name, do not (grep_scoped).
SearchIsHonest ==
  call.tool \in {"grep_file", "grep_scope"} /\ result.kind \in {"completed", "stopped"} =>
    /\ IsPrefix(result.list, Visible)
    /\ ~result.truncated => result.list = AllMatches
    /\ result.kind = "completed" /\ result.truncated =>
         result.list # AllMatches \/ Altered(searched) \/ Altered(passed)

\* A write or an edit that is stopped or refused leaves the file as it was, and
\* a guarded one that changed it had read exactly the expected text: the stop
\* may come after the preflight, and never between the effect and its result.
RefusedCallsChangeNothing ==
  /\ effect /\ result # NoResult =>
       result.kind = "completed" \/ result = Error("tool_write_failed")
  /\ effect /\ call.guard # {} => text \in call.guard

=============================================================================
