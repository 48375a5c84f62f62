---------------------------- MODULE ProviderStream ----------------------------
(***************************************************************************)
(* One response of a model provider: the two adapters of                   *)
(* crates/intention-providers/src (generic_chat.rs, openrouter.rs) and the *)
(* queue of stream.rs they write to, read by drive_provider_round of       *)
(* crates/intention-engine/src/runtime.rs under the order check of         *)
(* ModelStreamLifecycleDto.                                                *)
(*                                                                         *)
(* The SDK streams are external: any sequence of chunks may come.  A text  *)
(* is its presence.  The n-th item is numbered n, and a fragment of tool   *)
(* arguments is the number of the item that carried it.                    *)
(***************************************************************************)
EXTENDS Naturals, Sequences, FiniteSets, Selections

CONSTANTS
  Ids,      \* the call identities a provider may send
  Absent,   \* a field a chunk leaves out
  MaxItems  \* bound: items of one response

ProviderStreamAssumption == Absent \notin Ids /\ MaxItems \in Nat

Indexes == {1, 2}
Fragments == [index : Indexes, id : Ids \cup {Absent}]
Texts == {{}, {"presence"}, {"reasoning"}, {"text"}, {"reasoning", "text"}}
Reports == {"absent", "valid", "invalid"}

\* WireChunk: what one chunk of the generic stream carries.
Chunks ==
  [kind : {"chunk"}, usage : Reports, finish : BOOLEAN, delta : Texts, calls : {{}}]
  \cup [kind : {"chunk"}, usage : {"absent"}, finish : BOOLEAN, delta : {{}},
        calls : {{f} : f \in Fragments}]
\* StreamEvent of the OpenRouter SDK; it assembles the calls itself.
StreamEvents ==
  [kind : {"text", "reasoning"}, blank : BOOLEAN] \cup [kind : {"details", "unsupported"}]
  \cup [kind : {"done"}, calls : {<<>>, <<"call">>, <<"bad">>}, usage : Reports]
NativeError == [kind |-> "error"]

VARIABLES
  adapter,    \* the driver the configuration selects
  native,     \* the items received so far
  pending,    \* the queue of normalized events
  terminal,   \* a terminal fact has been queued
  fragments,  \* the calls being assembled: identity and arguments
  reason,     \* a finish reason has been recorded
  reported,   \* usage_reported
  presence,   \* reasoning_presence_reported
  lifecycle,  \* ModelStreamLifecycleDto of the round
  delivered,  \* the events the round has read
  outcome     \* how the round ended

translator == <<fragments, reason, reported, presence>>
vars == <<adapter, native, pending, terminal, translator, lifecycle, delivered, outcome>>

Event(kind) == [kind |-> kind]
Call(index, arguments) == [kind |-> "call", index |-> index, arguments |-> arguments]
Started == Event("started")
Usage(n) == [kind |-> "usage", item |-> n]
NoFragments == [i \in Indexes |-> [seen |-> FALSE, id |-> Absent, arguments |-> <<>>]]

Init ==
  /\ adapter \in {"generic", "openrouter"}
  /\ native = <<>> /\ pending = <<Started>> /\ terminal = FALSE
  /\ fragments = NoFragments /\ reason = FALSE /\ reported = FALSE /\ presence = FALSE
  /\ lifecycle = [started |-> FALSE, terminal |-> FALSE, usage |-> FALSE]
  /\ delivered = <<>> /\ outcome = "none"

\* NormalizedEvents: what follows the first terminal event is dropped.
IsTerminal(e) == e.kind \in {"finished", "failed"}
UpToTerminal(events) ==
  LET Ends == {i \in DOMAIN events : IsTerminal(events[i])}
  IN IF Ends = {} THEN events
     ELSE SubSeq(events, 1, CHOOSE i \in Ends : \A j \in Ends : i <= j)
Queue(events) ==
  /\ pending' = pending \o UpToTerminal(events)
  /\ terminal' = \E i \in DOMAIN events : IsTerminal(events[i])

\* The stream is polled for its next item only when its queue is empty.
Polled == outcome = "none" /\ pending = <<>> /\ ~terminal
If(condition, events) == IF condition THEN events ELSE <<>>
Fail == <<Event("failed")>>

-----------------------------------------------------------------------------
(* The generic adapter.                                                    *)

Fragment(chunk) == chunk.calls
Content(chunk) == chunk.delta \cap {"reasoning", "text"} # {} \/ Fragment(chunk) # {}

\* merge_constant: a fragment may repeat the identity, not change it.
Conflicts(chunk) ==
  \E f \in Fragment(chunk) :
    f.id # Absent /\ fragments[f.index].id \notin {Absent, f.id}

\* Plausible bug: every usage summary is passed on.
ReportedUsageFault(chunk, n) ==
  CASE chunk.usage = "absent" -> <<>>
    [] chunk.usage = "valid" -> <<Usage(n)>>
    [] OTHER -> Fail

\* The first usage summary counts; one whose total is wrong is terminal.
ReportedUsage(chunk, n) ==
  CASE chunk.usage = "absent" \/ reported -> <<>>
    [] chunk.usage = "valid" /\ ~reported -> <<Usage(n)>>
    [] OTHER -> Fail

\* accept_delta, the reasoning before the answer it informs.
DeltaEvents(chunk) ==
  If("presence" \in chunk.delta /\ ~presence, <<Event("presence")>>)
  \o If("reasoning" \in chunk.delta, <<Event("reasoning")>>)
  \o If("text" \in chunk.delta, <<Event("text")>>)
  \o If(Conflicts(chunk), Fail)

\* Plausible bug: the fragments of every call are joined in one.
MergeFault(chunk, n) ==
  fragments' = [i \in Indexes |->
    IF Fragment(chunk) # {}
    THEN [seen |-> TRUE, id |-> "i", arguments |-> Append(fragments[i].arguments, n)]
    ELSE fragments[i]]

Merge(chunk, n) ==
  fragments' = [i \in Indexes |->
    IF \E f \in Fragment(chunk) : f.index = i
    THEN LET f == CHOOSE f \in Fragment(chunk) : TRUE
         IN [seen |-> TRUE,
             id |-> IF f.id = Absent THEN fragments[i].id ELSE f.id,
             arguments |-> Append(fragments[i].arguments, n)]
    ELSE fragments[i]]

\* A chunk before the finish reason.
AcceptChunk(chunk) ==
  LET n == Len(native) + 1
  IN /\ Polled /\ adapter = "generic" /\ ~reason
     /\ native' = Append(native, chunk)
     /\ Queue(ReportedUsage(chunk, n) \o DeltaEvents(chunk))
     /\ Merge(chunk, n)
     /\ reason' = chunk.finish
     /\ reported' = (reported \/ chunk.usage = "valid")
     /\ presence' = (presence \/ "presence" \in chunk.delta)
     /\ UNCHANGED <<adapter, lifecycle, delivered, outcome>>

\* After it, only the usage summary may come.
AcceptTrailer(chunk) ==
  /\ Polled /\ adapter = "generic" /\ reason
  /\ native' = Append(native, chunk)
  /\ Queue(IF chunk.finish \/ Content(chunk) THEN Fail ELSE ReportedUsage(chunk, Len(native) + 1))
  /\ reported' = (reported \/ chunk.usage = "valid")
  /\ UNCHANGED <<adapter, fragments, reason, presence, lifecycle, delivered, outcome>>

Assembled == Within(<<1, 2>>, {i \in Indexes : fragments[i].seen})

\* The native stream ends: with a finish reason the calls are complete or the
\* response is malformed; without one it is incomplete.
GenericEnds ==
  /\ Polled /\ adapter = "generic"
  /\ Queue(IF reason /\ \A k \in DOMAIN Assembled : fragments[Assembled[k]].id # Absent
           THEN [k \in DOMAIN Assembled |-> Call(Assembled[k], fragments[Assembled[k]].arguments)]
                \o <<Event("finished")>>
           ELSE Fail)
  /\ reason' = FALSE /\ fragments' = NoFragments
  /\ UNCHANGED <<adapter, native, reported, presence, lifecycle, delivered, outcome>>

-----------------------------------------------------------------------------
(* The OpenRouter adapter.                                                 *)

DoneEvents(e, n) ==
  IF e.calls = <<"bad">> THEN Fail
  ELSE [k \in DOMAIN e.calls |-> Call(k, <<n>>)]
       \o If(e.usage = "valid", <<Usage(n)>>) \o If(e.usage = "invalid", Fail)
       \o <<Event("finished")>>

\* Plausible bug: an unsupported event is skipped.
TranslateFault(e, n) ==
  CASE e.kind \in {"text", "reasoning"} -> IF e.blank THEN Fail ELSE <<Event(e.kind)>>
    [] e.kind = "done" -> SubSeq(DoneEvents(e, n), 1, Len(DoneEvents(e, n)) - 1)
    [] OTHER -> <<>>

Translate(e, n) ==
  CASE e.kind \in {"text", "reasoning"} -> IF e.blank THEN Fail ELSE <<Event(e.kind)>>
    [] e.kind = "details" -> <<>>
    [] e.kind = "done" -> DoneEvents(e, n)
    [] e.kind = "unsupported" -> Fail

AcceptStreamEvent(e) ==
  /\ Polled /\ adapter = "openrouter"
  /\ native' = Append(native, e)
  /\ Queue(Translate(e, Len(native) + 1))
  /\ UNCHANGED <<adapter, translator, lifecycle, delivered, outcome>>

OpenRouterEnds ==
  /\ Polled /\ adapter = "openrouter"
  /\ Queue(Fail)
  /\ UNCHANGED <<adapter, native, translator, lifecycle, delivered, outcome>>

\* A native error of either adapter.
StreamFails ==
  /\ Polled /\ native' = Append(native, NativeError)
  /\ Queue(Fail)
  /\ UNCHANGED <<adapter, translator, lifecycle, delivered, outcome>>

-----------------------------------------------------------------------------
(* The round.                                                              *)

\* ModelStreamLifecycleDto::accept.
Accepts(e) ==
  CASE e.kind = "started" -> ~lifecycle.started /\ ~lifecycle.terminal
    [] e.kind = "usage" -> lifecycle.started /\ ~lifecycle.terminal /\ ~lifecycle.usage
    [] OTHER -> lifecycle.started /\ ~lifecycle.terminal

Calls == Within(delivered, {delivered[i] : i \in {j \in DOMAIN delivered : delivered[j].kind = "call"}})
EndedBy(e) ==
  CASE e.kind = "failed" -> "failed"
    [] e.kind # "failed" /\ ~Accepts(e) -> "invalid_order"
    [] e.kind = "finished" /\ Accepts(e) -> IF Calls = <<>> THEN "finished" ELSE "calls"
    [] OTHER -> "none"

DriveRound ==
  /\ outcome = "none" /\ pending # <<>>
  /\ LET e == Head(pending)
     IN /\ outcome' = EndedBy(e)
        /\ delivered' = Append(delivered, e)
        /\ lifecycle' = [started |-> TRUE, terminal |-> e.kind = "finished",
                         usage |-> lifecycle.usage \/ e.kind = "usage"]
  /\ pending' = Tail(pending)
  /\ UNCHANGED <<adapter, native, terminal, translator>>

\* The run is stopped, or the response is silent for too long: the round drops
\* the stream.
DropStream ==
  /\ outcome = "none"
  /\ outcome' = "dropped"
  /\ UNCHANGED <<adapter, native, pending, terminal, translator, lifecycle, delivered>>

Items == Len(native) < MaxItems
Next ==
  \/ Items /\ \E c \in Chunks : AcceptChunk(c) \/ AcceptTrailer(c)
  \/ Items /\ \E e \in StreamEvents : AcceptStreamEvent(e)
  \/ Items /\ StreamFails
  \/ GenericEnds \/ OpenRouterEnds
  \/ DriveRound \/ DropStream

Spec == Init /\ [][Next]_vars
-----------------------------------------------------------------------------
TypeOK ==
  /\ outcome \in {"none", "finished", "calls", "failed", "invalid_order", "dropped"}
  /\ \A i \in DOMAIN native : native[i] \in Chunks \cup StreamEvents \cup {NativeError}
  /\ {reason, reported, presence, terminal} \subseteq BOOLEAN

\* Whatever a provider sends, the order check of the round never refuses what
\* an adapter passes on, and a response the native stream has ended leaves the
\* round with exactly one terminal fact: no second usage or start, nothing
\* behind the end, and no stream that ends with nothing said.
StreamsKeepTheirOrder ==
  /\ outcome # "invalid_order"
  /\ terminal => Cardinality({i \in DOMAIN (delivered \o pending) :
                                IsTerminal((delivered \o pending)[i])}) = 1
  /\ (\E i \in DOMAIN native : native[i].kind = "done") => terminal

\* The arguments the native stream carried for one call, in order.
Carried(i) ==
  Within([n \in DOMAIN native |-> n],
         {n \in DOMAIN native :
            native[n].kind = "chunk" /\ \E f \in Fragment(native[n]) : f.index = i})

\* A generic response that ends well hands over each call once, in the order of
\* their indexes, with all the fragments of its arguments and no other, however
\* the fragments of several calls interleave.
CallsCarryTheirFragments ==
  adapter = "generic" /\ outcome \in {"finished", "calls"} =>
    LET carrying == Within(<<1, 2>>, {i \in Indexes : Carried(i) # <<>>})
    IN  Calls = [k \in DOMAIN carrying |-> Call(carrying[k], Carried(carrying[k]))]
==============================================================================
