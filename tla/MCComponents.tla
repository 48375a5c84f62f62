---------------------------- MODULE MCComponents ----------------------------
(***************************************************************************)
(* TLC instance of Components and Exchanges: a behaviour is one of any of  *)
(* their components, and the state space is the disjoint union of theirs.  *)
(***************************************************************************)
EXTENDS Components, Exchanges, TLC

SystemInit == Init \/ ExchangeInit
SystemNext == Next \/ ExchangeNext
SystemSpec == SystemInit /\ [][SystemNext]_vars

CONSTANTS s1, s2

\* A valid configuration, one with each option set, and one per refusal.
Plain ==
  [private |-> TRUE, schema |-> "current", credential |-> "given", kind |-> "generic",
   endpoint |-> "given", model |-> "given", attempts |-> "none", timeout |-> "none",
   window |-> "none", theme |-> "none"]
MCDocuments ==
  {Plain, [Plain EXCEPT !.private = FALSE], [Plain EXCEPT !.endpoint = "none"],
   [Plain EXCEPT !.kind = "openrouter", !.endpoint = "none", !.theme = "dark"],
   [Plain EXCEPT !.window = "zero"], [Plain EXCEPT !.attempts = "three"],
   [Plain EXCEPT !.theme = "blue"], [Plain EXCEPT !.schema = "none"]}

\* A command with an argument of its own, and one whose name ends like it.
MCCommands == <<<<"n">>, <<"t", "n">>>>
MCThemed == {<<"n">>}
MCValues == <<<<"t">>>>
MCThemes == <<"light", "dark">>
MCTitle == (s1 :> <<"a", "b">>) @@ (s2 :> <<"b">>)
MCHere == {s1}
=============================================================================
