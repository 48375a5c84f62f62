--------------------------- MODULE MCSessionStream ---------------------------
(* TLC instance of SessionStream.                                           *)
EXTENDS SessionStream

\* Either the client connects again, or a second run publishes and no read is
\* refused: all of them at once are too many states.
OneOfEach == status[MaxRuns] # "none" => current <= 1 /\ faults = 0
=============================================================================
