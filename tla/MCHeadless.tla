----------------------------- MODULE MCHeadless -----------------------------
(* TLC instance of Headless.                                                *)
EXTENDS Headless
=============================================================================
