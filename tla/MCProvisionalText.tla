-------------------------- MODULE MCProvisionalText --------------------------
(* TLC instance of ProvisionalText.                                         *)
EXTENDS ProvisionalText
=============================================================================
