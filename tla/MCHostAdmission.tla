--------------------------- MODULE MCHostAdmission ---------------------------
(* TLC instance of HostAdmission.                                           *)
EXTENDS HostAdmission
=============================================================================
