-------------------------- MODULE MCCaseIntegrity --------------------------
(***************************************************************************)
(* An instance of CaseIntegrity for TLC.                                   *)
(***************************************************************************)
EXTENDS CaseIntegrity

CONSTANTS v1, j1   \* a verification and a run of the job, as model values

\* The matter was opened.
MCOpening == [NoHistory EXCEPT !.audit = <<Event(<<>>, 1)>>]
=============================================================================
