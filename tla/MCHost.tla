------------------------------- MODULE MCHost -------------------------------
(* Two deployments, which may overlap, on a host whose server works on one  *)
(* request at a time.                                                      *)
EXTENDS Host

CONSTANTS h1, d1, d2

OneHandler     == {h1}
TwoDeployments == {d1, d2}
=============================================================================
