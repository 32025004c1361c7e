------------------------------- MODULE MCDashboard -------------------------------
(* One node and one request of each kind, in the middle of which two polls *)
(* are read and answered again and again.                                  *)
EXTENDS Dashboard

MCNodes == <<"node-0">>
================================================================================
