------------------------------- MODULE MCTime -------------------------------
(* Hosts for Time: the first booted at wall time 0; the second booted two  *)
(* units later, so a migration to it sets the system time back, and its    *)
(* TSC counts from another origin.                                         *)
EXTENDS Time

MCHosts == {[boot |-> 0, tsc0 |-> 0], [boot |-> 2, tsc0 |-> 3]}
=============================================================================
