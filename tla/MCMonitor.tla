----------------------------- MODULE MCMonitor ------------------------------
(* An instance of MonitorHub for TLC: one sender calls twice.              *)
EXTENDS MonitorHub, TLC

CONSTANTS s1, s2

Twice == (s1 :> 2) @@ (s2 :> 1)

=============================================================================
