----------------------------- MODULE MCBigCache -----------------------------
(* Constants for the runs of BigCache. *)
EXTENDS BigCache

(* Groups of two from four shards on, instead of four from sixteen on.     *)
MCPeriod == [s \in Supervisors |-> 1]
=============================================================================
