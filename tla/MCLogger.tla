------------------------------ MODULE MCLogger ------------------------------
(* The logger on small instances.                                          *)
EXTENDS Logger, TLC

(* Application threads run the same code, and nothing looks into a record; *)
(* used by the runs that check no liveness property.                       *)
Symmetry == Permutations(Clients) \cup Permutations(Record)
=============================================================================
