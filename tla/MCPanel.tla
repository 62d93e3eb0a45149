------------------------------ MODULE MCPanel -------------------------------
(* One player, two maps, and a share of the pool of which 2 passes alone but *)
(* not together with the others.                                            *)
EXTENDS Panel

MCFields == {"share"}
MCSettings == [map : {1, 2}, numbers : [MCFields -> {0, 1}]]
MCDefault == [map |-> 1, numbers |-> [f \in MCFields |-> 0]]

=============================================================================
