------------------------------ MODULE MCSizeDedup ------------------------------
(* Three shares: all of one size, or of three, one of them too small. *)
EXTENDS SizeDedup

MCShares  == {"a", "b", "c"}
MCSizings == { [s \in MCShares |-> 2],
               [s \in MCShares |-> CASE s = "a" -> 2 [] s = "b" -> 3 [] s = "c" -> 1] }
=============================================================================
