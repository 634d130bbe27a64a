-------------------------- MODULE MC_OrderCapacity --------------------------
(* Instances of OrderCapacity for TLC. *)
EXTENDS OrderCapacity, TLC

CONSTANTS o1, o2, o3, p1, p2, k1, k2, s1, s2

OrderSymmetry == Permutations(OrderId)

OneProduct == [k \in Package |-> p1]
=============================================================================
