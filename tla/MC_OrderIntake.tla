--------------------------- MODULE MC_OrderIntake ---------------------------
(* Small instances of OrderIntake: all orders fit together but two of q. *)
EXTENDS OrderIntake, TLC

CONSTANTS p, q

MCMl == [x \in Payload |-> IF x = p THEN 1 ELSE 2]
MCCapacity == 3

\* Safety runs only: requests are interchangeable until they are used.
Requests == Permutations(Call)
=============================================================================
