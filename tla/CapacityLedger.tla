--------------------------- MODULE CapacityLedger ---------------------------
(***************************************************************************)
(* What the shop promises about harvest capacity, whatever table rows the  *)
(* code uses to keep it: every order holds its whole volume in at most one *)
(* place, a place never carries more than its capacity, and only the       *)
(* operation on an order itself may take, move or give back its holding.   *)
(* OrderCapacity is shown to implement this specification.                 *)
(***************************************************************************)
EXTENDS Naturals, FiniteSets

CONSTANTS Holder,   \* the orders
          Place,    \* the availability rows capacity can be reserved on
          Volume,   \* the volumes an order can have, in millilitres
          Nowhere   \* the place of an order that holds nothing

VARIABLES capacity, \* capacity[p]: millilitres place p may carry
          holding   \* holding[h] = [row, ml]: what h holds, and where

Nothing == [row |-> Nowhere, ml |-> 0]

\* One element per millilitre held on place p.
Claims(hold, p) ==
  UNION {{h} \X (1..hold[h].ml) : h \in {x \in Holder : hold[x].row = p}}

HeldMl(hold, p) == Cardinality(Claims(hold, p))

Init ==
  /\ capacity \in [Place -> Nat]
  /\ holding = [h \in Holder |-> Nothing]

\* A new order takes ml on one place; a place nobody has planned may be
\* opened for it.
Reserve(h, p, ml) ==
  /\ holding[h] = Nothing
  /\ capacity' \in [Place -> Nat]
  /\ \A q \in Place : capacity'[q] # capacity[q] => q = p /\ capacity[p] = 0
  /\ holding' = [holding EXCEPT ![h] = [row |-> p, ml |-> ml]]
  /\ HeldMl(holding', p) <= capacity'[p]

\* All of a holding is given back, at once and only once.
Release(h) ==
  /\ holding[h] # Nothing
  /\ holding' = [holding EXCEPT ![h] = Nothing]
  /\ UNCHANGED capacity

\* An order is edited: its whole holding moves, in one step.
Move(h, p, ml) ==
  /\ holding[h] # Nothing
  /\ holding' = [holding EXCEPT ![h] = [row |-> p, ml |-> ml]]
  /\ HeldMl(holding', p) <= capacity[p]
  /\ UNCHANGED capacity

\* Staff plan capacities, never below what is held.
Plan ==
  /\ capacity' \in [Place -> Nat]
  /\ \A p \in Place : HeldMl(holding, p) <= capacity'[p]
  /\ UNCHANGED holding

Next ==
  \/ \E h \in Holder :
       \/ \E p \in Place, ml \in Volume : Reserve(h, p, ml) \/ Move(h, p, ml)
       \/ Release(h)
  \/ Plan

Spec == Init /\ [][Next]_<<capacity, holding>>

\* The point of the ledger: no place is ever overbooked.
NeverOverbooked == \A p \in Place : HeldMl(holding, p) <= capacity[p]
=============================================================================
