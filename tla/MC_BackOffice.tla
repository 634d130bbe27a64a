--------------------------- MODULE MC_BackOffice ---------------------------
(* Instances of BackOffice for TLC. *)
EXTENDS BackOffice, TLC

CONSTANTS o1, v1, u1, u2, x, y

\* Two members of staff, tabs or customers, x and y, are alike wherever they
\* appear; not so the members of the staff list, one of whom starts it.
OfficeSymmetry == Permutations({x, y})
=============================================================================
