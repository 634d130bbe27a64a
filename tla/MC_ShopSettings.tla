-------------------------- MODULE MC_ShopSettings --------------------------
(* Instances of ShopSettings for TLC. *)
EXTENDS ShopSettings, TLC

CONSTANTS cash, card, mobile, light, dark, k1, k2, ann, bob, o1

\* Two members of staff are alike wherever they appear, and so are the themes
\* apart from the default.
StaffSymmetry == Permutations(Designer)
=============================================================================
