------------------------------- MODULE MCShop -------------------------------
(***************************************************************************)
(* Constants for model-checking the shop.                                   *)
(***************************************************************************)
EXTENDS Shop, TLC

ShopSymmetry == Permutations(Tabs)
=============================================================================
