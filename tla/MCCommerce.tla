----------------------------- MODULE MCCommerce -----------------------------
(* Constants for model-checking Commerce. *)
EXTENDS Commerce, TLC

TwoShelves == [l \in Locations |-> IF l = CHOOSE m \in Locations : TRUE THEN 2 ELSE 1]
OneEach == [l \in Locations |-> 1]
FourEach == [l \in Locations |-> 4]
NoStock == [l \in Locations |-> 0]

UpAndDown == {-1, 1}
DownOne == {-1}

CaptureSymmetry == Permutations(Orders) \cup Permutations(Carts)
=============================================================================
