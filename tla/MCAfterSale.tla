---------------------------- MODULE MCAfterSale ----------------------------
(* Buyers, orders, requests and worker slots are interchangeable: symmetry for   *)
(* larger instances, which then leave the temporal properties out.              *)
EXTENDS AfterSale, TLC

AfterSaleSymmetry ==
  Permutations(Customers) \cup Permutations(Sales) \cup Permutations(Shippers)
    \cup Permutations(Mailers) \cup Permutations(Requests) \cup Permutations(Clerks)
=============================================================================
