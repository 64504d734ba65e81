----------------------------- MODULE MCSessions -----------------------------
(* Browsers, windows and calls are interchangeable: symmetry for larger         *)
(* instances, which then leave CallsSettle out.                                 *)
EXTENDS Sessions, TLC

SessionsSymmetry == Permutations(Browsers) \cup Permutations(Windows) \cup Permutations(Calls)
=============================================================================
