------------------------------ MODULE MCConsole ------------------------------
(***************************************************************************)
(* Constants for model-checking the console.                                *)
(***************************************************************************)
EXTENDS Console

CONSTANTS r1, r2, r3
TwoRowsAndNew == <<r1, r2, r3>>

\* Polls alone give the extraction page many states.
ClicksPerPage == [p \in PageNames |-> IF p = "extraction" THEN 2 ELSE 3]
=============================================================================
