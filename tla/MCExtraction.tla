---------------------------- MODULE MCExtraction ----------------------------
(* Model values of the extraction runs are interchangeable. *)
EXTENDS Extraction, TLC

ExtractionSymmetry == Permutations(Jobs) \cup Permutations(Workers) \cup Permutations(Reviewers)
=============================================================================
