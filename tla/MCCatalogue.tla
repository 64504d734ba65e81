----------------------------- MODULE MCCatalogue -----------------------------
(***************************************************************************)
(* Constants for model-checking the catalogue: one file of two rows for the same product.    *)
(***************************************************************************)
EXTENDS Catalogue, TLC

CONSTANTS s1, n1, n2, t1

SmallSheets == {<<[slug |-> s1, brand |-> n1], [slug |-> s1, brand |-> None]>>}

CatalogueSymmetry == Permutations(Editors)
=============================================================================
