------------------------------ MODULE MCCatalog ------------------------------
(* Instances of Catalog for TLC.                                           *)
EXTENDS Catalog, TLC

\* Two windows may both be adding a revision; one number is left of the rest.
MCNumberMax == [c \in Class |-> IF c = "CL_COMP_REV" THEN 4 ELSE 3]

\* The windows do not differ.
MCSymmetry == Permutations(Window)
===============================================================================
