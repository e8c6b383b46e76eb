----------------------------- MODULE MCCheckout -----------------------------
(* Instances of Checkout for TLC.                                          *)
EXTENDS Checkout, TLC

CONSTANTS w3, u1, u2

\* Two users; w3 is the second one's, the other windows are the first one's.
MCUserOf == [w \in Window |-> IF w = w3 THEN u2 ELSE u1]

\* The windows of the first user are alike, and so are the contents.
MCSymmetry == Permutations(Window \ {w3}) \cup Permutations(Content)
==============================================================================
