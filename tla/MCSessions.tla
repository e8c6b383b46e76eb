----------------------------- MODULE MCSessions -----------------------------
(* An instance of Sessions for TLC.                                        *)
EXTENDS Sessions, TLC

\* No user and no window is unlike the others.
Symmetry == Permutations(User) \cup Permutations(Window)
==============================================================================
