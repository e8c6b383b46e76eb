---------------------------- MODULE MCLifecycle ----------------------------
(* Instances of Lifecycle for TLC.                                         *)
EXTENDS Lifecycle

CONSTANTS w1, u1, u2

\* The first user is at w1, the second one at the other windows.
MCUserOf == [w \in Window |-> IF w = w1 THEN u1 ELSE u2]

\* Only the QA manager changes.
MCOfficers == {[qa_mgr |-> u, comp_super |-> u1, market_mgr |-> u1] : u \in User}
=============================================================================
