-------------------------------- MODULE Lease --------------------------------
(***************************************************************************)
(* What the table request_locks promises, without its rows, its clock and  *)
(* its statements: each resource is leased to one client at most, a lease  *)
(* may expire at any time, an expired one stays until it is collected, and *)
(* its client may renew it even then.                                      *)
(***************************************************************************)
CONSTANTS Resource, Client

VARIABLES
  holders,  \* the clients each resource is leased to
  expired   \* the resources whose lease ran out

vars == <<holders, expired>>

Free(r) == holders[r] = {}

Init ==
  /\ holders = [r \in Resource |-> {}]
  /\ expired = {}

Acquire(r, c) ==
  /\ Free(r)
  /\ holders' = [holders EXCEPT ![r] = {c}]
  /\ UNCHANGED expired

Renew(r, c) ==
  /\ c \in holders[r]
  /\ expired' = expired \ {r}
  /\ UNCHANGED holders

Return(r, c) ==
  /\ c \in holders[r]
  /\ holders' = [holders EXCEPT ![r] = {}]
  /\ expired' = expired \ {r}

\* Time passes: some leases expire.
Expire ==
  /\ \E late \in SUBSET {r \in Resource : ~ Free(r)} : expired' = expired \cup late
  /\ UNCHANGED holders

\* What expired is collected, all of it.
Collect ==
  /\ holders' = [r \in Resource |-> IF r \in expired THEN {} ELSE holders[r]]
  /\ expired' = {}

\* Every lease is withdrawn.
Reset ==
  /\ holders' = [r \in Resource |-> {}]
  /\ expired' = {}

Next ==
  \/ \E r \in Resource, c \in Client : Acquire(r, c) \/ Renew(r, c) \/ Return(r, c)
  \/ Expire
  \/ Collect
  \/ Reset

Spec == Init /\ [][Next]_vars
==============================================================================
