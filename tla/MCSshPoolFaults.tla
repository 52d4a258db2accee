-------------------------- MODULE MCSshPoolFaults --------------------------
(* SshPool with a bound on what goes wrong, for the run of three tasks. *)
EXTENDS MCSshPool

CONSTANT MaxFaults  \* bound: faults in a behaviour

VARIABLE faults  \* connections that broke, idled or refused a channel so far

Fault ==
    \/ \E c \in Conns : Expire(c) \/ Break(c)
    \/ \E t \in Tasks : conn[t] \in alive /\ OpenFails(t)

BoundedNext ==
    /\ Next
    /\ faults' = IF Fault THEN faults + 1 ELSE faults
    /\ faults' <= MaxFaults

BoundedSpec == Init /\ faults = 0 /\ [][BoundedNext]_<<vars, faults>>
=============================================================================
