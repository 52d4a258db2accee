----------------------------- MODULE MCSshPool -----------------------------
(* Small instances of SshPool for TLC. *)
EXTENDS SshPool, TLC

CONSTANTS
    t1, t2, t3, k1, k2, k3, k4, k5, k6, k7, l1, l2, l3

TwoTasks == {t1, t2}
ThreeTasks == {t1, t2, t3}

\* Enough identities for one to be free whenever one is created: every task may
\* reference two connections and one mutex, and the map holds one of each.
FiveConns == {k1, k2, k3, k4, k5}
SevenConns == FiveConns \cup {k6, k7}
TwoLocks == {l1, l2}
ThreeLocks == {l1, l2, l3}

\* Only tasks: fresh connections and mutexes are chosen by CHOOSE.
MCSymmetry == Permutations(Tasks)
=============================================================================
