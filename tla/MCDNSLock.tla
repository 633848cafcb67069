----------------------------- MODULE MCDNSLock ------------------------------
(* Model-checking instance of DNSLock: two lock objects on one DNS name.   *)
EXTENDS DNSLock

CONSTANTS a, b, idA, idB

MCLocks == {a, b}
MCLockIds == {idA, idB}

\* Two clients competing for the lock with their own ids
MCRivals == [l \in MCLocks |-> IF l = a THEN idA ELSE idB]

\* Two objects of one lock holder (one per cluster) sharing the lock id
MCHandover == [l \in MCLocks |-> idA]

=============================================================================
