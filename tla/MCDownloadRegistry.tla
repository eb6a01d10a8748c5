-------------------------- MODULE MCDownloadRegistry --------------------------
(* Small instances of DownloadRegistry for TLC.                            *)
EXTENDS DownloadRegistry, TLC

CONSTANTS r1, r2, q1, q2, q3, k1, k2

\* q1 and q3 reach the first replica, q2 the second.
Routing == [q \in Request |-> IF q = q2 THEN r2 ELSE r1]

\* Both replicas mount one volume, or each has its own.
SharedCache == [r \in Replica |-> k1]
OwnCaches == [r \in Replica |-> IF r = r1 THEN k1 ELSE k2]
=============================================================================
