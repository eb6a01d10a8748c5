--------------------------- MODULE MCRefitControl ---------------------------
(* Small instances of RefitControl for TLC.                                *)
EXTENDS RefitControl, TLC

CONSTANTS t1, t2, g1, g2,    \* two trainers and two generators
          e1, e2, s1, s2, m1, v1, v2, k1, k2, st1, st2, c1, c2, llm, id1

Trainer == [role |-> "TRAINER", model |-> llm, endpoint |-> e1]
Rebound == [Trainer EXCEPT !.endpoint = e2]
Generator == [role |-> "GENERATOR", model |-> llm, endpoint |-> None]

At(s, e) == [shard |-> s, endpoint |-> e]
Members(a, b) == [w \in Worker |-> CASE w = t1 -> a [] w = t2 -> b [] OTHER -> None]

MeshVersion(k) == [key |-> k, model |-> llm, mesh |-> m1, s3 |-> FALSE,
                   base |-> None, state |-> "STAGING"]
StorageVersion(k, b) == [MeshVersion(k) EXCEPT !.mesh = None, !.s3 = TRUE, !.base = b]

\* t2 at its second endpoint only.
ReplicaFleet == [w \in Worker |-> CASE w = t1 -> {Trainer} [] w = t2 -> {Rebound}
                                    [] OTHER -> {Generator}]

\* All lease ids of one version collide.
CollidingLeaseIds == [x \in Version \X Worker |-> id1]

\* One logical shard: two replicas of it, or t2 alone.
ReplicaMemberships == {Members(At(s1, e1), At(s1, e2)), Members(None, At(s1, e2))}
\* A mesh-backed version, and a delta against it in object storage.
ReplicaRequests == {MeshVersion(k1)} \cup {StorageVersion(k2, b) : b \in {v1, v2}}
ReplicaSymmetry == Permutations({v1, v2}) \cup Permutations({st1, st2})
=============================================================================
