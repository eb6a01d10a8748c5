-------------------------- MODULE RefitControlProofs --------------------------
(***************************************************************************)
(* Theorems about RefitControl, for every set of workers, meshes,          *)
(* versions, leases and requests and every generation bound: leases and    *)
(* what they protect, then the weight versions, with what their            *)
(* publications, idempotency keys, readiness and shards keep through any   *)
(* interleaving of the scripts.                                            *)
(***************************************************************************)
EXTENDS RefitControl, FiniteSetTheorems, TLAPS

USE NoneAssumption

-----------------------------------------------------------------------------
(* Type correctness                                                        *)

\* The initial keyspace is empty and well typed.
LEMMA InitType == Init => TypeOK
  BY Zenon DEF Init, TypeOK

\* Worker registration and expiry (register_worker.lua) preserve the types.
LEMMA WorkerType == TypeOK /\ WorkerNext => TypeOK'
  BY InputAssumption, SMTT(30) DEF TypeOK, WorkerNext, ExpireWorker, RegisterWorker,
         meshVars, versionVars, leaseVars, Registration

\* The trainer mesh scripts preserve the types.
LEMMA MeshType == TypeOK /\ MeshNext => TypeOK'
<1> SUFFICES ASSUME TypeOK, MeshNext PROVE TypeOK'
  BY Zenon
<1> PICK m \in Mesh :
      \/ DeleteTrainerMesh(m)
      \/ DeleteTrainerMeshInUse(m)
      \/ \E ws \in Memberships :
           \/ UpdateTrainerMesh(m, ws)
           \/ UpdateTrainerMeshLeased(m, ws)
           \/ \E model \in Model, k \in Key : CreateTrainerMesh(m, model, k, ws)
  BY Zenon DEF MeshNext
<1>1. CASE DeleteTrainerMesh(m)
  BY <1>1, Zenon DEF TypeOK, DeleteTrainerMesh, Purge, versionVars
<1>2. CASE DeleteTrainerMeshInUse(m)
  BY <1>2, Zenon DEF TypeOK, DeleteTrainerMeshInUse, Purge, meshVars, versionVars
<1>3. ASSUME NEW ws \in Memberships, UpdateTrainerMesh(m, ws) PROVE TypeOK'
  <2>1. mesh[m] \in MeshRecord
    BY <1>3, Zenon DEF TypeOK, UpdateTrainerMesh, UpdateAdmitted
  <2>2. [model |-> mesh[m].model, shards |-> mesh[m].shards,
         generation |-> mesh[m].generation + 1, workers |-> ws] \in MeshRecord
    BY <2>1, InputAssumption DEF MeshRecord
  <2> QED
    BY <1>3, <2>2, Zenon DEF TypeOK, UpdateTrainerMesh, Purge, versionVars
<1>4. ASSUME NEW ws \in Memberships, UpdateTrainerMeshLeased(m, ws) PROVE TypeOK'
  BY <1>4, Zenon DEF TypeOK, UpdateTrainerMeshLeased, Purge, meshVars, versionVars
<1>5. ASSUME NEW ws \in Memberships, NEW model \in Model, NEW k \in Key,
             CreateTrainerMesh(m, model, k, ws)
      PROVE TypeOK'
  <2>1. [model |-> model, generation |-> 1, shards |-> ShardsOf(ws), workers |-> ws]
          \in MeshRecord
    BY InputAssumption, Zenon DEF MeshRecord, ShardsOf
  <2> QED
    BY <1>5, <2>1, Zenon DEF TypeOK, CreateTrainerMesh, versionVars, leaseVars
<1> QED
  BY <1>1, <1>2, <1>3, <1>4, <1>5, Zenon

\* The weight version scripts preserve the types.
LEMMA VersionType == TypeOK /\ VersionNext => TypeOK'
<1> SUFFICES ASSUME TypeOK, VersionNext PROVE TypeOK'
  BY Zenon
<1>1. ASSUME NEW r \in VersionRequest, CheckDeltaBase(r) PROVE TypeOK'
  BY <1>1, Zenon DEF TypeOK, CheckDeltaBase, meshVars, leaseVars
<1>2. ASSUME NEW r \in VersionRequest, NEW v \in Version, CreateWeightVersion(v, r)
      PROVE TypeOK'
  <2>1. r \in Request
    BY InputAssumption, Zenon
  <2>2. r.mesh # None => mesh[r.mesh].generation \in Nat
    BY <1>2, <2>1, Zenon DEF TypeOK, CreateWeightVersion, MeshRecord, Request
  <2>3. version' \in [Version -> VersionRecord \cup {None}]
    BY <1>2, <2>1, <2>2, Zenon DEF TypeOK, CreateWeightVersion, GenerationStamp, VersionRecord, Request, VersionState
  <2> QED
    BY <1>2, <2>1, <2>3 DEF TypeOK, CreateWeightVersion, Request, leaseVars
<1>3. ASSUME NEW v \in Version, DeleteWeightVersion(v) PROVE TypeOK'
  <2>1. version[v] \in VersionRecord
    BY <1>3, Zenon DEF TypeOK, DeleteWeightVersion
  <2>2. [version[v] EXCEPT !.state = "RELEASING"] \in VersionRecord
    BY <2>1, Zenon DEF VersionRecord, VersionState
  <2>3. version' = [version EXCEPT ![v] = [version[v] EXCEPT !.state = "RELEASING"]]
    BY <1>3, Zenon DEF DeleteWeightVersion
  <2> QED
    BY <1>3, <2>2, <2>3 DEF TypeOK, DeleteWeightVersion, meshVars, leaseVars
<1>4. ASSUME NEW v \in Version, NEW target \in VersionState,
             UpdateWeightVersionState(v, target)
      PROVE TypeOK'
  <2>1. version[v] \in VersionRecord
    BY <1>4, Zenon DEF TypeOK, UpdateWeightVersionState
  <2>2. [version[v] EXCEPT !.state = target] \in VersionRecord
    BY <2>1, Zenon DEF VersionRecord
  <2>3. version' = [version EXCEPT ![v] = [version[v] EXCEPT !.state = target]]
    BY <1>4, Zenon DEF UpdateWeightVersionState
  <2> QED
    BY SMTT(30), <1>4, <2>2, <2>3 DEF TypeOK, UpdateWeightVersionState, meshVars, leaseVars
<1> QED
  BY <1>1, <1>2, <1>3, <1>4, Zenon DEF VersionNext

\* Publishing and deleting shards preserves the types.
LEMMA ShardType == TypeOK /\ ShardNext => TypeOK'
<1> SUFFICES ASSUME TypeOK, ShardNext PROVE TypeOK'
  BY Zenon
<1>1. ASSUME NEW p \in Publication, NEW m \in Mesh, CreateWeightVersionShard(p, m)
      PROVE TypeOK'
  <2>0. p.version \in Version /\ version[p.version] \in VersionRecord
    BY <1>1, Zenon DEF TypeOK, CreateWeightVersionShard, PublicationAdmitted, Publication
  <2>a. [version[p.version] EXCEPT !.state = "READY"] \in VersionRecord
    BY <2>0, Zenon DEF VersionRecord, VersionState
  <2>b. \/ version' = version
        \/ version' = [version EXCEPT ![p.version] =
                                [version[p.version] EXCEPT !.state = "READY"]]
    BY <1>1, Zenon DEF CreateWeightVersionShard
  <2>1. version' \in [Version -> VersionRecord \cup {None}]
    BY <2>0, <2>a, <2>b, ZenonT(40) DEF TypeOK
  <2>2. pins' \subseteq Pin
    BY <1>1 DEF TypeOK, CreateWeightVersionShard, Pin, Publication
  <2> QED
    BY <1>1, <2>1, <2>2, Zenon DEF TypeOK, CreateWeightVersionShard, leaseVars
<1>2. ASSUME NEW p \in shards,
             DeleteWeightVersionShard(p) \/ DeleteWeightVersionShardLeased(p)
      PROVE TypeOK'
  BY <1>2, Zenon DEF TypeOK, DeleteWeightVersionShard, DeleteWeightVersionShardLeased, Purge,
              meshVars, versionVars
<1> QED
  BY <1>1, <1>2, Zenon DEF ShardNext

\* The lease scripts and the lease clock preserve the types.
LEMMA LeaseType == TypeOK /\ LeaseNext => TypeOK'
<1> SUFFICES ASSUME TypeOK, LeaseNext PROVE TypeOK'
  BY Zenon
<1>1. ASSUME NEW v \in Version, NEW w \in Worker, RegisterVersionLease(v, w)
      PROVE TypeOK'
  <2>1. <<v, LeaseIdOf[<<v, w>>]>> \in Version \X LeaseId
    BY LeaseIdAssumption, Zenon
  <2> QED
    BY <1>1, <2>1, Zenon DEF TypeOK, RegisterVersionLease, meshVars, versionVars
<1>2. ASSUME NEW v \in Version, NEW w \in Worker, NEW id \in LeaseId,
             DeleteVersionLease(v, w, id)
      PROVE TypeOK'
  BY <1>2, Zenon DEF TypeOK, DeleteVersionLease, meshVars, versionVars
<1>3. ASSUME NEW l \in Version \X LeaseId, LeaseDeadline(l) \/ LeaseExpire(l)
      PROVE TypeOK'
  BY <1>3, Zenon DEF TypeOK, LeaseDeadline, LeaseExpire, meshVars, versionVars
<1> QED
  BY <1>1, <1>2, <1>3, Zenon DEF LeaseNext

\* Every reachable keyspace is well typed.
THEOREM TypeCorrect == Spec => []TypeOK
<1>1. TypeOK /\ UNCHANGED vars => TypeOK'
  BY Zenon DEF TypeOK, vars
<1>2. TypeOK /\ [Next]_vars => TypeOK'
  BY <1>1, WorkerType, MeshType, VersionType, ShardType, LeaseType, Zenon DEF Next
<1> QED
  BY <1>2, InitType, PTL DEF Spec

-----------------------------------------------------------------------------
(* Leases protect publications                                             *)

\* Each step keeps every unexpired lease in its version's lease index.
LEMMA LeasesIndexedStep == TypeOK /\ LeasesIndexed /\ [Next]_vars => LeasesIndexed'
<1> SUFFICES ASSUME TypeOK, LeasesIndexed, [Next]_vars PROVE LeasesIndexed'
  BY Zenon
<1>1. CASE UNCHANGED vars
  BY <1>1, Zenon DEF LeasesIndexed, vars
<1>2. CASE WorkerNext
  BY <1>2, Zenon DEF WorkerNext, ExpireWorker, RegisterWorker, leaseVars, LeasesIndexed
<1>3. CASE MeshNext
  BY <1>3, ZenonT(40) DEF MeshNext, DeleteTrainerMesh, DeleteTrainerMeshInUse, UpdateTrainerMesh,
              UpdateTrainerMeshLeased, CreateTrainerMesh, Purge, leaseVars, LeasesIndexed
<1>4. CASE VersionNext
  BY <1>4, ZenonT(30) DEF VersionNext, CheckDeltaBase, CreateWeightVersion, DeleteWeightVersion,
              UpdateWeightVersionState, leaseVars, LeasesIndexed
<1>5. CASE ShardNext
  BY <1>5, ZenonT(30) DEF ShardNext, CreateWeightVersionShard, DeleteWeightVersionShard,
              DeleteWeightVersionShardLeased, Purge, leaseVars, LeasesIndexed
<1>6. ASSUME NEW v \in Version, NEW w \in Worker, RegisterVersionLease(v, w)
      PROVE LeasesIndexed'
  BY <1>6, Zenon DEF RegisterVersionLease, LeasesIndexed, TypeOK
<1>7. ASSUME NEW v \in Version, NEW w \in Worker, NEW id \in LeaseId,
             DeleteVersionLease(v, w, id)
      PROVE LeasesIndexed'
  BY <1>7, Zenon DEF DeleteVersionLease, LeasesIndexed, TypeOK
<1>8. ASSUME NEW l \in Version \X LeaseId, LeaseDeadline(l) \/ LeaseExpire(l)
      PROVE LeasesIndexed'
  BY <1>8, Zenon DEF LeaseDeadline, LeaseExpire, LeasesIndexed, TypeOK
<1> QED
  BY <1>1, <1>2, <1>3, <1>4, <1>5, <1>6, <1>7, <1>8, Zenon DEF Next, LeaseNext

\* An unexpired lease is always in the index that the deletion and membership
\* scripts consult.
THEOREM LeasesAlwaysIndexed == Spec => []LeasesIndexed
<1>1. Init => LeasesIndexed
  BY Zenon DEF Init, LeasesIndexed
<1> QED
  BY <1>1, LeasesIndexedStep, TypeCorrect, PTL DEF Spec

\* What the lease scripts find when a version is leased.
LEMMA LeasedIsActive ==
  ASSUME LeasesIndexed, NEW v \in Version, Leased(v)
  PROVE  ActiveLeases(v) # {}
  BY Zenon DEF LeasesIndexed, Leased, ActiveLeases

\* Every step leaves the publications of leased versions as they are.
LEMMA LeaseProtectsStep ==
  ASSUME TypeOK, LeasesIndexed, Next, NEW v \in Version, Leased(v)
  PROVE  PublicationsOf(v) \subseteq shards'
<1>0. ActiveLeases(v) # {}
  BY LeasedIsActive, Zenon
<1>1. CASE WorkerNext
  BY <1>1, Zenon DEF WorkerNext, ExpireWorker, RegisterWorker, PublicationsOf
<1>2. ASSUME NEW m \in Mesh, NEW ws \in Memberships, UpdateTrainerMesh(m, ws)
      PROVE PublicationsOf(v) \subseteq shards'
  <2>1. v \notin meshVersions[m]
    BY <1>0, <1>2, Zenon DEF UpdateTrainerMesh
  <2> QED
    BY <1>2, <2>1, Zenon DEF UpdateTrainerMesh, Retired, PublicationsOf
<1>3. CASE \E m \in Mesh : DeleteTrainerMesh(m) \/ DeleteTrainerMeshInUse(m)
  BY <1>3, Zenon DEF DeleteTrainerMesh, DeleteTrainerMeshInUse, PublicationsOf
<1>4. CASE \E m \in Mesh, ws \in Memberships :
             \/ UpdateTrainerMeshLeased(m, ws)
             \/ \E model \in Model, k \in Key : CreateTrainerMesh(m, model, k, ws)
  BY <1>4, ZenonT(30) DEF UpdateTrainerMeshLeased, CreateTrainerMesh, PublicationsOf
<1>5. CASE VersionNext
  BY <1>5, ZenonT(30) DEF VersionNext, CheckDeltaBase, CreateWeightVersion, DeleteWeightVersion,
              UpdateWeightVersionState, PublicationsOf
<1>6. ASSUME NEW p \in Publication, NEW m \in Mesh, CreateWeightVersionShard(p, m)
      PROVE PublicationsOf(v) \subseteq shards'
  BY <1>6, Zenon DEF CreateWeightVersionShard, PublicationAdmitted, KeyAgrees, PublicationsOf
<1>7. ASSUME NEW p \in shards,
             DeleteWeightVersionShard(p) \/ DeleteWeightVersionShardLeased(p)
      PROVE PublicationsOf(v) \subseteq shards'
  BY <1>0, <1>7, Zenon DEF DeleteWeightVersionShard, DeleteWeightVersionShardLeased, PublicationsOf
<1>8. CASE LeaseNext
  BY <1>8, ZenonT(30) DEF LeaseNext, RegisterVersionLease, DeleteVersionLease, LeaseDeadline,
              LeaseExpire, PublicationsOf
<1> QED
  BY <1>1, <1>2, <1>3, <1>4, <1>5, <1>6, <1>7, <1>8, Zenon DEF Next, MeshNext, ShardNext

\* No step takes a publication away from a version under an unexpired lease.
THEOREM LeaseProtection == Spec => LeaseProtectsPublications
<1>1. TypeOK /\ LeasesIndexed /\ [Next]_vars =>
        [\A v \in Version : Leased(v) => PublicationsOf(v) \subseteq shards']_vars
  BY LeaseProtectsStep, Zenon
<1> QED
  BY <1>1, TypeCorrect, LeasesAlwaysIndexed, PTL DEF Spec, LeaseProtectsPublications

\* Every step leaves the meshes of leased versions as they are.
LEMMA LeaseFreezesStep ==
  ASSUME TypeOK, LeasesIndexed, Next, NEW m \in Mesh, NEW v \in Version,
         Linked(v, m), Leased(v)
  PROVE  mesh'[m] = mesh[m]
<1>0. ActiveLeases(v) # {} /\ v \in meshVersions[m] /\ mesh[m] # None
  BY LeasedIsActive, Zenon DEF Linked
<1>1. CASE WorkerNext
  BY <1>1, Zenon DEF WorkerNext, ExpireWorker, RegisterWorker, meshVars
<1>2. CASE MeshNext
  <2>1. ASSUME NEW n \in Mesh, NEW ws \in Memberships, UpdateTrainerMesh(n, ws)
        PROVE mesh'[m] = mesh[m]
    BY <1>0, <2>1, Zenon DEF UpdateTrainerMesh, TypeOK
  <2>2. ASSUME NEW n \in Mesh, DeleteTrainerMesh(n)
        PROVE mesh'[m] = mesh[m]
    BY <1>0, <2>2, Zenon DEF DeleteTrainerMesh, Retirable, TypeOK
  <2>3. ASSUME NEW n \in Mesh, NEW ws \in Memberships, NEW model \in Model, NEW k \in Key,
               CreateTrainerMesh(n, model, k, ws)
        PROVE mesh'[m] = mesh[m]
    BY <1>0, <2>3, Zenon DEF CreateTrainerMesh, TypeOK
  <2> QED
    BY <1>2, <2>1, <2>2, <2>3, Zenon
       DEF MeshNext, UpdateTrainerMeshLeased, DeleteTrainerMeshInUse, meshVars
<1>3. CASE VersionNext
  BY <1>3, ZenonT(30) DEF VersionNext, CheckDeltaBase, CreateWeightVersion, DeleteWeightVersion,
              UpdateWeightVersionState, meshVars
<1>4. CASE ShardNext
  BY <1>4, ZenonT(30) DEF ShardNext, CreateWeightVersionShard, DeleteWeightVersionShard,
              DeleteWeightVersionShardLeased, meshVars
<1>5. CASE LeaseNext
  BY <1>5, ZenonT(30) DEF LeaseNext, RegisterVersionLease, DeleteVersionLease, LeaseDeadline,
              LeaseExpire, meshVars
<1> QED
  BY <1>1, <1>2, <1>3, <1>4, <1>5, Zenon DEF Next

\* While a linked version is leased, its mesh is neither updated nor deleted.
THEOREM LeaseFreeze == Spec => LeaseFreezesMesh
<1>1. TypeOK /\ LeasesIndexed /\ [Next]_vars =>
        [\A m \in Mesh, v \in Version :
           Linked(v, m) /\ Leased(v) => mesh'[m] = mesh[m]]_vars
  BY LeaseFreezesStep, Zenon
<1> QED
  BY <1>1, TypeCorrect, LeasesAlwaysIndexed, PTL DEF Spec, LeaseFreezesMesh

-----------------------------------------------------------------------------
(* Publishers are present members of the version's mesh                    *)

\* The versions a mesh links exist, name that mesh, and the mesh exists.
LinksAgree ==
  \A m \in Mesh : \A v \in meshVersions[m] :
    mesh[m] # None /\ version[v] # None /\ version[v].mesh = m

\* PublishersAreMembers is inductive only together with what the scripts keep
\* true about the link between a version and its mesh.
MembershipInv == LinksAgree /\ UnlinkedVersionsInert /\ PublishersAreMembers

\* MembershipInv speaks of four variables only.
LEMMA MembershipUnchanged ==
  ASSUME MembershipInv, UNCHANGED <<mesh, meshVersions, version, shards>>
  PROVE  MembershipInv'
<1>1. LinksAgree'
  BY Zenon DEF MembershipInv, LinksAgree
<1>2. UnlinkedVersionsInert'
  BY Zenon DEF MembershipInv, UnlinkedVersionsInert, Linked, PublicationsOf
<1>3. PublishersAreMembers'
  BY ZenonT(30) DEF MembershipInv, PublishersAreMembers, PublisherIsMember, Linked
<1> QED
  BY <1>1, <1>2, <1>3, Zenon DEF MembershipInv

\* Worker and lease steps do not touch what MembershipInv speaks of.
LEMMA MembershipWorkerLease ==
  MembershipInv /\ (WorkerNext \/ LeaseNext \/ UNCHANGED vars) => MembershipInv'
<1> SUFFICES ASSUME MembershipInv, WorkerNext \/ LeaseNext \/ UNCHANGED vars
             PROVE  MembershipInv'
  BY Zenon
<1>1. UNCHANGED <<mesh, meshVersions, version, shards>>
  BY ZenonT(30) DEF WorkerNext, ExpireWorker, RegisterWorker, LeaseNext, RegisterVersionLease,
         DeleteVersionLease, LeaseDeadline, LeaseExpire, meshVars, versionVars, vars
<1> QED
  BY <1>1, MembershipUnchanged, Zenon

\* What holds of a stored publication, with its types.
LEMMA PublicationFacts ==
  ASSUME TypeOK, MembershipInv, NEW p \in shards
  PROVE  LET m == version[p.version].mesh
         IN  /\ p.version \in Version /\ p.worker \in Worker /\ m \in Mesh
             /\ version[p.version] # None /\ m # None
             /\ mesh[m] # None /\ p.version \in meshVersions[m]
             /\ mesh[m].workers[p.worker] = [shard |-> p.shard, endpoint |-> p.endpoint]
<1>1. p.version \in Version /\ p.worker \in Worker
  BY Zenon DEF TypeOK, Publication
<1>2. PublisherIsMember(p)
  BY Zenon DEF MembershipInv, PublishersAreMembers
<1>3. version[p.version] \in VersionRecord
  BY <1>1, <1>2, Zenon DEF PublisherIsMember, TypeOK
<1>4. version[p.version].mesh \in Mesh
  BY <1>2, <1>3, Zenon DEF PublisherIsMember, VersionRecord
<1> QED
  BY <1>1, <1>2, <1>4, Zenon DEF PublisherIsMember, Linked

\* A membership update retires exactly the publications its new members do not
\* stand behind.
LEMMA MembershipUpdate ==
  ASSUME TypeOK, MembershipInv, NEW m \in Mesh, NEW ws \in Memberships,
         UpdateTrainerMesh(m, ws)
  PROVE  MembershipInv'
<1>1. /\ mesh[m] # None
      /\ mesh'[m].workers = ws /\ mesh'[m] # None
      /\ \A n \in Mesh \ {m} : mesh'[n] = mesh[n]
      /\ UNCHANGED <<meshVersions, version>>
      /\ shards' = shards \ Retired(m, ws)
  <2>1. [model |-> mesh[m].model, shards |-> mesh[m].shards,
         generation |-> mesh[m].generation + 1, workers |-> ws] \in MeshRecord
    BY SMTT(30), InputAssumption DEF UpdateTrainerMesh, UpdateAdmitted, TypeOK, MeshRecord
  <2> QED
    BY <2>1, ZenonT(40) DEF UpdateTrainerMesh, UpdateAdmitted, TypeOK, versionVars
<1>2. LinksAgree' /\ UnlinkedVersionsInert'
  BY <1>1, SMTT(30) DEF MembershipInv, LinksAgree, UnlinkedVersionsInert, Linked, PublicationsOf, TypeOK,
              VersionRecord
<1>3. ASSUME NEW p \in shards'
      PROVE PublisherIsMember(p)'
  <2> DEFINE n == version[p.version].mesh
  <2>1. /\ p \in shards /\ p \notin Retired(m, ws)
        /\ p.worker \in Worker /\ p.version \in Version
    BY <1>1, <1>3, Zenon DEF TypeOK, Publication
  <2>2. /\ version[p.version] # None /\ n # None /\ n \in Mesh
        /\ mesh[n] # None /\ p.version \in meshVersions[n]
        /\ mesh[n].workers[p.worker] = [shard |-> p.shard, endpoint |-> p.endpoint]
    BY <2>1, PublicationFacts, Zenon
  <2>3. CASE n # m
    BY <1>1, <2>2, <2>3, Zenon DEF PublisherIsMember, Linked
  <2>4. CASE n = m
    <3>1. mesh[m].workers[p.worker] # None
      BY <2>1, <2>2, <2>4, <1>1, SMTT(30) DEF TypeOK, MeshRecord, Membership, Binding, Publication
    <3>2. ws[p.worker] # None /\ ws[p.worker].shard = p.shard
      BY <2>1, <2>2, <2>4, <3>1, SMTT(30) DEF Retired
    <3>3. ws[p.worker].endpoint = p.endpoint
      BY <2>1, <2>2, <2>4, <3>1, <3>2, SMTT(30) DEF Retired
    <3>4. ws[p.worker] \in Binding
      BY <3>2, <2>1, InputAssumption, ZenonT(40) DEF Membership
    <3>5. ws[p.worker] = [shard |-> p.shard, endpoint |-> p.endpoint]
      BY <3>2, <3>3, <3>4, Zenon DEF Binding
    <3> QED
      BY <1>1, <2>2, <2>4, <3>5, Zenon DEF PublisherIsMember, Linked
  <2> QED
    BY <2>3, <2>4, Zenon
<1> QED
  BY <1>1, <1>2, <1>3, Zenon DEF MembershipInv, PublishersAreMembers

\* The other trainer mesh scripts keep MembershipInv.
LEMMA MembershipMesh == TypeOK /\ MembershipInv /\ MeshNext => MembershipInv'
<1> SUFFICES ASSUME TypeOK, MembershipInv, MeshNext PROVE MembershipInv'
  BY Zenon
<1>1. ASSUME NEW m \in Mesh, DeleteTrainerMesh(m) PROVE MembershipInv'
  <2>1. \A v \in meshVersions[m] : version[v].state = "RELEASING" /\ PublicationsOf(v) = {}
    BY <1>1, Zenon DEF DeleteTrainerMesh, Retirable
  <2>2. /\ \A n \in Mesh \ {m} : mesh'[n] = mesh[n] /\ meshVersions'[n] = meshVersions[n]
        /\ meshVersions'[m] = {} /\ UNCHANGED <<version, shards>>
    BY <1>1, Zenon DEF DeleteTrainerMesh, versionVars, TypeOK
  <2>3. LinksAgree'
    BY <2>2, Zenon DEF MembershipInv, LinksAgree
  <2>4. UnlinkedVersionsInert'
    BY <2>1, <2>2, SMTT(30) DEF MembershipInv, UnlinkedVersionsInert, Linked, PublicationsOf, TypeOK,
                      VersionRecord
  <2>5. PublishersAreMembers'
    <3> SUFFICES ASSUME NEW p \in shards PROVE PublisherIsMember(p)'
      BY <2>2, Zenon DEF PublishersAreMembers
    <3>0. p \in PublicationsOf(p.version)
      BY Zenon DEF PublicationsOf
    <3>1. version[p.version].mesh # m
      BY <2>1, <3>0, PublicationFacts, ZenonT(30)
    <3> QED
      BY <2>2, <3>1, PublicationFacts, Zenon DEF PublisherIsMember, Linked
  <2> QED
    BY <2>3, <2>4, <2>5, Zenon DEF MembershipInv
<1>2. ASSUME NEW m \in Mesh, NEW ws \in Memberships, NEW model \in Model, NEW k \in Key,
             CreateTrainerMesh(m, model, k, ws)
      PROVE MembershipInv'
  <2>1. meshVersions[m] = {} /\ mesh[m] = None
    BY <1>2, Zenon DEF CreateTrainerMesh, MembershipInv, LinksAgree
  <2>2. /\ \A n \in Mesh \ {m} : mesh'[n] = mesh[n]
        /\ UNCHANGED <<meshVersions, version, shards>>
    BY <1>2, Zenon DEF CreateTrainerMesh, versionVars, TypeOK
  <2>3. LinksAgree'
    BY <2>1, <2>2, ZenonT(40) DEF MembershipInv, LinksAgree
  <2>4. UnlinkedVersionsInert'
    BY <2>1, <2>2, SMTT(30) DEF MembershipInv, UnlinkedVersionsInert, Linked, PublicationsOf, TypeOK,
                      VersionRecord
  <2>5. PublishersAreMembers'
    <3> SUFFICES ASSUME NEW p \in shards PROVE PublisherIsMember(p)'
      BY <2>2, Zenon DEF PublishersAreMembers
    <3> QED
      BY <2>1, <2>2, PublicationFacts, ZenonT(40) DEF PublisherIsMember, Linked
  <2> QED
    BY <2>3, <2>4, <2>5, Zenon DEF MembershipInv
<1>3. CASE \/ \E m \in Mesh : DeleteTrainerMeshInUse(m)
           \/ \E m \in Mesh, ws \in Memberships : UpdateTrainerMeshLeased(m, ws)
  <2>1. UNCHANGED <<mesh, meshVersions, version, shards>>
    BY <1>3, Zenon DEF DeleteTrainerMeshInUse, UpdateTrainerMeshLeased, meshVars, versionVars
  <2> QED
    BY <2>1, MembershipUnchanged, Zenon
<1> QED
  BY <1>1, <1>2, <1>3, MembershipUpdate, Zenon DEF MeshNext

\* The weight version scripts keep MembershipInv.
LEMMA MembershipVersion == TypeOK /\ MembershipInv /\ VersionNext => MembershipInv'
<1> SUFFICES ASSUME TypeOK, MembershipInv, VersionNext PROVE MembershipInv'
  BY Zenon
<1>1. ASSUME NEW r \in VersionRequest, CheckDeltaBase(r) PROVE MembershipInv'
  BY <1>1, MembershipUnchanged, Zenon DEF CheckDeltaBase, meshVars
<1>2. ASSUME NEW r \in VersionRequest, NEW v \in Version, CreateWeightVersion(v, r)
      PROVE MembershipInv'
  <2>1. /\ version[v] = None /\ version'[v] # None /\ version'[v].mesh = r.mesh
        /\ \A u \in Version \ {v} : version'[u] = version[u]
        /\ r.mesh # None => r.mesh \in Mesh /\ mesh[r.mesh] # None
        /\ r.mesh # None => meshVersions'[r.mesh] = meshVersions[r.mesh] \cup {v}
        /\ \A n \in Mesh : n # r.mesh => meshVersions'[n] = meshVersions[n]
        /\ UNCHANGED <<mesh, shards>>
    <3> DEFINE g == GenerationStamp(r)
               rec == [key |-> r.key, model |-> r.model, mesh |-> r.mesh, s3 |-> r.s3,
                       base |-> r.base, state |-> r.state, generation |-> g]
    <3>1. r \in Request /\ r.mesh \in Mesh \cup {None}
      BY InputAssumption, Zenon DEF Request
    <3>2. version' = [version EXCEPT ![v] = rec]
      BY <1>2, Zenon DEF CreateWeightVersion
    <3>3. version'[v] = rec
      BY <3>2, Zenon DEF TypeOK
    <3>4. r.mesh # None => mesh[r.mesh].generation \in Nat
      BY <1>2, <3>1, Zenon DEF TypeOK, CreateWeightVersion, MeshRecord
    <3>5. rec \in VersionRecord /\ rec.mesh = r.mesh
      BY <3>1, <3>4, Zenon DEF GenerationStamp, VersionRecord, Request, VersionState
    <3> HIDE DEF rec
    <3> QED
      BY <1>2, <3>1, <3>2, <3>3, <3>5, ZenonT(40) DEF CreateWeightVersion, TypeOK
  <2>2. \A p \in shards : p.version # v
    BY <2>1, PublicationFacts, ZenonT(30)
  <2>3. LinksAgree'
    <3> SUFFICES ASSUME NEW m \in Mesh, NEW u \in meshVersions'[m]
                 PROVE mesh'[m] # None /\ version'[u] # None /\ version'[u].mesh = m
      BY Zenon DEF LinksAgree
    <3>1. CASE u = v
      <4>1. v \notin meshVersions[m]
        BY <2>1, Zenon DEF MembershipInv, LinksAgree
      <4> QED
        BY <2>1, <3>1, <4>1, Zenon
    <3>2. CASE u # v
      <4>0. meshVersions'[m] \subseteq meshVersions[m] \cup {v}
        <5>1. CASE m = r.mesh
          BY <2>1, <5>1, Zenon
        <5>2. CASE m # r.mesh
          BY <2>1, <5>2, Zenon
        <5> QED
          BY <5>1, <5>2, Zenon
      <4>1. u \in meshVersions[m] /\ u \in Version
        BY <4>0, <3>2, Zenon DEF TypeOK
      <4> QED
        BY <2>1, <3>2, <4>1 DEF MembershipInv, LinksAgree
    <3> QED
      BY <3>1, <3>2, Zenon
  <2>4. UnlinkedVersionsInert'
    <3> SUFFICES ASSUME NEW u \in Version, version'[u] # None, version'[u].mesh # None
                 PROVE \/ Linked(u, version[u].mesh)'
                       \/ version'[u].state = "RELEASING" /\ PublicationsOf(u)' = {}
      BY Zenon DEF UnlinkedVersionsInert
    <3>1. CASE u = v
      BY <2>1, <3>1, Zenon DEF Linked
    <3>2. CASE u # v
      <4>1. version[u].mesh \in Mesh
        BY <2>1, <3>2, SMTT(30) DEF TypeOK, VersionRecord
      <4> QED
        BY <2>1, <3>2, <4>1, SMTT(30) DEF MembershipInv, UnlinkedVersionsInert, Linked, PublicationsOf
    <3> QED
      BY <3>1, <3>2, Zenon
  <2>5. PublishersAreMembers'
    <3> SUFFICES ASSUME NEW p \in shards PROVE PublisherIsMember(p)'
      BY <2>1, Zenon DEF PublishersAreMembers
    <3> QED
      BY <2>1, <2>2, PublicationFacts, SMTT(30) DEF PublisherIsMember, Linked
  <2> QED
    BY <2>3, <2>4, <2>5, Zenon DEF MembershipInv
<1>3. ASSUME NEW v \in Version,
             \/ DeleteWeightVersion(v)
             \/ \E target \in VersionState : UpdateWeightVersionState(v, target)
      PROVE MembershipInv'
  <2>1. /\ version[v] # None /\ version'[v] # None
        /\ version'[v].mesh = version[v].mesh
        /\ version'[v].mesh # None => version'[v].state = "RELEASING"
        /\ \A u \in Version \ {v} : version'[u] = version[u]
        /\ UNCHANGED <<mesh, meshVersions, shards>>
    <3>1. PICK target \in VersionState :
            /\ version[v] # None
            /\ version[v].mesh # None => target = "RELEASING"
            /\ version' = [version EXCEPT ![v] = [version[v] EXCEPT !.state = target]]
            /\ UNCHANGED <<mesh, meshVersions, shards>>
      BY <1>3, Zenon DEF DeleteWeightVersion, UpdateWeightVersionState, VersionState, meshVars
    <3>2. version[v] \in VersionRecord
      BY <3>1, Zenon DEF TypeOK
    <3>3. /\ [version[v] EXCEPT !.state = target] \in VersionRecord
          /\ [version[v] EXCEPT !.state = target].mesh = version[v].mesh
          /\ [version[v] EXCEPT !.state = target].state = target
      BY <3>2, Zenon DEF VersionRecord
    <3> QED
      BY <3>1, <3>3, Zenon DEF TypeOK
  <2>2. LinksAgree'
    BY <2>1, SMTT(30) DEF MembershipInv, LinksAgree, TypeOK
  <2>3. UnlinkedVersionsInert'
    BY <2>1, SMTT(30) DEF MembershipInv, UnlinkedVersionsInert, Linked, PublicationsOf
  <2>4. PublishersAreMembers'
    <3> SUFFICES ASSUME NEW p \in shards PROVE PublisherIsMember(p)'
      BY <2>1, Zenon DEF PublishersAreMembers
    <3> QED
      BY <2>1, PublicationFacts, SMTT(30) DEF PublisherIsMember, Linked
  <2> QED
    BY <2>2, <2>3, <2>4, Zenon DEF MembershipInv
<1> QED
  BY <1>1, <1>2, <1>3, Zenon DEF VersionNext

\* The shard scripts keep MembershipInv.
LEMMA MembershipShard == TypeOK /\ MembershipInv /\ ShardNext => MembershipInv'
<1> SUFFICES ASSUME TypeOK, MembershipInv, ShardNext PROVE MembershipInv'
  BY Zenon
<1>1. ASSUME NEW p \in Publication, NEW m \in Mesh, CreateWeightVersionShard(p, m)
      PROVE MembershipInv'
  <2>1. /\ p.version \in Version /\ version[p.version] # None
        /\ version[p.version].mesh = m /\ version[p.version].state # "RELEASING"
        /\ mesh[m].workers[p.worker] = [shard |-> p.shard, endpoint |-> p.endpoint]
    BY <1>1, Zenon DEF CreateWeightVersionShard, PublicationAdmitted, Publication
  <2>2. Linked(p.version, m)
    BY <2>1, Zenon DEF MembershipInv, UnlinkedVersionsInert
  <2>3. /\ \A u \in Version : /\ version'[u] # None <=> version[u] # None
                              /\ version[u] # None => version'[u].mesh = version[u].mesh
                              /\ u # p.version => version'[u] = version[u]
        /\ shards' \subseteq shards \cup {p}
        /\ UNCHANGED <<mesh, meshVersions>>
    <3>1. /\ \/ version' = version
             \/ version' = [version EXCEPT ![p.version] =
                                     [version[p.version] EXCEPT !.state = "READY"]]
          /\ shards' \subseteq shards \cup {p}
          /\ UNCHANGED <<mesh, meshVersions>>
      BY <1>1, Zenon DEF CreateWeightVersionShard
    <3>2. version[p.version] \in VersionRecord
      BY <2>1, Zenon DEF TypeOK
    <3>3. /\ [version[p.version] EXCEPT !.state = "READY"] \in VersionRecord
          /\ [version[p.version] EXCEPT !.state = "READY"].mesh = version[p.version].mesh
      BY <3>2, Zenon DEF VersionRecord, VersionState
    <3> QED
      BY <2>1, <3>1, <3>3, ZenonT(40) DEF TypeOK
  <2>4. LinksAgree'
    BY <2>3, Zenon DEF MembershipInv, LinksAgree, TypeOK
  <2>5. UnlinkedVersionsInert'
    BY SMTT(30), <2>1, <2>2, <2>3 DEF MembershipInv, UnlinkedVersionsInert, Linked, PublicationsOf
  <2>6. PublishersAreMembers'
    <3> SUFFICES ASSUME NEW q \in shards \cup {p} PROVE PublisherIsMember(q)'
      BY <2>3, Zenon DEF PublishersAreMembers
    <3>1. CASE q = p
      BY <2>1, <2>2, <2>3, <3>1, Zenon DEF PublisherIsMember, Linked
    <3>2. CASE q \in shards
      BY <2>3, <3>2, PublicationFacts, ZenonT(40) DEF PublisherIsMember, Linked
    <3> QED
      BY <3>1, <3>2, Zenon
  <2> QED
    BY <2>4, <2>5, <2>6, Zenon DEF MembershipInv
<1>2. ASSUME NEW p \in shards,
             DeleteWeightVersionShard(p) \/ DeleteWeightVersionShardLeased(p)
      PROVE MembershipInv'
  <2>1. UNCHANGED <<mesh, meshVersions, version>> /\ shards' \subseteq shards
    BY <1>2, Zenon DEF DeleteWeightVersionShard, DeleteWeightVersionShardLeased, meshVars, versionVars
  <2> QED
    BY <2>1, SMTT(30) DEF MembershipInv, LinksAgree, UnlinkedVersionsInert, PublishersAreMembers,
                PublisherIsMember, Linked, PublicationsOf
<1> QED
  BY <1>1, <1>2, Zenon DEF ShardNext

\* MembershipInv is an invariant of the keyspace.
LEMMA MembershipAlways == Spec => []MembershipInv
<1>1. Init => MembershipInv
  BY Zenon DEF Init, MembershipInv, LinksAgree, UnlinkedVersionsInert, PublishersAreMembers
<1>2. TypeOK /\ MembershipInv /\ [Next]_vars => MembershipInv'
  BY MembershipWorkerLease, MembershipMesh, MembershipVersion, MembershipShard, Zenon DEF Next
<1> QED
  BY <1>1, <1>2, TypeCorrect, PTL DEF Spec

\* Every publication in the keyspace is backed by a present member of its mesh:
\* the retirement rules of update_trainer_mesh.lua leave no stray publication.
THEOREM PublishersRemainMembers == Spec => []PublishersAreMembers
<1>1. MembershipInv => PublishersAreMembers
  BY Zenon DEF MembershipInv
<1> QED
  BY <1>1, MembershipAlways, PTL

\* A version whose mesh is gone is RELEASING and has no publications, also when
\* another mesh is created under the same id.
THEOREM UnlinkedStayInert == Spec => []UnlinkedVersionsInert
<1>1. MembershipInv => UnlinkedVersionsInert
  BY Zenon DEF MembershipInv
<1> QED
  BY <1>1, MembershipAlways, PTL

-----------------------------------------------------------------------------
(* The steps, as versions and publications see them                        *)

\* What the theorems below speak of.
Seen == <<mesh, pins, meshVersions, version, versionRequest, shards>>

\* A stored version moves to state st.
StateMoved(v, st) ==
  /\ version[v] # None
  /\ version' = [version EXCEPT ![v].state = st]
  /\ UNCHANGED <<mesh, pins, meshVersions, versionRequest, shards>>

\* Every step is one of these: most scripts and clocks change nothing seen.
LEMMA StepCases ==
  ASSUME [Next]_vars
  PROVE  \/ UNCHANGED Seen
         \/ \E m \in Mesh :
              \/ DeleteTrainerMesh(m)
              \/ \E ws \in Memberships :
                   \/ UpdateTrainerMesh(m, ws)
                   \/ \E model \in Model, k \in Key : CreateTrainerMesh(m, model, k, ws)
         \/ \E v \in Version, r \in VersionRequest : CreateWeightVersion(v, r)
         \/ \E v \in Version, st \in VersionState :
              StateMoved(v, st) /\ (version[v].mesh # None => st = "RELEASING")
         \/ \E p \in Publication, m \in Mesh : CreateWeightVersionShard(p, m)
         \/ \E p \in shards : DeleteWeightVersionShard(p)
<1>1. CASE UNCHANGED vars \/ WorkerNext \/ LeaseNext
  <2>1. UNCHANGED Seen
    BY <1>1, ZenonT(30) DEF vars, Seen, WorkerNext, ExpireWorker, RegisterWorker, LeaseNext,
       RegisterVersionLease, DeleteVersionLease, LeaseDeadline, LeaseExpire, meshVars, versionVars
  <2> QED
    BY <2>1, Zenon
<1>2. CASE MeshNext
  <2>1. ASSUME NEW m \in Mesh,
               \/ DeleteTrainerMeshInUse(m)
               \/ \E ws \in Memberships : UpdateTrainerMeshLeased(m, ws)
        PROVE  UNCHANGED Seen
    BY <2>1, ZenonT(30) DEF DeleteTrainerMeshInUse, UpdateTrainerMeshLeased, Seen, meshVars, versionVars
  <2> QED
    BY <1>2, <2>1, ZenonT(30) DEF MeshNext
<1>3. CASE VersionNext
  <2>1. ASSUME NEW r \in VersionRequest, CheckDeltaBase(r)
        PROVE  UNCHANGED Seen
    BY <2>1, Zenon DEF CheckDeltaBase, Seen, meshVars
  <2>2. ASSUME NEW v \in Version, DeleteWeightVersion(v)
        PROVE  StateMoved(v, "RELEASING")
    BY <2>2, Zenon DEF DeleteWeightVersion, StateMoved, meshVars
  <2>3. ASSUME NEW v \in Version, NEW target \in VersionState, UpdateWeightVersionState(v, target)
        PROVE  StateMoved(v, target) /\ (version[v].mesh # None => target = "RELEASING")
    BY <2>3, Zenon DEF UpdateWeightVersionState, StateMoved, meshVars
  <2>4. "RELEASING" \in VersionState
    BY Zenon DEF VersionState
  <2> QED
    BY <1>3, <2>1, <2>2, <2>3, <2>4, ZenonT(30) DEF VersionNext
<1>4. CASE ShardNext
  <2>1. ASSUME NEW p \in shards, DeleteWeightVersionShardLeased(p)
        PROVE  UNCHANGED Seen
    BY <2>1, Zenon DEF DeleteWeightVersionShardLeased, Seen, meshVars, versionVars
  <2> QED
    BY <1>4, <2>1, ZenonT(30) DEF ShardNext
<1> QED
  BY <1>1, <1>2, <1>3, <1>4, Zenon DEF Next

\* Moving the state of a version leaves its identity alone.
SameIdentity(u) ==
  /\ version'[u] = None <=> version[u] = None
  /\ version[u] # None =>
       /\ version'[u].mesh = version[u].mesh /\ version'[u].generation = version[u].generation
       /\ version'[u].model = version[u].model /\ version'[u].key = version[u].key

\* A state change of one version changes nothing else.
LEMMA StateChange ==
  ASSUME TypeOK, NEW v \in Version, version[v] # None, NEW st \in VersionState,
         version' = [version EXCEPT ![v].state = st]
  PROVE  /\ \A u \in Version : SameIdentity(u) /\ (u # v => version'[u] = version[u])
         /\ version'[v].state = st
<1>1. version[v] \in VersionRecord
  BY Zenon DEF TypeOK
<1>2. version'[v] = [version[v] EXCEPT !.state = st]
  BY Zenon DEF TypeOK
<1>3. /\ version'[v] \in VersionRecord /\ version'[v].state = st
      /\ version'[v].mesh = version[v].mesh /\ version'[v].generation = version[v].generation
      /\ version'[v].model = version[v].model /\ version'[v].key = version[v].key
  BY <1>1, <1>2 DEF VersionRecord
<1>4. \A u \in Version : u # v => version'[u] = version[u]
  BY Zenon DEF TypeOK
<1> QED
  BY <1>3, <1>4, Zenon DEF SameIdentity

\* What create_weight_version_shard.lua does to the version it publishes for.
LEMMA PublishFacts ==
  ASSUME TypeOK, NEW p \in Publication, NEW m \in Mesh, CreateWeightVersionShard(p, m)
  PROVE  /\ p.version \in Version /\ p.worker \in Worker
         /\ version[p.version] # None /\ version[p.version].mesh = m
         /\ version[p.version].generation = mesh[m].generation
         /\ \A u \in Version : SameIdentity(u) /\ (u # p.version => version'[u] = version[u])
         /\ UNCHANGED <<mesh, meshVersions, versionRequest>>
         /\ shards' = {q \in shards : ~SameKey(p, q)} \cup {p}
         /\ p \in shards' /\ shards' \subseteq shards \cup {p}
<1>1. p.version \in Version /\ p.worker \in Worker
  BY Zenon DEF Publication
<1>2. /\ version[p.version] # None /\ version[p.version].mesh = m
      /\ version[p.version].generation = mesh[m].generation
  BY Zenon DEF CreateWeightVersionShard, PublicationAdmitted, CurrentGeneration
<1>3. \A u \in Version : SameIdentity(u) /\ (u # p.version => version'[u] = version[u])
  <2>1. CASE version' = version
    BY <2>1, Zenon DEF SameIdentity
  <2>2. CASE version' = [version EXCEPT ![p.version].state = "READY"]
    <3>1. "READY" \in VersionState
      BY Zenon DEF VersionState
    <3> QED
      BY <1>1, <1>2, <2>2, <3>1, StateChange, ZenonT(30)
  <2> QED
    BY <2>1, <2>2, Zenon DEF CreateWeightVersionShard
<1>4. /\ UNCHANGED <<mesh, meshVersions, versionRequest>>
      /\ shards' = {q \in shards : ~SameKey(p, q)} \cup {p}
  BY Zenon DEF CreateWeightVersionShard
<1> QED
  BY <1>1, <1>2, <1>3, <1>4, Zenon

\* What create_weight_version.lua stores.
LEMMA CreateFacts ==
  ASSUME TypeOK, NEW v \in Version, NEW r \in VersionRequest, CreateWeightVersion(v, r)
  PROVE  /\ r \in Request /\ version[v] = None /\ version'[v] # None
         /\ version'[v].mesh = r.mesh /\ version'[v].model = r.model /\ version'[v].key = r.key
         /\ version'[v].generation = GenerationStamp(r)
         /\ \A u \in Version : u # v => version'[u] = version[u]
         /\ UNCHANGED <<mesh, pins, shards>>
<1> DEFINE rec == [key |-> r.key, model |-> r.model, mesh |-> r.mesh, s3 |-> r.s3,
                   base |-> r.base, state |-> r.state, generation |-> GenerationStamp(r)]
<1>1. r \in Request
  BY InputAssumption, Zenon
<1>2. r.mesh # None => mesh[r.mesh].generation \in Nat
  BY <1>1, ZenonT(40) DEF TypeOK, CreateWeightVersion, MeshRecord, Request
<1>3. rec \in VersionRecord
  BY <1>1, <1>2, Zenon DEF GenerationStamp, VersionRecord, Request, VersionState
<1>4. version' = [version EXCEPT ![v] = rec] /\ version[v] = None /\ UNCHANGED <<mesh, pins, shards>>
  BY Zenon DEF CreateWeightVersion
<1>5. version'[v] = rec /\ \A u \in Version : u # v => version'[u] = version[u]
  BY <1>4, Zenon DEF TypeOK
<1>6. rec # None
  BY <1>3, Zenon
<1> QED
  BY SMTT(30), <1>1, <1>4, <1>5, <1>6
-----------------------------------------------------------------------------
(* Versions of earlier generations                                         *)

\* One step of SupersededVersionsFrozen.
LEMMA SupersededStep ==
  ASSUME TypeOK, MembershipInv, [Next]_vars, NEW m \in Mesh, NEW v \in Version,
         Linked(v, m), version[v].generation # mesh[m].generation
  PROVE  /\ {p \in shards' : p.version = v} \subseteq shards
         /\ version'[v].state = "READY" => version[v].state = "READY"
<1>1. version[v] # None /\ version[v].mesh = m /\ m # None
  BY Zenon DEF Linked, MembershipInv, LinksAgree
<1>2. CASE UNCHANGED Seen
  BY <1>2, Zenon DEF Seen
<1>3. CASE \E n \in Mesh :
             \/ DeleteTrainerMesh(n)
             \/ \E ws \in Memberships :
                  \/ UpdateTrainerMesh(n, ws)
                  \/ \E model \in Model, k \in Key : CreateTrainerMesh(n, model, k, ws)
  <2>1. shards' \subseteq shards /\ version' = version
    BY <1>3, ZenonT(40) DEF DeleteTrainerMesh, UpdateTrainerMesh, CreateTrainerMesh, versionVars
  <2> QED
    BY <2>1, Zenon
<1>4. ASSUME NEW u \in Version, NEW r \in VersionRequest, CreateWeightVersion(u, r)
      PROVE  shards' = shards /\ version'[v] = version[v]
  BY <1>1, <1>4, CreateFacts, Zenon
<1>5. ASSUME NEW u \in Version, NEW st \in VersionState, StateMoved(u, st),
             version[u].mesh # None => st = "RELEASING"
      PROVE  shards' = shards /\ (version'[v].state = "READY" => version[v].state = "READY")
  BY <1>1, <1>5, StateChange, ZenonT(40) DEF StateMoved
<1>6. ASSUME NEW p \in Publication, NEW n \in Mesh, CreateWeightVersionShard(p, n)
      PROVE  /\ {q \in shards' : q.version = v} \subseteq shards
             /\ version'[v] = version[v]
  BY SMTT(30), <1>1, <1>6, PublishFacts
<1>7. ASSUME NEW p \in shards, DeleteWeightVersionShard(p)
      PROVE  shards' \subseteq shards /\ version' = version
  BY <1>7, Zenon DEF DeleteWeightVersionShard, versionVars
<1> QED
  BY <1>2, <1>3, <1>4, <1>5, <1>6, <1>7, StepCases, Zenon

\* Once a mesh has moved to a later generation, the versions of earlier ones gain
\* no publication and do not become READY, whoever races the membership update.
THEOREM SupersededStayFrozen == Spec => SupersededVersionsFrozen
<1>1. TypeOK /\ MembershipInv /\ [Next]_vars =>
        [\A m \in Mesh, v \in Version :
           Linked(v, m) /\ version[v].generation # mesh[m].generation
           => /\ {p \in shards' : p.version = v} \subseteq shards
              /\ version'[v].state = "READY" => version[v].state = "READY"]_vars
  BY SupersededStep, Zenon
<1> QED
  BY <1>1, TypeCorrect, MembershipAlways, PTL DEF Spec, SupersededVersionsFrozen

-----------------------------------------------------------------------------
(* Idempotent creation                                                     *)

\* The request key of every stored version leads back to it.
RequestsKept ==
  \A v \in Version : version[v] # None =>
    versionRequest[<<version[v].model, version[v].key>>] = v

\* Every step keeps what idempotency keys stand for.
LEMMA RequestsStep == TypeOK /\ RequestsKept /\ [Next]_vars => RequestsKept'
<1> SUFFICES ASSUME TypeOK, RequestsKept, [Next]_vars PROVE RequestsKept'
  BY Zenon
<1>1. ASSUME UNCHANGED versionRequest, \A u \in Version : SameIdentity(u)
      PROVE  RequestsKept'
  BY <1>1, Zenon DEF RequestsKept, SameIdentity
<1>2. ASSUME UNCHANGED <<version, versionRequest>>
      PROVE  RequestsKept'
  BY <1>2, Zenon DEF RequestsKept
<1>3. ASSUME NEW v \in Version, NEW r \in VersionRequest, CreateWeightVersion(v, r)
      PROVE  RequestsKept'
  <2>1. <<r.model, r.key>> \in Model \X Key
    BY <1>3, CreateFacts, ZenonT(40) DEF Request
  <2>2. /\ versionRequest[<<r.model, r.key>>] = None
        /\ versionRequest' = [versionRequest EXCEPT ![<<r.model, r.key>>] = v]
    BY <1>3, Zenon DEF CreateWeightVersion, FreshRequest
  <2>3. ASSUME NEW u \in Version, version'[u] # None
        PROVE  versionRequest'[<<version'[u].model, version'[u].key>>] = u
    <3>1. CASE u = v
      BY SMTT(30), <1>3, <2>1, <2>2, <3>1, CreateFacts DEF TypeOK
    <3>2. CASE u # v
      <4>1. version'[u] = version[u]
        BY <1>3, <3>2, CreateFacts, Zenon
      <4>2. versionRequest[<<version[u].model, version[u].key>>] = u
        BY <2>3, <4>1, ZenonT(40) DEF RequestsKept
      <4>3. <<version[u].model, version[u].key>> \in Model \X Key
        BY <2>3, <4>1, ZenonT(40) DEF TypeOK, VersionRecord
      <4>4. <<version[u].model, version[u].key>> # <<r.model, r.key>>
        BY <2>2, <4>2, Zenon
      <4> QED
        BY <2>1, <2>2, <4>1, <4>2, <4>3, <4>4, ZenonT(40) DEF TypeOK
    <3> QED
      BY <3>1, <3>2, Zenon
  <2> QED
    BY <2>3, Zenon DEF RequestsKept
<1>4. CASE \E m \in Mesh :
             \/ DeleteTrainerMesh(m)
             \/ \E ws \in Memberships :
                  \/ UpdateTrainerMesh(m, ws)
                  \/ \E model \in Model, k \in Key : CreateTrainerMesh(m, model, k, ws)
  <2>1. UNCHANGED <<version, versionRequest>>
    BY <1>4, ZenonT(40) DEF DeleteTrainerMesh, UpdateTrainerMesh, CreateTrainerMesh, versionVars
  <2> QED
    BY <1>2, <2>1, Zenon
<1>5. ASSUME NEW v \in Version, NEW st \in VersionState, StateMoved(v, st)
      PROVE  RequestsKept'
  BY <1>1, <1>5, StateChange, ZenonT(30) DEF StateMoved
<1>6. ASSUME NEW p \in Publication, NEW m \in Mesh, CreateWeightVersionShard(p, m)
      PROVE  RequestsKept'
  BY <1>1, <1>6, PublishFacts, Zenon
<1>7. CASE UNCHANGED Seen \/ \E p \in shards : DeleteWeightVersionShard(p)
  BY <1>2, <1>7, ZenonT(30) DEF Seen, DeleteWeightVersionShard, versionVars
<1> QED
  BY <1>3, <1>4, <1>5, <1>6, <1>7, StepCases, ZenonT(40)

\* Retries of a create request under one idempotency key make one version, also
\* when the delta checks of two retries were made before either script ran.
THEOREM CreationIdempotent == Spec => []OneVersionPerRequest
<1>1. Init => RequestsKept
  BY Zenon DEF Init, RequestsKept
<1>2. RequestsKept => OneVersionPerRequest
  BY ZenonT(30) DEF RequestsKept, OneVersionPerRequest
<1> QED
  BY <1>1, <1>2, RequestsStep, TypeCorrect, PTL DEF Spec

-----------------------------------------------------------------------------
(* Publications are immutable                                              *)

\* No two publications share a key.
KeysUnique == \A p, q \in shards : SameKey(p, q) => p = q

\* A step leaves what it finds under a publication key unchanged.
LEMMA ImmutableStep ==
  ASSUME TypeOK, KeysUnique, [Next]_vars
  PROVE  KeysUnique' /\ \A p \in shards, q \in shards' : SameKey(p, q) => p = q
<1>1. ASSUME shards' \subseteq shards
      PROVE  KeysUnique' /\ \A p \in shards, q \in shards' : SameKey(p, q) => p = q
  BY <1>1, Zenon DEF KeysUnique
<1>2. ASSUME NEW p \in Publication, NEW m \in Mesh, CreateWeightVersionShard(p, m)
      PROVE  KeysUnique' /\ \A r \in shards, q \in shards' : SameKey(r, q) => r = q
  <2>1. shards' = {q \in shards : ~SameKey(p, q)} \cup {p}
    BY <1>2, PublishFacts, Zenon
  <2>2. \A q \in shards : SameKey(p, q) => q = p
    BY <1>2, Zenon DEF CreateWeightVersionShard, PublicationAdmitted, KeyAgrees
  <2>3. \A q \in shards : SameKey(q, p) => SameKey(p, q)
    BY Zenon DEF SameKey
  <2> QED
    BY <2>1, <2>2, <2>3, Zenon DEF KeysUnique
<1>3. CASE \E m \in Mesh :
             \/ DeleteTrainerMesh(m)
             \/ \E ws \in Memberships :
                  \/ UpdateTrainerMesh(m, ws)
                  \/ \E model \in Model, k \in Key : CreateTrainerMesh(m, model, k, ws)
  <2>1. shards' \subseteq shards
    BY <1>3, ZenonT(30) DEF DeleteTrainerMesh, UpdateTrainerMesh, CreateTrainerMesh
  <2> QED
    BY <1>1, <2>1, Zenon
<1>4. CASE \/ UNCHANGED Seen
           \/ \E v \in Version, r \in VersionRequest : CreateWeightVersion(v, r)
           \/ \E v \in Version, st \in VersionState : StateMoved(v, st)
           \/ \E p \in shards : DeleteWeightVersionShard(p)
  <2>1. shards' \subseteq shards
    BY <1>4, ZenonT(30) DEF Seen, CreateWeightVersion, StateMoved, DeleteWeightVersionShard
  <2> QED
    BY <1>1, <2>1, Zenon
<1> QED
  BY <1>2, <1>3, <1>4, StepCases, ZenonT(40)

\* What a reader verified under a publication key stays there or disappears.
THEOREM PublicationsKept == Spec => PublicationsImmutable
<1>1. Init => KeysUnique
  BY Zenon DEF Init, KeysUnique
<1>2. TypeOK /\ KeysUnique /\ [Next]_vars => KeysUnique'
  BY ImmutableStep, Zenon
<1>3. TypeOK /\ KeysUnique /\ [Next]_vars =>
        [\A p \in shards, q \in shards' : SameKey(p, q) => p = q]_vars
  BY ImmutableStep, Zenon
<1> QED
  BY <1>1, <1>2, <1>3, TypeCorrect, PTL DEF Spec, PublicationsImmutable

-----------------------------------------------------------------------------
(* Coverage                                                                *)

\* A step keeps the recorded shards of every mesh those of its members.
LEMMA ShardsStep == TypeOK /\ MeshKeepsShards /\ [Next]_vars => MeshKeepsShards'
<1> SUFFICES ASSUME TypeOK, MeshKeepsShards, [Next]_vars PROVE MeshKeepsShards'
  BY Zenon
<1>1. ASSUME mesh' = mesh
      PROVE  MeshKeepsShards'
  BY <1>1, ZenonT(40) DEF MeshKeepsShards, ShardsOf
<1>2. ASSUME NEW m \in Mesh, DeleteTrainerMesh(m)
      PROVE  MeshKeepsShards'
  BY SMTT(30), <1>2 DEF DeleteTrainerMesh, MeshKeepsShards, ShardsOf, TypeOK
<1>3. ASSUME NEW m \in Mesh, NEW rec, mesh' = [mesh EXCEPT ![m] = rec],
             ShardsOf(rec.workers) = rec.shards
      PROVE  MeshKeepsShards'
  BY SMTT(30), <1>3 DEF MeshKeepsShards, ShardsOf, TypeOK
<1>4. ASSUME NEW m \in Mesh, NEW ws \in Memberships, UpdateTrainerMesh(m, ws)
      PROVE  MeshKeepsShards'
  <2>1. ShardsOf(ws) = mesh[m].shards
    BY <1>4, Zenon DEF UpdateTrainerMesh, UpdateAdmitted, KeepsCoverage, MeshKeepsShards
  <2> DEFINE rec == [model |-> mesh[m].model, shards |-> mesh[m].shards,
                     generation |-> mesh[m].generation + 1, workers |-> ws]
  <2>2. ShardsOf(rec.workers) = rec.shards /\ mesh' = [mesh EXCEPT ![m] = rec]
    BY <1>4, <2>1, Zenon DEF UpdateTrainerMesh
  <2> HIDE DEF rec
  <2> QED
    BY <1>3, <2>2, ZenonT(30)
<1>5. ASSUME NEW m \in Mesh, NEW ws \in Memberships, NEW model \in Model, NEW k \in Key,
             CreateTrainerMesh(m, model, k, ws)
      PROVE  MeshKeepsShards'
  <2> DEFINE rec == [model |-> model, generation |-> 1, shards |-> ShardsOf(ws), workers |-> ws]
  <2>1. ShardsOf(rec.workers) = rec.shards /\ mesh' = [mesh EXCEPT ![m] = rec]
    BY <1>5, Zenon DEF CreateTrainerMesh
  <2> HIDE DEF rec
  <2> QED
    BY <1>3, <2>1, ZenonT(30)
<1>6. CASE \/ UNCHANGED Seen
           \/ \E v \in Version, r \in VersionRequest : CreateWeightVersion(v, r)
           \/ \E v \in Version, st \in VersionState : StateMoved(v, st)
           \/ \E p \in Publication, m \in Mesh : CreateWeightVersionShard(p, m)
           \/ \E p \in shards : DeleteWeightVersionShard(p)
  <2>1. mesh' = mesh
    BY <1>6, ZenonT(30) DEF Seen, CreateWeightVersion, StateMoved, CreateWeightVersionShard,
         DeleteWeightVersionShard, meshVars
  <2> QED
    BY <1>1, <2>1, Zenon
<1> QED
  BY <1>2, <1>4, <1>5, <1>6, StepCases, Zenon

\* Through any number of membership updates the logical shards a mesh was created
\* with are exactly those its present members hold.
THEOREM ShardsKept == Spec => []MeshKeepsShards
<1>1. Init => MeshKeepsShards
  BY ZenonT(40) DEF Init, MeshKeepsShards
<1> QED
  BY <1>1, ShardsStep, TypeCorrect, PTL DEF Spec

\* The covered shards of a version are shards of its mesh, so that counting them
\* compares the two sets.
LEMMA CountedIsCovered ==
  ASSUME TypeOK, MeshKeepsShards, NEW v \in Version, NEW m \in Mesh, mesh[m] # None, NEW ps,
         Cardinality(Covered(v, m, ps)) = Cardinality(mesh[m].shards)
  PROVE  Covered(v, m, ps) = mesh[m].shards
<1>1. Covered(v, m, ps) \subseteq ShardsOf(mesh[m].workers)
  BY Zenon DEF Covered, ShardsOf
<1>2. ShardsOf(mesh[m].workers) = mesh[m].shards
  BY Zenon DEF MeshKeepsShards
<1>3. IsFiniteSet(mesh[m].shards)
  BY InputAssumption, FS_Subset, ZenonT(40) DEF TypeOK, MeshRecord
<1> QED
  BY <1>1, <1>2, <1>3, FS_Subset, Zenon

\* The step of ReadyMeansCovered.
LEMMA ReadyStep ==
  ASSUME TypeOK, MeshKeepsShards, [Next]_vars, NEW v \in Version,
         version[v] # None, version[v].mesh # None,
         version[v].state # "READY", version'[v].state = "READY",
         NEW s \in mesh[version[v].mesh].shards
  PROVE  \E p \in shards' :
           /\ p.version = v /\ p.shard = s
           /\ mesh[version[v].mesh].workers[p.worker] = [shard |-> s, endpoint |-> p.endpoint]
           /\ LiveTrainer(p.worker, version[v].model, p.endpoint)
<1>1. ASSUME version'[v] = version[v] PROVE FALSE
  BY <1>1, Zenon
<1>2. CASE \/ UNCHANGED Seen
           \/ \E m \in Mesh :
                \/ DeleteTrainerMesh(m)
                \/ \E ws \in Memberships :
                     \/ UpdateTrainerMesh(m, ws)
                     \/ \E model \in Model, k \in Key : CreateTrainerMesh(m, model, k, ws)
           \/ \E p \in shards : DeleteWeightVersionShard(p)
  <2>1. version' = version
    BY <1>2, ZenonT(40) DEF Seen, DeleteTrainerMesh, UpdateTrainerMesh, CreateTrainerMesh,
         DeleteWeightVersionShard, versionVars
  <2> QED
    BY <1>1, <2>1, Zenon
<1>3. ASSUME NEW u \in Version, NEW r \in VersionRequest, CreateWeightVersion(u, r)
      PROVE  FALSE
  BY <1>1, <1>3, CreateFacts, Zenon
<1>4. ASSUME NEW u \in Version, NEW st \in VersionState, StateMoved(u, st),
             version[u].mesh # None => st = "RELEASING"
      PROVE  FALSE
  <2>1. /\ \A x \in Version : x # u => version'[x] = version[x]
        /\ version'[u].state = st
    BY <1>4, StateChange, ZenonT(40) DEF StateMoved
  <2> QED
    BY <1>1, <1>4, <2>1, Zenon
<1>5. ASSUME NEW q \in Publication, NEW m \in Mesh, CreateWeightVersionShard(q, m)
      PROVE  \E p \in shards' :
           /\ p.version = v /\ p.shard = s
           /\ mesh[version[v].mesh].workers[p.worker] = [shard |-> s, endpoint |-> p.endpoint]
           /\ LiveTrainer(p.worker, version[v].model, p.endpoint)
  <2>1. v = q.version /\ version[v].mesh = m
    BY SMTT(30), <1>1, <1>5, PublishFacts
  <2>2. mesh[m] # None /\ version' # version
    BY <1>1, <1>5, Zenon DEF CreateWeightVersionShard, PublicationAdmitted
  <2>3. Cardinality(Covered(v, m, shards')) = Cardinality(mesh[m].shards)
    BY <1>5, <2>1, <2>2, ZenonT(40) DEF CreateWeightVersionShard
  <2>4. s \in Covered(v, m, shards')
    BY <2>1, <2>2, <2>3, CountedIsCovered, Zenon
  <2>5. PICK w \in Worker, p \in shards' :
           /\ mesh[m].workers[w] # None /\ mesh[m].workers[w].shard = s
           /\ p.version = v /\ p.worker = w /\ p.shard = s
           /\ p.endpoint = mesh[m].workers[w].endpoint
           /\ LiveTrainer(w, version[v].model, mesh[m].workers[w].endpoint)
    BY <2>4, ZenonT(40) DEF Covered
  <2>6. mesh[m].workers[w] \in Binding
    BY SMTT(30), <2>2, <2>5 DEF TypeOK, MeshRecord, Membership
  <2>7. mesh[m].workers[w] = [shard |-> s, endpoint |-> p.endpoint]
    BY <2>5, <2>6, ZenonT(40) DEF Binding
  <2> QED
    BY <2>1, <2>5, <2>7, ZenonT(30)
<1> QED
  BY <1>2, <1>3, <1>4, <1>5, StepCases, Zenon

\* A mesh-backed version becomes READY only while every logical shard of its mesh
\* has a publication by a live, correctly bound member: the script's comparison
\* of two counts is a comparison of the shards themselves.
THEOREM ReadyOnlyWhenCovered == Spec => ReadyMeansCovered
<1>1. TypeOK /\ MeshKeepsShards /\ [Next]_vars =>
        [\A v \in Version :
           /\ version[v] # None /\ version[v].mesh # None
           /\ version[v].state # "READY" /\ version'[v].state = "READY"
           => \A s \in mesh[version[v].mesh].shards :
                \E p \in shards' :
                  /\ p.version = v /\ p.shard = s
                  /\ mesh[version[v].mesh].workers[p.worker] =
                       [shard |-> s, endpoint |-> p.endpoint]
                  /\ LiveTrainer(p.worker, version[v].model, p.endpoint)]_vars
  BY ReadyStep, ZenonT(40)
<1> QED
  BY <1>1, TypeCorrect, ShardsKept, PTL DEF Spec, ReadyMeansCovered

-----------------------------------------------------------------------------
(* Stable metadata                                                         *)

PinOf(p, m) == [mesh |-> m, worker |-> p.worker, shard |-> p.shard, stable |-> p.stable]

\* No version is ahead of the mesh that links it.
GenerationsBounded ==
  \A m \in Mesh, v \in Version : Linked(v, m) => version[v].generation <= mesh[m].generation

\* The digest of every publication of a version of the present generation is pinned.
Pinned ==
  \A p \in shards :
    version[p.version].generation = mesh[version[p.version].mesh].generation
      => PinOf(p, version[p.version].mesh) \in pins

\* The strengthening under which the digests of a generation agree.
StableInv == GenerationsBounded /\ Pinned /\ StableWithinGeneration

\* Steps that keep the meshes, the pins, the identity of the versions and add no
\* publication keep StableInv.
LEMMA StableQuiet ==
  ASSUME TypeOK, MembershipInv, StableInv, mesh' = mesh, meshVersions' = meshVersions,
         pins' = pins, shards' \subseteq shards, \A u \in Version : SameIdentity(u)
  PROVE  StableInv'
<1>1. \A m \in Mesh : \A u \in meshVersions[m] : version[u] # None
  BY Zenon DEF MembershipInv, LinksAgree
<1>2. \A p \in shards : p.version \in Version /\ version[p.version] # None
  BY ZenonT(30) DEF MembershipInv, PublishersAreMembers, PublisherIsMember, TypeOK, Publication
<1>3. GenerationsBounded'
  BY <1>1, Zenon DEF StableInv, GenerationsBounded, Linked, SameIdentity
<1>4. Pinned'
  BY <1>2, ZenonT(40) DEF StableInv, Pinned, PinOf, SameIdentity
<1>5. StableWithinGeneration'
  BY <1>2 DEF StableInv, StableWithinGeneration, SameIdentity
<1> QED
  BY <1>3, <1>4, <1>5, Zenon DEF StableInv

\* What a publication says of its mesh.
LEMMA PublisherFacts ==
  ASSUME TypeOK, MembershipInv, NEW p \in shards
  PROVE  /\ p \in Publication /\ p.version \in Version /\ version[p.version] # None
         /\ version[p.version].mesh \in Mesh
         /\ mesh[version[p.version].mesh] # None
         /\ p.version \in meshVersions[version[p.version].mesh]
<1>1. p \in Publication /\ p.version \in Version
  BY Zenon DEF TypeOK, Publication
<1>2. PublisherIsMember(p)
  BY Zenon DEF MembershipInv, PublishersAreMembers
<1>3. version[p.version] # None /\ version[p.version].mesh # None
      /\ Linked(p.version, version[p.version].mesh)
  BY <1>2, Zenon DEF PublisherIsMember
<1>4. version[p.version] \in VersionRecord
  BY <1>1, <1>3, ZenonT(40) DEF TypeOK
<1> QED
  BY <1>1, <1>3, <1>4, Zenon DEF VersionRecord, Linked

\* Mesh operations.
LEMMA StableMesh ==
  ASSUME TypeOK, MembershipInv, StableInv, NEW m \in Mesh,
         \/ DeleteTrainerMesh(m)
         \/ \E ws \in Memberships :
              \/ UpdateTrainerMesh(m, ws)
              \/ \E model \in Model, k \in Key : CreateTrainerMesh(m, model, k, ws)
  PROVE  StableInv'
<1>1. version' = version /\ shards' \subseteq shards
  BY ZenonT(30) DEF DeleteTrainerMesh, UpdateTrainerMesh, CreateTrainerMesh, versionVars
<1>2. StableWithinGeneration'
  BY <1>1, Zenon DEF StableInv, StableWithinGeneration
<1>3. CASE DeleteTrainerMesh(m)
  <2>1. /\ mesh' = [mesh EXCEPT ![m] = None] /\ pins' = {p \in pins : p.mesh # m}
        /\ meshVersions' = [meshVersions EXCEPT ![m] = {}] /\ shards' = shards
        /\ \A v \in meshVersions[m] : PublicationsOf(v) = {}
    BY <1>3, Zenon DEF DeleteTrainerMesh, Retirable
  <2>2. GenerationsBounded'
    BY <1>1, <2>1, ZenonT(40) DEF StableInv, GenerationsBounded, Linked, TypeOK
  <2>3. ASSUME NEW p \in shards
        PROVE  version[p.version].mesh # m
    BY <2>1, PublisherFacts, ZenonT(40) DEF PublicationsOf
  <2>4. Pinned'
    BY <1>1, <2>1, <2>3, PublisherFacts, ZenonT(40) DEF StableInv, Pinned, PinOf, TypeOK
  <2> QED
    BY <1>2, <2>2, <2>4, Zenon DEF StableInv
<1>4. ASSUME NEW ws \in Memberships, UpdateTrainerMesh(m, ws)
      PROVE  StableInv'
  <2>1. /\ mesh[m] # None /\ pins' = {p \in pins : p.mesh # m} /\ meshVersions' = meshVersions
        /\ \A n \in Mesh : n # m => mesh'[n] = mesh[n]
        /\ mesh'[m].generation = mesh[m].generation + 1
    BY <1>4, ZenonT(40) DEF UpdateTrainerMesh, UpdateAdmitted, TypeOK
  <2>2. mesh[m].generation \in Nat
    BY <2>1, Zenon DEF TypeOK, MeshRecord
  <2>3. \A v \in meshVersions[m] :
          v \in Version /\ version[v].generation \in Nat
          /\ version[v].generation <= mesh[m].generation
    <3>1. ASSUME NEW v \in meshVersions[m]
          PROVE  v \in Version /\ version[v] # None
      BY <3>1, ZenonT(40) DEF MembershipInv, LinksAgree, TypeOK
    <3>2. ASSUME NEW v \in meshVersions[m]
          PROVE  version[v].generation \in Nat
      BY <3>1, Zenon DEF TypeOK, VersionRecord
    <3> QED
      BY <2>1, <3>1, <3>2, Zenon DEF StableInv, GenerationsBounded, Linked
  <2>4. GenerationsBounded'
    BY <1>1, <2>1, <2>2, <2>3, SMTT(30) DEF StableInv, GenerationsBounded, Linked
  <2>5. ASSUME NEW p \in shards, version[p.version].mesh = m
        PROVE  version[p.version].generation # mesh'[m].generation
    BY <2>1, <2>2, <2>3, <2>5, PublisherFacts, SMTT(30)
  <2>6. Pinned'
    BY <1>1, <2>1, <2>5, PublisherFacts, Zenon DEF StableInv, Pinned, PinOf
  <2> QED
    BY <1>2, <2>4, <2>6, ZenonT(40) DEF StableInv
<1>5. ASSUME NEW ws \in Memberships, NEW model \in Model, NEW k \in Key,
             CreateTrainerMesh(m, model, k, ws)
      PROVE  StableInv'
  <2>1. /\ mesh[m] = None /\ UNCHANGED <<pins, meshVersions, shards>>
        /\ \A n \in Mesh : n # m => mesh'[n] = mesh[n]
    BY <1>5, Zenon DEF CreateTrainerMesh, TypeOK
  <2>2. meshVersions[m] = {}
    BY <2>1, Zenon DEF MembershipInv, LinksAgree
  <2>3. GenerationsBounded'
    BY <1>1, <2>1, <2>2, Zenon DEF StableInv, GenerationsBounded, Linked
  <2>4. Pinned'
    BY <1>1, <2>1, PublisherFacts, Zenon DEF StableInv, Pinned, PinOf
  <2> QED
    BY <1>2, <2>3, <2>4, Zenon DEF StableInv
<1> QED
  BY <1>3, <1>4, <1>5, Zenon

\* A new version has the generation of its mesh, and no publication.
LEMMA StableCreate ==
  ASSUME TypeOK, MembershipInv, StableInv, NEW v \in Version, NEW r \in VersionRequest,
         CreateWeightVersion(v, r)
  PROVE  StableInv'
<1>1. /\ UNCHANGED <<mesh, pins, shards>>
      /\ meshVersions' = [m \in Mesh |-> IF m = r.mesh THEN meshVersions[m] \cup {v}
                                                       ELSE meshVersions[m]]
      /\ r.mesh # None => mesh[r.mesh] # None
  BY Zenon DEF CreateWeightVersion
<1>2. /\ version[v] = None /\ version'[v].generation = GenerationStamp(r) /\ r \in Request
      /\ \A u \in Version : u # v => version'[u] = version[u]
  BY CreateFacts, Zenon
<1>3. \A p \in shards : p.version # v /\ version'[p.version] = version[p.version]
  BY <1>2, PublisherFacts, Zenon
<1>4. GenerationsBounded'
  <2> SUFFICES ASSUME NEW m \in Mesh, NEW u \in Version, mesh[m] # None, u \in meshVersions'[m]
               PROVE  version'[u].generation <= mesh[m].generation
    BY <1>1, Zenon DEF GenerationsBounded, Linked
  <2>1. CASE u = v
    <3>1. v \notin meshVersions[m]
      BY <1>2, Zenon DEF MembershipInv, LinksAgree
    <3>2. m = r.mesh /\ m # None
      BY <1>1, <2>1, <3>1, Zenon
    <3>3. version'[v].generation = mesh[m].generation
      BY <1>2, <3>2, Zenon DEF GenerationStamp
    <3>4. mesh[m].generation \in Nat
      BY Zenon DEF TypeOK, MeshRecord
    <3> QED
      BY <2>1, <3>3, <3>4
  <2>2. CASE u # v
    BY <1>1, <1>2, <2>2, Zenon DEF StableInv, GenerationsBounded, Linked
  <2> QED
    BY <2>1, <2>2, Zenon
<1>5. Pinned'
  BY <1>1, <1>3, ZenonT(40) DEF StableInv, Pinned, PinOf
<1>6. StableWithinGeneration'
  BY <1>1, <1>3 DEF StableInv, StableWithinGeneration
<1> QED
  BY <1>4, <1>5, <1>6, Zenon DEF StableInv

\* A publication is admitted with the digest pinned for its worker and shard.
LEMMA StablePublish ==
  ASSUME TypeOK, MembershipInv, StableInv, NEW p \in Publication, NEW m \in Mesh,
         CreateWeightVersionShard(p, m)
  PROVE  StableInv'
<1>1. /\ p.version \in Version /\ version[p.version].mesh = m
      /\ version[p.version].generation = mesh[m].generation
      /\ \A u \in Version : SameIdentity(u)
      /\ mesh' = mesh /\ meshVersions' = meshVersions
      /\ shards' = {q \in shards : ~SameKey(p, q)} \cup {p}
      /\ version[p.version] # None
  BY PublishFacts, Zenon
<1>2. /\ pins' = {q \in pins : ~(q.mesh = m /\ q.worker = p.worker /\ q.shard = p.shard)}
                   \cup {PinOf(p, m)}
      /\ PinAgrees(p, m)
  BY Zenon DEF CreateWeightVersionShard, PublicationAdmitted, PinOf
<1>3. \A q \in shards : q.version \in Version /\ version[q.version] # None
  BY PublisherFacts, Zenon
<1>4. \A q \in shards' : /\ q.version \in Version
                         /\ version'[q.version].mesh = version[q.version].mesh
                         /\ version'[q.version].generation = version[q.version].generation
  BY <1>1, <1>3, SMTT(30) DEF SameIdentity
<1>5. ASSUME NEW q \in shards, q.worker = p.worker, q.shard = p.shard,
             version[q.version].mesh = m, version[q.version].generation = mesh[m].generation
      PROVE  q.stable = p.stable
  <2>1. PinOf(q, m) \in pins
    BY <1>5, Zenon DEF StableInv, Pinned
  <2> QED
    BY <1>2, <1>5, <2>1, Zenon DEF PinAgrees, PinOf
<1>6. GenerationsBounded'
  <2>1. \A n \in Mesh : \A u \in meshVersions[n] : version[u] # None
    BY Zenon DEF MembershipInv, LinksAgree
  <2> QED
    BY <1>1, <2>1, ZenonT(40) DEF StableInv, GenerationsBounded, Linked, SameIdentity
<1>7. Pinned'
  <2> SUFFICES ASSUME NEW q \in shards',
                      version[q.version].generation = mesh[version[q.version].mesh].generation
               PROVE  PinOf(q, version[q.version].mesh) \in pins'
    BY <1>1, <1>4, Zenon DEF Pinned
  <2>1. CASE q = p
    BY <1>1, <1>2, <2>1, Zenon
  <2>2. CASE q \in shards
    <3>1. PinOf(q, version[q.version].mesh) \in pins
      BY <2>2, Zenon DEF StableInv, Pinned
    <3>2. CASE version[q.version].mesh = m /\ q.worker = p.worker /\ q.shard = p.shard
      <4>1. q.stable = p.stable
        BY <1>5, <2>2, <3>2, Zenon
      <4> QED
        BY <1>2, <3>2, <4>1, Zenon DEF PinOf
    <3>3. CASE ~(version[q.version].mesh = m /\ q.worker = p.worker /\ q.shard = p.shard)
      BY <1>2, <3>1, <3>3, Zenon DEF PinOf
    <3> QED
      BY <3>2, <3>3, Zenon
  <2> QED
    BY <1>1, <2>1, <2>2, Zenon
<1>8. StableWithinGeneration'
  <2> SUFFICES ASSUME NEW q \in shards', NEW x \in shards', q.worker = x.worker, q.shard = x.shard,
                      version[q.version].mesh = version[x.version].mesh,
                      version[q.version].generation = version[x.version].generation
               PROVE  q.stable = x.stable
    BY <1>4 DEF StableWithinGeneration
  <2>1. (q \in shards \/ q = p) /\ (x \in shards \/ x = p)
    BY <1>1, Zenon
  <2>2. CASE q \in shards /\ x \in shards
    BY <2>2, Zenon DEF StableInv, StableWithinGeneration
  <2>3. CASE q \in shards /\ x = p
    BY <1>1, <1>5, <2>3, Zenon
  <2>4. CASE x \in shards /\ q = p
    BY <1>1, <1>5, <2>4, ZenonT(40)
  <2> QED
    BY <2>1, <2>2, <2>3, <2>4, ZenonT(40)
<1> QED
  BY <1>6, <1>7, <1>8, Zenon DEF StableInv

\* Every step keeps StableInv.
LEMMA StableStep == TypeOK /\ MembershipInv /\ StableInv /\ [Next]_vars => StableInv'
<1> SUFFICES ASSUME TypeOK, MembershipInv, StableInv, [Next]_vars PROVE StableInv'
  BY Zenon
<1>1. ASSUME version' = version
      PROVE  \A u \in Version : SameIdentity(u)
  BY <1>1, Zenon DEF SameIdentity
<1>2. CASE UNCHANGED Seen
  <2>1. /\ mesh' = mesh /\ meshVersions' = meshVersions /\ pins' = pins
        /\ shards' \subseteq shards /\ version' = version
    BY <1>2, Zenon DEF Seen
  <2> QED
    BY <1>1, <2>1, StableQuiet, Zenon
<1>3. ASSUME NEW p \in shards, DeleteWeightVersionShard(p)
      PROVE  StableInv'
  <2>1. /\ mesh' = mesh /\ meshVersions' = meshVersions /\ pins' = pins
        /\ shards' \subseteq shards /\ version' = version
    BY <1>3, Zenon DEF DeleteWeightVersionShard, meshVars, versionVars
  <2> QED
    BY <1>1, <2>1, StableQuiet, Zenon
<1>4. ASSUME NEW v \in Version, NEW st \in VersionState, StateMoved(v, st)
      PROVE  StableInv'
  <2>1. /\ mesh' = mesh /\ meshVersions' = meshVersions /\ pins' = pins /\ shards' \subseteq shards
    BY <1>4, Zenon DEF StateMoved
  <2>2. \A u \in Version : SameIdentity(u)
    BY <1>4, StateChange, ZenonT(30) DEF StateMoved
  <2> QED
    BY <2>1, <2>2, StableQuiet, ZenonT(40)
<1> QED
  BY <1>2, <1>3, <1>4, StableMesh, StableCreate, StablePublish, StepCases, ZenonT(60)

\* Within a mesh generation a worker publishes one digest per shard, across all
\* versions: the pins of the present generation decide it, and the versions of
\* earlier generations, whose pins are gone, gain no publication any more.
THEOREM StableMetadataAgrees == Spec => []StableWithinGeneration
<1>1. Init => StableInv
  BY Zenon DEF Init, StableInv, GenerationsBounded, Linked, Pinned, StableWithinGeneration
<1>2. StableInv => StableWithinGeneration
  BY Zenon DEF StableInv
<1> QED
  BY <1>1, <1>2, StableStep, TypeCorrect, MembershipAlways, PTL DEF Spec

-----------------------------------------------------------------------------
(* Leases                                                                  *)

\* An unexpired lease is renewed by its holder, released or left alone, and never
\* handed to another worker, also when the lease ids of two workers collide.
THEOREM LeasesKept == Spec => LeaseNotTaken
<1>1. ASSUME TypeOK, [Next]_vars, NEW l \in Version \X LeaseId, lease[l] # None, l \notin leaseDue
      PROVE  lease'[l] \in {lease[l], None}
  <2>1. CASE UNCHANGED lease
    BY <2>1, Zenon
  <2>2. ASSUME NEW v \in Version, NEW w \in Worker, RegisterVersionLease(v, w)
        PROVE  lease'[l] \in {lease[l], None}
    <3> DEFINE k == <<v, LeaseIdOf[<<v, w>>]>>
    <3>1. lease[k] \in {w, None} /\ lease' = [lease EXCEPT ![k] = w]
      BY <2>2, Zenon DEF RegisterVersionLease, LeaseGranted
    <3> QED
      BY <1>1, <3>1, Zenon DEF TypeOK
  <2>3. ASSUME NEW v \in Version, NEW w \in Worker, NEW id \in LeaseId, DeleteVersionLease(v, w, id)
        PROVE  lease'[l] \in {lease[l], None}
    BY <1>1, <2>3, Zenon DEF DeleteVersionLease, TypeOK
  <2>4. ASSUME NEW k \in Version \X LeaseId, LeaseExpire(k)
        PROVE  lease'[l] \in {lease[l], None}
    BY <1>1, <2>4, Zenon DEF LeaseExpire, TypeOK
  <2>5. CASE \E k \in Version \X LeaseId : LeaseDeadline(k)
    BY <2>1, <2>5, Zenon DEF LeaseDeadline
  <2>6. CASE WorkerNext \/ MeshNext \/ VersionNext \/ ShardNext
    <3>1. UNCHANGED lease
      BY <2>6, ZenonT(60) DEF WorkerNext, MeshNext, VersionNext, ShardNext, RegisterWorker,
           ExpireWorker, DeleteTrainerMesh, DeleteTrainerMeshInUse, UpdateTrainerMesh,
           UpdateTrainerMeshLeased, CreateTrainerMesh, CheckDeltaBase, CreateWeightVersion,
           DeleteWeightVersion, UpdateWeightVersionState, CreateWeightVersionShard,
           DeleteWeightVersionShard, DeleteWeightVersionShardLeased, leaseVars
    <3> QED
      BY <2>1, <3>1, Zenon
  <2> QED
    BY <1>1, <2>1, <2>2, <2>3, <2>4, <2>5, <2>6, ZenonT(30) DEF Next, LeaseNext, vars
<1>2. TypeOK /\ [Next]_vars =>
        [\A l \in Version \X LeaseId :
           lease[l] # None /\ l \notin leaseDue => lease'[l] \in {lease[l], None}]_vars
  BY <1>1, Zenon
<1> QED
  BY <1>2, TypeCorrect, PTL DEF Spec, LeaseNotTaken
=============================================================================
