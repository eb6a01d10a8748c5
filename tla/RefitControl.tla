---------------------------- MODULE RefitControl ----------------------------
(***************************************************************************)
(* The control plane of RL weight refit: worker registrations, trainer     *)
(* meshes, weight versions, shard publications and version leases.         *)
(*                                                                         *)
(* The state is the Redis keyspace of refit/backend/redis.rs.  Every       *)
(* operation is one Lua script under refit/backend/redis/scripts/, which   *)
(* Redis runs atomically, so one script is one action.  The only handler   *)
(* that decides on a read made before its script is CreateWeightVersion    *)
(* for a delta; it takes two actions (CheckDeltaBase, CreateWeightVersion).*)
(*                                                                         *)
(* Time is abstracted to the order of expiries: a registration may expire  *)
(* at any moment after it was written, and a lease reaches its deadline    *)
(* (LeaseDeadline) before its hash disappears (LeaseExpire).               *)
(***************************************************************************)
EXTENDS Naturals, FiniteSets

CONSTANTS
  Worker,           \* worker ids
  Model,            \* model names
  Endpoint,         \* refit endpoints
  Shard,            \* logical shard ids
  Mesh,             \* trainer mesh ids
  Version,          \* weight version UIDs
  Key,              \* idempotency keys
  Stable,           \* digests of stable tensor metadata
  Sum,              \* digests of version metadata (checksums)
  LeaseId,          \* 8 hex digit lease ids
  None,             \* an absent hash or field
  LeaseIdOf,        \* lease_id(version, worker); two workers may collide
  WorkerMetadata,   \* the registrations each worker process may send
  Memberships,      \* the memberships an orchestrator may ask for
  VersionRequest,   \* the validated CreateWeightVersion requests
  MaxGeneration     \* bound: mesh updates stop at this generation

Role == {"TRAINER", "GENERATOR"}
Registration == [role: Role, model: Model, endpoint: Endpoint \cup {None}]
Binding == [shard: Shard, endpoint: Endpoint]
Membership == [Worker -> Binding \cup {None}]
VersionState == {"STAGING", "READY", "RELEASING"}
Request == [key: Key, model: Model, mesh: Mesh \cup {None}, s3: BOOLEAN,
            base: Version \cup {None}, state: {"STAGING", "READY"}]
MeshRecord == [model: Model, generation: Nat, shards: SUBSET Shard, workers: Membership]
VersionRecord == [key: Key, model: Model, mesh: Mesh \cup {None}, s3: BOOLEAN,
                  base: Version \cup {None}, state: VersionState, generation: Nat]
Publication == [version: Version, worker: Worker, shard: Shard,
                endpoint: Endpoint, stable: Stable, sum: Sum]
Pin == [mesh: Mesh, worker: Worker, shard: Shard, stable: Stable]

ASSUME NoneAssumption ==
  /\ None \notin Worker \cup Endpoint \cup Mesh \cup Version
  /\ None \notin Registration \cup Binding \cup MeshRecord \cup VersionRecord

ASSUME LeaseIdAssumption == LeaseIdOf \in [Version \X Worker -> LeaseId]

\* service.rs validates the worker metadata, the membership and the publication
\* mode of every request before it reaches the backend.
ASSUME InputAssumption ==
  /\ WorkerMetadata \in [Worker -> SUBSET Registration]
  /\ Memberships \subseteq {ws \in Membership : \E w \in Worker : ws[w] # None}
  /\ VersionRequest \subseteq
       {r \in Request : /\ r.s3 => r.mesh = None
                        /\ ~r.s3 => r.mesh # None /\ r.state = "STAGING"}
  /\ MaxGeneration \in Nat
  /\ IsFiniteSet(Shard)

VARIABLES
  registration,   \* mx:refit:worker:<id>
  mesh,           \* mx:refit:trainer-mesh:metadata:<id>, without the pins
  pins,           \* its stable_metadata:<publication key> fields
  meshVersions,   \* mx:refit:trainer-mesh:versions:<id>
  meshRequest,    \* mx:refit:trainer-mesh-request:<model>:<key>
  version,        \* mx:refit:version:metadata:<uid>
  versionRequest, \* mx:refit:version-request:<model>:<key>
  shards,         \* mx:refit:version:shards and :publication-endpoints
  lease,          \* mx:refit:version:lease:<uid>:<lease id>: the holder
  leaseIndex,     \* mx:refit:version:leases:<uid>: the scored set
  leaseDue,       \* the leases whose deadline has passed
  checkedDelta    \* delta requests whose handler has read a READY base

vars == <<registration, mesh, pins, meshVersions, meshRequest, version,
          versionRequest, shards, lease, leaseIndex, leaseDue, checkedDelta>>
meshVars == <<mesh, pins, meshVersions, meshRequest>>
versionVars == <<version, versionRequest, checkedDelta>>
leaseVars == <<lease, leaseIndex, leaseDue>>
-----------------------------------------------------------------------------
(* Reading the keyspace                                                    *)

\* A live trainer registration for this model and binding endpoint.
LiveTrainer(w, model, endpoint) ==
  /\ registration[w] # None
  /\ registration[w].role = "TRAINER"
  /\ registration[w].model = model
  /\ registration[w].endpoint = endpoint

\* Every member of a requested membership is a live trainer.
AllRegistered(ws, model) ==
  \A w \in Worker : ws[w] # None => LiveTrainer(w, model, ws[w].endpoint)

ShardsOf(ws) == {s \in Shard : \E w \in Worker : ws[w] # None /\ ws[w].shard = s}

\* MUTANT of ActiveLeases: the lease check sees no lease.
NoLeaseCheck(v) == {}

\* MUTANT of Purge: the purge takes unexpired leases too.
PurgeAll(vs) == {e \in leaseIndex : e[1] \notin vs}

\* The entries of the lease index that ZREMRANGEBYSCORE leaves for a version,
\* and the index after purging a set of versions.
ActiveLeases(v) == {l \in LeaseId : <<v, l>> \in leaseIndex \ leaseDue}
Purge(vs) == leaseIndex \ {e \in leaseDue : e[1] \in vs}

PublicationsOf(v) == {p \in shards : p.version = v}

\* MUTANT of Covered: publications of expired or rebound workers count.
CoveredByAnyone(v, m, ps) ==
  {s \in Shard : \E p \in ps : p.version = v /\ p.shard = s}

\* The logical shards of mesh m with a current, live publication of version v
\* among the publications ps.
Covered(v, m, ps) ==
  {s \in Shard : \E w \in Worker, p \in ps :
      /\ mesh[m].workers[w] # None
      /\ mesh[m].workers[w].shard = s
      /\ p.version = v /\ p.worker = w /\ p.shard = s
      /\ p.endpoint = mesh[m].workers[w].endpoint
      /\ LiveTrainer(w, version[v].model, mesh[m].workers[w].endpoint)}

-----------------------------------------------------------------------------
(* Workers                                                                 *)

\* register_worker.lua: register, or refresh a registration with equal metadata.
RegisterWorker(w, r) ==
  /\ r \in WorkerMetadata[w]
  /\ registration[w] \in {None, r}
  /\ registration' = [registration EXCEPT ![w] = r]
  /\ UNCHANGED <<meshVars, versionVars, shards, leaseVars>>

\* The TTL of a registration that was not refreshed runs out.
ExpireWorker(w) ==
  /\ registration[w] # None
  /\ registration' = [registration EXCEPT ![w] = None]
  /\ UNCHANGED <<meshVars, versionVars, shards, leaseVars>>

-----------------------------------------------------------------------------
(* Trainer meshes                                                          *)

\* create_trainer_mesh.lua: reserve the idempotency key and store generation 1.
CreateTrainerMesh(m, model, k, ws) ==
  /\ meshRequest[<<model, k>>] = None
  /\ mesh[m] = None
  /\ AllRegistered(ws, model)
  /\ mesh' = [mesh EXCEPT ![m] = [model |-> model, generation |-> 1,
                                   shards |-> ShardsOf(ws), workers |-> ws]]
  /\ meshRequest' = [meshRequest EXCEPT ![<<model, k>>] = m]
  /\ UNCHANGED <<registration, pins, meshVersions, versionVars, shards, leaseVars>>

\* MUTANT of Retired: a removed worker keeps what it published.
RetiredOfRebound(m, ws) ==
  {p \in shards : /\ p.version \in meshVersions[m] /\ ws[p.worker] # None
                  /\ ws[p.worker].endpoint # p.endpoint}

\* MUTANT of Retired: a rebound worker keeps what it published elsewhere.
RetiredOfRemoved(m, ws) ==
  {p \in shards : p.version \in meshVersions[m] /\ ws[p.worker] = None}

\* The publications an update of m to ws retires: those of removed workers
\* under their old shard, and those of new or rebound workers whose published
\* endpoint is not the new one.
Retired(m, ws) ==
  LET old == mesh[m].workers
      removed == {w \in Worker : /\ old[w] # None
                                 /\ \/ ws[w] = None
                                    \/ ws[w].shard # old[w].shard}
      changed == {w \in Worker : ws[w] # None /\ ws[w] # old[w]}
  IN  {p \in shards : /\ p.version \in meshVersions[m]
                      /\ \/ p.worker \in removed /\ p.shard = old[p.worker].shard
                         \/ /\ p.worker \in changed
                            /\ p.shard = ws[p.worker].shard
                            /\ p.endpoint # ws[p.worker].endpoint}

\* MUTANT of KeepsCoverage: only shards outside the mesh are refused.
KeepsSomeCoverage(m, ws) == ShardsOf(ws) \subseteq ShardsOf(mesh[m].workers)

\* update_trainer_mesh.lua, COVERAGE_MISMATCH: the replacement holds exactly the
\* logical shards of the members it replaces.
KeepsCoverage(m, ws) == ShardsOf(ws) = ShardsOf(mesh[m].workers)

\* The checks of update_trainer_mesh.lua up to the lease check: the caller names
\* the current generation, the replacement keeps the logical shards, every
\* member is live and something changes.
UpdateAdmitted(m, ws) ==
  /\ mesh[m] # None
  /\ mesh[m].generation < MaxGeneration
  /\ KeepsCoverage(m, ws)
  /\ AllRegistered(ws, mesh[m].model)
  /\ ws # mesh[m].workers

\* update_trainer_mesh.lua, UPDATED: no linked version is leased.
UpdateTrainerMesh(m, ws) ==
  /\ UpdateAdmitted(m, ws)
  /\ \A v \in meshVersions[m] : ActiveLeases(v) = {}
  /\ leaseIndex' = Purge(meshVersions[m])
  /\ shards' = shards \ Retired(m, ws)
  /\ pins' = {p \in pins : p.mesh # m}
  /\ mesh' = [mesh EXCEPT ![m] = [model |-> mesh[m].model, shards |-> mesh[m].shards,
                                   generation |-> mesh[m].generation + 1, workers |-> ws]]
  /\ UNCHANGED <<registration, meshVersions, meshRequest, versionVars, lease, leaseDue>>

\* update_trainer_mesh.lua, VERSION_LEASED: the versions are visited in no
\* particular order and purged up to the first leased one.
UpdateTrainerMeshLeased(m, ws) ==
  /\ UpdateAdmitted(m, ws)
  /\ \E v \in meshVersions[m] :
       /\ ActiveLeases(v) # {}
       /\ \E before \in SUBSET {u \in meshVersions[m] : ActiveLeases(u) = {}} :
            leaseIndex' = Purge(before \cup {v})
  /\ UNCHANGED <<registration, meshVars, versionVars, shards, lease, leaseDue>>

\* MUTANT of Retirable: a version that is not RELEASING does not hold the mesh.
RetirableInAnyState(v) == PublicationsOf(v) = {} /\ ActiveLeases(v) = {}

\* A linked version is out of the way of a mesh deletion.
Retirable(v) ==
  /\ version[v].state = "RELEASING"
  /\ PublicationsOf(v) = {}
  /\ ActiveLeases(v) = {}

\* delete_trainer_mesh.lua, DELETED.  The idempotency key survives.
DeleteTrainerMesh(m) ==
  /\ mesh[m] # None
  /\ \A v \in meshVersions[m] : Retirable(v)
  /\ leaseIndex' = Purge(meshVersions[m])
  /\ mesh' = [mesh EXCEPT ![m] = None]
  /\ pins' = {p \in pins : p.mesh # m}
  /\ meshVersions' = [meshVersions EXCEPT ![m] = {}]
  /\ UNCHANGED <<registration, meshRequest, versionVars, shards, lease, leaseDue>>

\* delete_trainer_mesh.lua, IN_USE: purged up to the first version in use.
DeleteTrainerMeshInUse(m) ==
  /\ mesh[m] # None
  /\ \E v \in meshVersions[m] :
       /\ ~Retirable(v)
       /\ \E before \in SUBSET {u \in meshVersions[m] : Retirable(u)} :
            leaseIndex' = Purge(before \cup {v})
  /\ UNCHANGED <<registration, meshVars, versionVars, shards, lease, leaseDue>>

-----------------------------------------------------------------------------
(* Weight versions                                                         *)

\* service.rs reads the base of an XOR delta before the create script runs.
CheckDeltaBase(r) ==
  /\ r.base # None
  /\ version[r.base] # None
  /\ version[r.base].model = r.model
  /\ version[r.base].state = "READY"
  /\ checkedDelta' = checkedDelta \cup {r}
  /\ UNCHANGED <<registration, meshVars, version, versionRequest, shards, leaseVars>>

\* MUTANT of FreshRequest: a retry is not recognised.
AnyRequest(r) == TRUE

\* The idempotency key of the request is not taken.
FreshRequest(r) == versionRequest[<<r.model, r.key>>] = None

\* MUTANT of GenerationStamp: the field is not written.
GenerationUnset(r) == None

\* The generation a new version is pinned to: its mesh's, or 0 without a mesh.
GenerationStamp(r) == IF r.mesh = None THEN 0 ELSE mesh[r.mesh].generation

\* create_weight_version.lua: reserve the key, pin the mesh generation.
CreateWeightVersion(v, r) ==
  /\ r.base # None => r \in checkedDelta
  /\ FreshRequest(r)
  /\ version[v] = None
  /\ r.mesh # None => mesh[r.mesh] # None /\ mesh[r.mesh].model = r.model
  /\ version' = [version EXCEPT ![v] =
       [key |-> r.key, model |-> r.model, mesh |-> r.mesh, s3 |-> r.s3,
        base |-> r.base, state |-> r.state,
        generation |-> GenerationStamp(r)]]
  /\ meshVersions' = [m \in Mesh |-> IF m = r.mesh THEN meshVersions[m] \cup {v}
                                                   ELSE meshVersions[m]]
  /\ versionRequest' = [versionRequest EXCEPT ![<<r.model, r.key>>] = v]
  /\ checkedDelta' = checkedDelta \ {r}
  /\ UNCHANGED <<registration, mesh, pins, meshRequest, shards, leaseVars>>

\* DeleteWeightVersion: update_weight_version_state.lua with target RELEASING.
DeleteWeightVersion(v) ==
  /\ version[v] # None
  /\ version[v].state \in {"STAGING", "READY"}
  /\ version' = [version EXCEPT ![v].state = "RELEASING"]
  /\ UNCHANGED <<registration, meshVars, versionRequest, checkedDelta, shards, leaseVars>>

\* UpdateWeightVersionState: refused for mesh-backed versions; otherwise
\* STAGING to READY for object storage, or to RELEASING.
UpdateWeightVersionState(v, target) ==
  /\ version[v] # None
  /\ version[v].mesh = None
  /\ \/ version[v].state = "STAGING" /\ target = "READY" /\ version[v].s3
     \/ version[v].state \in {"STAGING", "READY"} /\ target = "RELEASING"
  /\ version' = [version EXCEPT ![v].state = target]
  /\ UNCHANGED <<registration, meshVars, versionRequest, checkedDelta, shards, leaseVars>>

-----------------------------------------------------------------------------
(* Shard publications                                                      *)

\* MUTANTS of CurrentGeneration, KeyAgrees and PinAgrees: the check is dropped.
AnyGeneration(v, m) == TRUE
KeyUnchecked(p) == TRUE
PinUnchecked(p, m) == TRUE

\* MESH_GENERATION_MISMATCH: v was created under the present generation of m.
CurrentGeneration(v, m) == version[v].generation = mesh[m].generation

SameKey(p, q) == p.version = q.version /\ p.worker = q.worker /\ p.shard = q.shard

\* SHARD_CONFLICT: what is stored under the key of p is p.
KeyAgrees(p) == \A q \in shards : SameKey(p, q) => q = p

\* STABLE_METADATA_MISMATCH: the digest pinned for this worker and shard is p's.
PinAgrees(p, m) ==
  \A q \in pins : q.mesh = m /\ q.worker = p.worker /\ q.shard = p.shard
                    => q.stable = p.stable

\* The checks of create_weight_version_shard.lua on publication p in mesh m.
PublicationAdmitted(p, m) ==
  /\ version[p.version] # None
  /\ version[p.version].mesh = m
  /\ version[p.version].state \in {"STAGING", "READY"}
  /\ ~version[p.version].s3
  /\ mesh[m] # None
  /\ CurrentGeneration(p.version, m)
  /\ mesh[m].workers[p.worker] = [shard |-> p.shard, endpoint |-> p.endpoint]
  /\ LiveTrainer(p.worker, version[p.version].model, p.endpoint)
  /\ KeyAgrees(p)
  /\ PinAgrees(p, m)

\* create_weight_version_shard.lua: pin the digest, store the publication, and
\* make the version READY when as many shards are covered as the mesh has.
CreateWeightVersionShard(p, m) ==
  /\ PublicationAdmitted(p, m)
  /\ shards' = {q \in shards : ~SameKey(p, q)} \cup {p}
  /\ pins' = {q \in pins : ~(q.mesh = m /\ q.worker = p.worker /\ q.shard = p.shard)}
               \cup {[mesh |-> m, worker |-> p.worker, shard |-> p.shard,
                      stable |-> p.stable]}
  /\ version' = IF Cardinality(Covered(p.version, m, shards')) = Cardinality(mesh[m].shards)
                THEN [version EXCEPT ![p.version].state = "READY"]
                ELSE version
  /\ UNCHANGED <<registration, mesh, meshVersions, meshRequest, versionRequest,
                 checkedDelta, leaseVars>>

\* delete_weight_version_shard.lua, DELETED: no lease is left after the purge.
DeleteWeightVersionShard(p) ==
  /\ p \in shards
  /\ registration[p.worker] # None
  /\ ActiveLeases(p.version) = {}
  /\ leaseIndex' = Purge({p.version})
  /\ shards' = shards \ {p}
  /\ UNCHANGED <<registration, meshVars, versionVars, lease, leaseDue>>

\* delete_weight_version_shard.lua, VERSION_LEASED: only the purge happens.
DeleteWeightVersionShardLeased(p) ==
  /\ p \in shards
  /\ registration[p.worker] # None
  /\ ActiveLeases(p.version) # {}
  /\ leaseIndex' = Purge({p.version})
  /\ UNCHANGED <<registration, meshVars, versionVars, shards, lease, leaseDue>>

-----------------------------------------------------------------------------
(* Version leases                                                          *)

\* MUTANT of LeaseGranted: the holder of an existing lease is not compared.
LeaseGrantedToAnyone(v, w, l) ==
  \/ lease[l] # None /\ version[v].state \in {"READY", "RELEASING"}
  \/ lease[l] = None /\ version[v].state = "READY"

\* Renewal by the holder while READY or RELEASING, a new lease while READY; the
\* id held by another worker is LEASE_CONFLICT.
LeaseGranted(v, w, l) ==
  \/ lease[l] = w /\ version[v].state \in {"READY", "RELEASING"}
  \/ lease[l] = None /\ version[v].state = "READY"

\* register_version_lease.lua: a live generator of the model acquires or renews.
RegisterVersionLease(v, w) ==
  LET l == <<v, LeaseIdOf[<<v, w>>]>>
  IN  /\ version[v] # None
      /\ registration[w] # None
      /\ registration[w].role = "GENERATOR"
      /\ registration[w].model = version[v].model
      /\ LeaseGranted(v, w, l)
      /\ lease' = [lease EXCEPT ![l] = w]
      /\ leaseIndex' = leaseIndex \cup {l}
      /\ leaseDue' = leaseDue \ {l}
      /\ UNCHANGED <<registration, meshVars, versionVars, shards>>

\* delete_version_lease.lua: only the holder may release an existing lease; an
\* absent one is only taken off the index.
DeleteVersionLease(v, w, id) ==
  LET l == <<v, id>>
  IN  /\ lease[l] \in {w, None}
      /\ lease' = [lease EXCEPT ![l] = None]
      /\ leaseIndex' = leaseIndex \ {l}
      /\ leaseDue' = leaseDue
      /\ UNCHANGED <<registration, meshVars, versionVars, shards>>

\* Redis time reaches the deadline a lease was given: its index entry is now
\* within the purged range while its hash still answers for one tick.
LeaseDeadline(l) ==
  /\ lease[l] # None
  /\ l \notin leaseDue
  /\ leaseDue' = leaseDue \cup {l}
  /\ UNCHANGED <<registration, meshVars, versionVars, shards, lease, leaseIndex>>

\* PEXPIRE removes the hash of a lease whose deadline has passed.
LeaseExpire(l) ==
  /\ lease[l] # None
  /\ l \in leaseDue
  /\ lease' = [lease EXCEPT ![l] = None]
  /\ UNCHANGED <<registration, meshVars, versionVars, shards, leaseIndex, leaseDue>>
-----------------------------------------------------------------------------
Init ==
  /\ registration = [w \in Worker |-> None]
  /\ mesh = [m \in Mesh |-> None]
  /\ pins = {}
  /\ meshVersions = [m \in Mesh |-> {}]
  /\ meshRequest = [k \in Model \X Key |-> None]
  /\ version = [v \in Version |-> None]
  /\ versionRequest = [k \in Model \X Key |-> None]
  /\ shards = {}
  /\ lease = [l \in Version \X LeaseId |-> None]
  /\ leaseIndex = {}
  /\ leaseDue = {}
  /\ checkedDelta = {}

WorkerNext ==
  \E w \in Worker : ExpireWorker(w) \/ \E r \in WorkerMetadata[w] : RegisterWorker(w, r)

MeshNext ==
  \E m \in Mesh :
    \/ DeleteTrainerMesh(m)
    \/ DeleteTrainerMeshInUse(m)
    \/ \E ws \in Memberships :
         \/ UpdateTrainerMesh(m, ws)
         \/ UpdateTrainerMeshLeased(m, ws)
         \/ \E model \in Model, k \in Key : CreateTrainerMesh(m, model, k, ws)

VersionNext ==
  \/ \E r \in VersionRequest :
       CheckDeltaBase(r) \/ \E v \in Version : CreateWeightVersion(v, r)
  \/ \E v \in Version :
       \/ DeleteWeightVersion(v)
       \/ \E target \in VersionState : UpdateWeightVersionState(v, target)

ShardNext ==
  \/ \E p \in Publication, m \in Mesh : CreateWeightVersionShard(p, m)
  \/ \E p \in shards : DeleteWeightVersionShard(p) \/ DeleteWeightVersionShardLeased(p)

LeaseNext ==
  \/ \E v \in Version, w \in Worker :
       \/ RegisterVersionLease(v, w)
       \/ \E id \in LeaseId : DeleteVersionLease(v, w, id)
  \/ \E l \in Version \X LeaseId : LeaseDeadline(l) \/ LeaseExpire(l)

Next == WorkerNext \/ MeshNext \/ VersionNext \/ ShardNext \/ LeaseNext

Spec == Init /\ [][Next]_vars

-----------------------------------------------------------------------------
(* Properties                                                              *)

\* Type correctness of the keyspace.
TypeOK ==
  /\ registration \in [Worker -> Registration \cup {None}]
  /\ mesh \in [Mesh -> MeshRecord \cup {None}]
  /\ pins \subseteq Pin
  /\ meshVersions \in [Mesh -> SUBSET Version]
  /\ meshRequest \in [Model \X Key -> Mesh \cup {None}]
  /\ version \in [Version -> VersionRecord \cup {None}]
  /\ versionRequest \in [Model \X Key -> Version \cup {None}]
  /\ shards \subseteq Publication
  /\ lease \in [Version \X LeaseId -> Worker \cup {None}]
  /\ leaseIndex \subseteq Version \X LeaseId
  /\ leaseDue \subseteq Version \X LeaseId
  /\ checkedDelta \subseteq VersionRequest

\* A generator holds an unexpired lease on v.
Leased(v) == \E id \in LeaseId : lease[<<v, id>>] # None /\ <<v, id>> \notin leaseDue

\* A version a mesh still links, as its publications and its mesh see it.
Linked(v, m) == mesh[m] # None /\ v \in meshVersions[m]

\* While a generator holds an unexpired lease on a version, no step of any
\* other actor takes away or changes a publication of that version: not a
\* shard deletion, not a mesh update, whatever purges the index in between.
LeaseProtectsPublications ==
  [][\A v \in Version : Leased(v) => PublicationsOf(v) \subseteq shards']_vars

\* While a linked version is leased, its mesh keeps its generation and exists.
LeaseFreezesMesh ==
  [][\A m \in Mesh, v \in Version :
       Linked(v, m) /\ Leased(v) => mesh'[m] = mesh[m]]_vars

PublisherIsMember(p) ==
  LET m == version[p.version].mesh
  IN  /\ version[p.version] # None /\ m # None
      /\ Linked(p.version, m)
      /\ mesh[m].workers[p.worker] = [shard |-> p.shard, endpoint |-> p.endpoint]

\* Every publication of a version belongs to a worker that is, in the present
\* membership of the version's mesh, bound to that shard at that endpoint: the
\* retirement rules of update_trainer_mesh.lua leave no stray publication, also
\* for the versions of earlier generations.
PublishersAreMembers == \A p \in shards : PublisherIsMember(p)

\* Within one mesh generation a worker publishes one stable metadata digest per
\* shard, across all versions: a generator may reuse the stable metadata it
\* fetched for an earlier version of the generation.
StableWithinGeneration ==
  \A p, q \in shards :
    /\ p.worker = q.worker /\ p.shard = q.shard
    /\ version[p.version].mesh = version[q.version].mesh
    /\ version[p.version].generation = version[q.version].generation
    => p.stable = q.stable

\* A publication key holds one value at a time, and what a step leaves at a key
\* it found there unchanged: a reader's checksums stay those it verified.
PublicationsImmutable ==
  [][\A p \in shards, q \in shards' : SameKey(p, q) => p = q]_vars

\* A mesh-backed version becomes READY only at a moment when every logical shard
\* of its mesh has a publication by a live, correctly bound member.
ReadyMeansCovered ==
  [][\A v \in Version :
       /\ version[v] # None /\ version[v].mesh # None
       /\ version[v].state # "READY" /\ version'[v].state = "READY"
       => \A s \in mesh[version[v].mesh].shards :
            \E p \in shards' :
              /\ p.version = v /\ p.shard = s
              /\ mesh[version[v].mesh].workers[p.worker] =
                   [shard |-> s, endpoint |-> p.endpoint]
              /\ LiveTrainer(p.worker, version[v].model, p.endpoint)]_vars

\* A version whose mesh has moved on to a later generation gains no publication
\* and does not become READY.
SupersededVersionsFrozen ==
  [][\A m \in Mesh, v \in Version :
       Linked(v, m) /\ version[v].generation # mesh[m].generation
       => /\ {p \in shards' : p.version = v} \subseteq shards
          /\ version'[v].state = "READY" => version[v].state = "READY"]_vars

\* A mesh-backed version that its mesh no longer links (the mesh was deleted) is
\* RELEASING and has no publication left; a later mesh under the same id does
\* not revive it.
UnlinkedVersionsInert ==
  \A v \in Version :
    version[v] # None /\ version[v].mesh # None
      => \/ Linked(v, version[v].mesh)
         \/ version[v].state = "RELEASING" /\ PublicationsOf(v) = {}

\* The logical shards recorded when a mesh was created are the ones its present
\* members hold, through any number of membership updates.
MeshKeepsShards ==
  \A m \in Mesh : mesh[m] # None => ShardsOf(mesh[m].workers) = mesh[m].shards

\* Retries of a create request under one idempotency key make one version.
OneVersionPerRequest ==
  \A u, v \in Version :
    /\ version[u] # None /\ version[v] # None
    /\ version[u].model = version[v].model /\ version[u].key = version[v].key
    => u = v

\* An unexpired lease stays in its version's lease index: no purge, conflict or
\* late release by another worker under a colliding lease id drops it.
LeasesIndexed ==
  \A l \in Version \X LeaseId : lease[l] # None /\ l \notin leaseDue => l \in leaseIndex

\* A lease whose deadline has not passed is never handed to another worker, even
\* when the truncated lease ids of two generators collide.
LeaseNotTaken ==
  [][\A l \in Version \X LeaseId :
       lease[l] # None /\ l \notin leaseDue => lease'[l] \in {lease[l], None}]_vars
=============================================================================
