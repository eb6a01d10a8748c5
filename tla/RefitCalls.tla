----------------------------- MODULE RefitCalls -----------------------------
(***************************************************************************)
(* The refit calls of a server replica, step by step.  RefitControl has    *)
(* the Redis scripts; the handlers of refit/service.rs and the methods of  *)
(* refit/backend/redis.rs put reads before and after them, and between two *)
(* of those steps any other replica may run any script (Store!Next).       *)
(*                                                                         *)
(* One call is followed at a time; a second one may follow it, which is    *)
(* also how a client retries a call whose answer it lost or that was       *)
(* dropped with its connection.                                            *)
(***************************************************************************)
EXTENDS Naturals, FiniteSets

CONSTANTS
  Worker, Model, Endpoint, Shard, Mesh, Version, Key, Stable, Sum, LeaseId, None,
  LeaseIdOf, WorkerMetadata, Memberships, VersionRequest, MaxGeneration,
  Calls,      \* what clients ask for
  Attempts,   \* random ids tried before a create gives up
  MaxCalls    \* bound: calls followed in a behaviour

VARIABLES
  registration, mesh, pins, meshVersions, meshRequest, version, versionRequest,
  shards, lease, leaseIndex, leaseDue, checkedDelta,   \* as in RefitControl
  initial,   \* initial_workers of a mesh, initial_state and payload_format of a version
  gone,      \* history: ids of meshes that were deleted
  call,      \* the call in progress
  made,      \* calls begun
  answers    \* what was answered

Store == INSTANCE RefitControl

storeVars == <<registration, mesh, pins, meshVersions, meshRequest, version, versionRequest,
               shards, lease, leaseIndex, leaseDue, checkedDelta>>
vars == <<storeVars, initial, gone, call, made, answers>>

-----------------------------------------------------------------------------
(* Requests                                                                *)

Format == {"UNSPECIFIED", "FULL_TENSOR", "XOR_DELTA", "FULL_HF_CHECKPOINT"}

validate_payload_format(r) ==
  /\ r.format # "UNSPECIFIED"
  /\ (r.format = "XOR_DELTA") = (r.base # None)
  /\ r.format = "FULL_HF_CHECKPOINT" => r.storage = "S3"

\* MUTANT of validate_publication: object storage and a mesh may be combined.
validate_publication_mixed(r) ==
  IF r.storage # None THEN r.storage = "S3" /\ r.state \in {"STAGING", "READY"}
  ELSE r.state = "STAGING" /\ r.mesh # None

validate_publication(r) ==
  IF r.storage # None
  THEN r.storage = "S3" /\ r.mesh = None /\ r.state \in {"STAGING", "READY"}
  ELSE r.state = "STAGING" /\ r.mesh # None

\* The request as the script of create_version_once gets it.
Stored(r) == [key |-> r.key, model |-> r.model, mesh |-> r.mesh, s3 |-> r.storage = "S3",
              base |-> r.base, state |-> r.state]

-----------------------------------------------------------------------------
(* A call's progress                                                       *)

Reads == UNCHANGED storeVars
At(op, label) == call # None /\ call.do.op = op /\ call.at = label
Go(label, got) == call' = [call EXCEPT !.at = label, !.got = got] /\ UNCHANGED <<made, answers>>
Answer(out, what) ==
  /\ call' = None
  /\ answers' = answers \cup {[do |-> call.do, out |-> out, what |-> what, before |-> call.before]}
  /\ UNCHANGED made

\* A random id was taken: another one, for so many attempts.
Collide ==
  IF call.left = 1 THEN Answer("RESOURCE_EXHAUSTED", None)
  ELSE call' = [call EXCEPT !.left = @ - 1] /\ UNCHANGED <<made, answers>>

\* "before" is history: the versions that the same request was answered with.
Of(op) == {a \in answers : a.do.op = op /\ a.out = "OK"}
Begin(d) ==
  /\ call = None /\ made < MaxCalls
  /\ made' = made + 1
  /\ call' = [do |-> d, at |-> "start", got |-> None, todo |-> {}, steady |-> {},
              left |-> Attempts, before |-> {a.what.id : a \in {b \in Of("CreateVersion") : b.do = d}}]
  /\ Reads /\ UNCHANGED answers

\* The client goes away or the replica stops: what the scripts did stays done.
Dropped == call # None /\ call' = None /\ Reads /\ UNCHANGED <<made, answers>>

-----------------------------------------------------------------------------
(* Meshes                                                                  *)

Members(ws) == {w \in Worker : ws[w] # None}

\* find_trainer_mesh_for_request reads the key, then the mesh it names.
FindKey ==
  /\ call # None /\ call.do.op = "CreateMesh" /\ call.at \in {"start", "existing"}
  /\ LET m == meshRequest[<<call.do.model, call.do.key>>]
     IN  \/ m # None /\ Go("found", m)
         \/ /\ m = None /\ call.at = "start"
            /\ call' = [call EXCEPT !.at = "workers", !.todo = Members(call.do.workers)]
            /\ UNCHANGED <<made, answers>>
         \/ m = None /\ call.at = "existing" /\ Answer("INTERNAL", None)
  /\ Reads

\* MUTANT of SameMesh: the present members are compared.
SamePresentMesh(m) == mesh[m].model = call.do.model /\ mesh[m].workers = call.do.workers

SameMesh(m) == mesh[m].model = call.do.model /\ initial[m] = call.do.workers

FindMesh ==
  /\ At("CreateMesh", "found")
  /\ LET m == call.got
     IN  IF mesh[m] # None /\ SameMesh(m)
         THEN Answer("OK", [id |-> m, mesh |-> mesh[m], made |-> 0])
         ELSE Answer("ALREADY_EXISTS", None)
  /\ Reads

\* UpdateTrainerMesh reads the mesh in the handler, and again in the backend.
GetMeshToUpdate ==
  /\ call # None /\ call.do.op = "UpdateMesh" /\ call.at \in {"start", "again"}
  /\ LET m == mesh[call.do.mesh]
     IN  \/ m = None /\ Answer("NOT_FOUND", None)
         \/ /\ m # None /\ m.generation # call.do.generation
            /\ Answer("FAILED_PRECONDITION", None)
         \/ /\ m # None /\ m.generation = call.do.generation
            /\ IF call.at = "again" THEN Go("script", m)
               ELSE /\ call' = [call EXCEPT !.at = "workers", !.got = m,
                                            !.todo = Members(call.do.workers)]
                    /\ UNCHANGED <<made, answers>>
  /\ Reads

ModelOfCall == IF call.do.op = "CreateMesh" THEN call.do.model ELSE call.got.model

\* validate_trainer_mesh_workers: one registration of its pipeline.
CheckWorker(w) ==
  /\ call # None /\ call.at = "workers" /\ w \in call.todo
  /\ IF Store!LiveTrainer(w, ModelOfCall, call.do.workers[w].endpoint)
     THEN call' = [call EXCEPT !.todo = @ \ {w}] /\ UNCHANGED <<made, answers>>
     ELSE Answer("FAILED_PRECONDITION", None)
  /\ Reads

\* validate_mesh_bindings asks the trainers of the new bindings for the metadata
\* their shard ids are digests of.
NewBindings ==
  {w \in Members(call.do.workers) :
     call.do.op = "UpdateMesh" => call.got.workers[w] # call.do.workers[w]}
CheckBindings ==
  /\ call # None /\ call.at = "workers" /\ call.todo = {}
  /\ \/ Go(IF call.do.op = "CreateMesh" THEN "script" ELSE "again", None)
     \/ NewBindings # {} /\ Answer("REFUSED", None)
  /\ Reads

\* create_trainer_mesh.lua under a random id m, and what its results lead to.
CreateMeshScript(m) ==
  /\ At("CreateMesh", "script")
  /\ LET d == call.do
         taken == meshRequest[<<d.model, d.key>>] # None
     IN  \/ taken /\ Go("existing", None) /\ Reads
         \/ ~taken /\ mesh[m] # None /\ Collide /\ Reads
         \/ /\ ~taken /\ mesh[m] = None /\ ~Store!AllRegistered(d.workers, d.model)
            /\ Answer("FAILED_PRECONDITION", None) /\ Reads
         \/ /\ Store!CreateTrainerMesh(m, d.model, d.key, d.workers)
            /\ Go("readback", [id |-> m, generation |-> 1])

\* MUTANT of Expected: the generation is only compared before the script.
ExpectedBefore(m) == TRUE

\* update_trainer_mesh.lua with the generation the caller expects.
Expected(m) == m.generation = call.do.generation
UpdateMeshScript ==
  /\ At("UpdateMesh", "script")
  /\ LET id == call.do.mesh
         m == mesh[id]
         ws == call.do.workers
     IN  \/ m = None /\ Answer("NOT_FOUND", None) /\ Reads
         \/ /\ m # None /\ ~Store!KeepsCoverage(id, ws)
            /\ Answer("INVALID_ARGUMENT", None) /\ Reads
         \/ /\ m # None /\ Store!KeepsCoverage(id, ws)
            /\ ~Expected(m) \/ ~Store!AllRegistered(ws, call.got.model)
            /\ Answer("FAILED_PRECONDITION", None) /\ Reads
         \/ /\ m # None /\ Expected(m)
            /\ Store!AllRegistered(ws, call.got.model)
            /\ \/ /\ ws = m.workers /\ Reads
                  /\ Go("readback", [id |-> id, generation |-> m.generation])
               \/ /\ Store!UpdateTrainerMesh(id, ws)
                  /\ Go("readback", [id |-> id, generation |-> m.generation + 1])
               \/ Store!UpdateTrainerMeshLeased(id, ws) /\ Answer("FAILED_PRECONDITION", None)

ReadMeshBack ==
  /\ call # None /\ call.do.op \in {"CreateMesh", "UpdateMesh"} /\ call.at = "readback"
  /\ IF mesh[call.got.id] = None THEN Answer("NOT_FOUND", None)
     ELSE Answer("OK", [id |-> call.got.id, mesh |-> mesh[call.got.id],
                        made |-> call.got.generation])
  /\ Reads

-----------------------------------------------------------------------------
(* Versions                                                                *)

\* The handler of CreateWeightVersion checks the request and a delta's base.
CheckVersionRequest ==
  /\ At("CreateVersion", "start")
  /\ LET r == call.do.request
         valid == validate_payload_format(r) /\ validate_publication(r)
     IN  \/ ~valid /\ Answer("INVALID_ARGUMENT", None) /\ Reads
         \/ valid /\ r.base = None /\ Go("script", None) /\ Reads
         \/ valid /\ r.base # None /\ Store!CheckDeltaBase(Stored(r)) /\ Go("script", None)
         \/ /\ valid /\ r.base # None
            /\ IF version[r.base] = None THEN Answer("NOT_FOUND", None)
               ELSE /\ version[r.base].model # r.model \/ version[r.base].state # "READY"
                    /\ Answer("FAILED_PRECONDITION", None)
            /\ Reads

\* create_version_once under the requested or a random uid.
CreateVersionScript(v) ==
  /\ At("CreateVersion", "script")
  /\ LET r == call.do.request
         taken == versionRequest[<<r.model, r.key>>]
     IN  /\ r.uid \in {None, v}
         /\ \/ /\ taken # None
               /\ IF r.uid \notin {None, taken} THEN Answer("ALREADY_EXISTS", None)
                  ELSE Go("existing", taken)
               /\ Reads
            \/ /\ taken = None /\ version[v] # None
               /\ IF r.uid # None THEN Answer("ALREADY_EXISTS", None) ELSE Collide
               /\ Reads
            \/ /\ taken = None /\ version[v] = None /\ r.mesh # None
               /\ \/ mesh[r.mesh] = None /\ Answer("NOT_FOUND", None)
                  \/ /\ mesh[r.mesh] # None /\ mesh[r.mesh].model # r.model
                     /\ Answer("FAILED_PRECONDITION", None)
               /\ Reads
            \/ Store!CreateWeightVersion(v, Stored(r)) /\ Go("readback", v)

\* MUTANT of SameVersion: the present state is compared with the requested one.
SamePresentVersion(v, r) ==
  /\ version[v].model = r.model /\ version[v].base = r.base /\ version[v].mesh = r.mesh
  /\ version[v].s3 = (r.storage = "S3") /\ version[v].state = r.state
  /\ initial[v].format = r.format

\* MUTANT of SameVersion: the payload format is not compared.
SameVersionAnyFormat(v, r) ==
  /\ version[v].model = r.model /\ version[v].base = r.base /\ version[v].mesh = r.mesh
  /\ version[v].s3 = (r.storage = "S3") /\ initial[v].state = r.state

SameVersion(v, r) ==
  /\ version[v].model = r.model /\ version[v].base = r.base /\ version[v].mesh = r.mesh
  /\ version[v].s3 = (r.storage = "S3")
  /\ initial[v] = [state |-> r.state, format |-> r.format]

ReadVersionBack ==
  /\ call # None /\ call.do.op \in {"CreateVersion", "UpdateState"}
  /\ call.at \in {"readback", "existing"}
  /\ IF call.at = "existing" /\ ~SameVersion(call.got, call.do.request)
     THEN Answer("ALREADY_EXISTS", None)
     ELSE Answer("OK", [id |-> call.got, version |-> version[call.got]])
  /\ Reads

\* UpdateWeightVersionState, and DeleteWeightVersion with target RELEASING.
UpdateState ==
  /\ At("UpdateState", "start")
  /\ LET v == call.do.version
     IN  \/ version[v] = None /\ Answer("NOT_FOUND", None)
         \/ /\ version[v] # None
            /\ IF version[v].mesh # None /\ ~call.do.delete
               THEN Answer("FAILED_PRECONDITION", None)
               ELSE Go("script", None)
  /\ Reads
UpdateStateScript ==
  /\ At("UpdateState", "script")
  /\ LET v == call.do.version
         moves == \/ /\ version[v].state = "STAGING" /\ call.do.target = "READY"
                     /\ version[v].s3
                  \/ /\ version[v].state \in {"STAGING", "READY"}
                     /\ call.do.target = "RELEASING"
     IN  \/ version[v].state = call.do.target /\ Go("readback", v) /\ Reads
         \/ /\ version[v].state # call.do.target /\ ~moves
            /\ Answer("FAILED_PRECONDITION", None) /\ Reads
         \/ moves /\ Go("readback", v)
            /\ IF call.do.delete THEN Store!DeleteWeightVersion(v)
               ELSE Store!UpdateWeightVersionState(v, call.do.target)

\* list_weight_versions reads the ids of a mesh, or scans them all, and then
\* each version.
ListVersionIds ==
  /\ At("ListVersions", "start")
  /\ call' = [call EXCEPT !.at = "each", !.got = {},
       !.todo = IF call.do.mesh # None THEN meshVersions[call.do.mesh]
                ELSE {v \in Version : version[v] # None}]
  /\ Reads /\ UNCHANGED <<made, answers>>
ListVersion(v) ==
  /\ At("ListVersions", "each") /\ v \in call.todo
  /\ call' = [call EXCEPT !.todo = @ \ {v},
       !.got = IF /\ version[v] # None /\ version[v].model = call.do.model
                  /\ call.do.mesh \in {None, version[v].mesh}
               THEN @ \cup {[id |-> v, version |-> version[v]]} ELSE @]
  /\ Reads /\ UNCHANGED <<made, answers>>
VersionsListed ==
  /\ At("ListVersions", "each") /\ call.todo = {} /\ Answer("OK", call.got) /\ Reads

-----------------------------------------------------------------------------
(* Publications                                                            *)

\* create_weight_version_shard reads the version for the keys of its script.
PublishShard ==
  /\ At("CreateShard", "start")
  /\ LET v == version[call.do.shard.version]
     IN  IF v = None THEN Answer("NOT_FOUND", None) ELSE Go("script", v)
  /\ Reads
PublishShardScript ==
  /\ At("CreateShard", "script")
  /\ LET p == call.do.shard
         m == call.got.mesh
     IN  IF m # None /\ Store!PublicationAdmitted(p, m)
         THEN /\ Store!CreateWeightVersionShard(p, m)
              /\ Answer("OK", [call.got EXCEPT !.state = version'[p.version].state])
         ELSE Answer("REFUSED", None) /\ Reads

\* MUTANT of Unchanged: what is stored now is deleted, whatever was read.
UnchangedAnyhow(p) == {q \in shards : Store!SameKey(p, q)}

\* delete_weight_version_shard reads the publication its script compares.
Unchanged(p) == {q \in shards : q = p}
DeleteShard ==
  /\ At("DeleteShard", "start")
  /\ LET stored == {p \in shards : Store!SameKey(p, call.do.shard)}
     IN  IF stored = {} THEN Answer("NOT_FOUND", None)
         ELSE \E p \in stored : Go("script", p)
  /\ Reads
DeleteShardScript ==
  /\ At("DeleteShard", "script")
  /\ LET mine == Unchanged(call.got)
     IN  IF mine = {} \/ registration[call.do.shard.worker] = None
         THEN Answer("REFUSED", None) /\ Reads
         ELSE \E p \in mine :
                \/ /\ Store!DeleteWeightVersionShard(p)
                   /\ Answer("OK", [read |-> call.got, deleted |-> p])
                \/ /\ Store!DeleteWeightVersionShardLeased(p)
                   /\ Answer("FAILED_PRECONDITION", None)

\* A publication a listing has to show: stored, bound and with its endpoint
\* registered.
Bound(m, p) == m # None /\ m.workers[p.worker] = [shard |-> p.shard, endpoint |-> p.endpoint]
Registered(p) ==
  registration[p.worker] # None /\ registration[p.worker].endpoint = p.endpoint
Visible(p) ==
  /\ p \in shards /\ version[p.version].mesh # None
  /\ Bound(mesh[version[p.version].mesh], p) /\ Registered(p)

\* list_weight_version_shards reads the version, its publications, the mesh, and
\* the registration of each publication that is bound in it.
ListShards ==
  /\ At("ListShards", "start")
  /\ LET v == call.do.version
     IN  \/ version[v] = None /\ Answer("NOT_FOUND", None)
         \/ /\ version[v] # None
            /\ call' = [call EXCEPT !.at = "publications", !.steady = {p \in Store!PublicationsOf(v) : Visible(p)}]
            /\ UNCHANGED <<made, answers>>
  /\ Reads
ListPublications ==
  /\ At("ListShards", "publications")
  /\ LET ps == Store!PublicationsOf(call.do.version)
     IN  IF version[call.do.version].mesh = None THEN Answer("OK", [listed |-> ps, steady |-> {}])
         ELSE Go("mesh", ps)
  /\ Reads

\* MUTANT of Retain: a publication is kept only when its version is of the mesh's
\* present generation.
RetainOfGeneration(m, ps) ==
  {p \in ps : Bound(m, p) /\ version[p.version].generation = m.generation}

Retain(m, ps) == {p \in ps : Bound(m, p)}
ListMesh ==
  /\ At("ListShards", "mesh")
  /\ LET m == mesh[version[call.do.version].mesh]
     IN  IF m = None THEN Answer("NOT_FOUND", None)
         ELSE /\ call' = [call EXCEPT !.at = "registrations", !.got = {},
                                      !.todo = Retain(m, call.got)]
              /\ UNCHANGED <<made, answers>>
  /\ Reads
ListRegistration(p) ==
  /\ At("ListShards", "registrations") /\ p \in call.todo
  /\ call' = [call EXCEPT !.todo = @ \ {p},
                          !.got = IF Registered(p) THEN @ \cup {p} ELSE @]
  /\ Reads /\ UNCHANGED <<made, answers>>
ShardsListed ==
  /\ At("ListShards", "registrations") /\ call.todo = {}
  /\ Answer("OK", [listed |-> call.got, steady |-> call.steady])
  /\ Reads

-----------------------------------------------------------------------------
(* Leases                                                                  *)

RegisterLease ==
  /\ At("RegisterLease", "start")
  /\ IF version[call.do.version] = None THEN Answer("NOT_FOUND", None) ELSE Go("script", None)
  /\ Reads
RegisterLeaseScript ==
  /\ At("RegisterLease", "script")
  /\ LET v == call.do.version
         w == call.do.worker
         l == <<v, LeaseIdOf[<<v, w>>]>>
         eligible == /\ registration[w] # None /\ registration[w].role = "GENERATOR"
                     /\ registration[w].model = version[v].model
     IN  \/ Store!RegisterVersionLease(v, w) /\ Go("readback", l)
         \/ /\ ~eligible \/ ~Store!LeaseGranted(v, w, l)
            /\ Answer(IF eligible /\ lease[l] \notin {w, None} THEN "ALREADY_EXISTS"
                      ELSE "FAILED_PRECONDITION", None)
            /\ Reads
ReadLeaseBack ==
  /\ At("RegisterLease", "readback")
  /\ IF lease[call.got] = None THEN Answer("NOT_FOUND", None)
     ELSE Answer("OK", [lease |-> call.got, worker |-> lease[call.got]])
  /\ Reads

-----------------------------------------------------------------------------
CallStep ==
  \/ FindKey \/ FindMesh \/ GetMeshToUpdate \/ CheckBindings \/ UpdateMeshScript \/ ReadMeshBack
  \/ CheckVersionRequest \/ ReadVersionBack \/ UpdateState \/ UpdateStateScript
  \/ ListVersionIds \/ VersionsListed
  \/ PublishShard \/ PublishShardScript \/ DeleteShard \/ DeleteShardScript
  \/ ListShards \/ ListPublications \/ ListMesh \/ ShardsListed
  \/ RegisterLease \/ RegisterLeaseScript \/ ReadLeaseBack
  \/ \E w \in Worker : CheckWorker(w)
  \/ \E m \in Mesh : CreateMeshScript(m)
  \/ \E v \in Version : CreateVersionScript(v) \/ ListVersion(v)
  \/ call # None /\ \E p \in call.todo : ListRegistration(p)

\* The payload format of a version: as asked for in the call, or what another
\* replica was asked for.
FormatOf(v) ==
  IF At("CreateVersion", "script") /\ call' # None /\ call'.got = v THEN call.do.request.format
  ELSE IF version'[v].base # None THEN "XOR_DELTA" ELSE "FULL_TENSOR"

\* What the scripts also store with a new mesh or version.
Keep ==
  /\ initial' = [x \in Mesh \cup Version |->
       IF x \in Mesh
       THEN IF mesh'[x] = None THEN None
            ELSE IF mesh[x] = None THEN mesh'[x].workers ELSE initial[x]
       ELSE IF version'[x] # None /\ version[x] = None
            THEN [state |-> version'[x].state, format |-> FormatOf(x)] ELSE initial[x]]
  /\ gone' = gone \cup
       {m \in Mesh : mesh[m] # None /\ mesh'[m] = None}

\* Another replica runs a script.
Other ==
  /\ Store!Next
  /\ call' = IF call = None \/ call.steady = {} THEN call
             ELSE [call EXCEPT !.steady = {p \in @ : Visible(p)'}]
  /\ UNCHANGED <<made, answers>>

Init ==
  /\ Store!Init
  /\ initial = [x \in Mesh \cup Version |-> None] /\ gone = {}
  /\ call = None /\ made = 0 /\ answers = {}

Next == (Other \/ CallStep \/ Dropped \/ \E d \in Calls : Begin(d)) /\ Keep

Spec == Init /\ [][Next]_vars

-----------------------------------------------------------------------------
\* Creates under one idempotency key, retried or raced on other replicas, are
\* answered with one mesh and for one request, unless that mesh was deleted; and
\* the key a create met does not disappear under it.
MeshAnswersAgree ==
  /\ \A a, b \in Of("CreateMesh") :
       /\ a.do.model = b.do.model /\ a.do.key = b.do.key /\ a.what.id \notin gone
       => a.what.id = b.what.id /\ a.do.workers = b.do.workers
  /\ \A a \in answers : a.out # "INTERNAL"

\* A create or an update is answered with the mesh its script left: a later
\* generation when others have updated it since, and otherwise the members asked
\* for; an update is made from the generation its caller expects.
MeshAnswersHold ==
  \A a \in Of("CreateMesh") \cup Of("UpdateMesh") : a.what.id \notin gone =>
    /\ a.what.mesh.generation >= a.what.made
    /\ a.what.mesh.generation = a.what.made => a.what.mesh.workers = a.do.workers
    /\ a.do.op = "UpdateMesh" => a.what.made \in a.do.generation .. a.do.generation + 1

\* Creates under one idempotency key are answered with one version and for one
\* request, whatever happened to its state in between.
VersionAnswersAgree ==
  \A a, b \in Of("CreateVersion") :
    LET r == a.do.request
        s == b.do.request
    IN  r.model = s.model /\ r.key = s.key =>
          a.what.id = b.what.id /\ [r EXCEPT !.uid = None] = [s EXCEPT !.uid = None]

\* A request that was answered with a version and is sent again is answered with
\* it, whatever became of the version; but the retry of a delta is refused once
\* its base has left READY, for the handler looks at the base first.
RetriesAnswered ==
  \A a \in answers : \A v \in a.before :
    \/ a.out = "OK" /\ a.what.id = v
    \/ LET base == a.do.request.base
       IN  a.out = "FAILED_PRECONDITION" /\ base # None /\ version[base].state # "READY"

\* Versions live in a mesh or in object storage, and only the latter start READY.
ModesAreSound ==
  \A v \in Version : version[v] # None =>
    (version[v].mesh = None) = version[v].s3 /\ (initial[v].state = "READY" => version[v].s3)

\* A listing that races with publications, updates and expiries shows every
\* publication that stayed visible while it ran.
ListingsHold ==
  \A a \in Of("ListShards") : a.what.steady \subseteq a.what.listed

\* A deletion removes the publication it read, not one published since.
DeletesWhatItRead == \A a \in Of("DeleteShard") : a.what.deleted = a.what.read
=============================================================================
