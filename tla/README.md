# Verification of ModelExpress

ModelExpress serves model weights to inference fleets. This directory holds TLA+
models of its server, of the cache and download code it shares with the Rust
client, and of the P2P publisher of the Python client; TLC configurations that
check small instances of them; and TLAPS proofs that hold for every instance.
Paths below are relative to the repository.

## 1. The system

One server binary (`modelexpress_server`) runs as several replicas over a shared
store (Redis or Kubernetes objects). Clients are Rust, Python, and the inference
and training engines that embed the Python client. Replicas share nothing except
the store and, in some deployments, a cache volume.

* **Refit control plane** (`server/src/refit`): worker registrations, trainer
  meshes, weight versions, shard publications and version leases. Each operation is
  one Lua script; the handlers read and check before and after it.
* **Collective control plane** (`server/src/refit_collective`): the epoch and the
  state of a group, its participants, lane bootstraps and transfers.
* **Model registry and download service** (`registry`, `services.rs`): one record
  per entry with a fenced claim; `EnsureModelDownloaded` streams, download tasks and
  the channels that wait for them.
* **Cache** (`cache.rs`, `common/src/providers`): eviction, and the four providers
  (Hugging Face, NGC, GCS, S3) that install into it and delete from it.
* **P2P metadata plane** (`p2p`) with its reaper, and the publisher thread of a
  worker (`metadata/publisher.py`).
* **The server around them**: start-up and shutdown, TLS, authentication, metrics,
  lazily connected backends.
* **The Rust client** (`client/src/lib.rs`): a request with its file stream and its
  fallback to a direct download.

Requests reach any replica. A replica holds no state of the refit, collective and
P2P planes: concurrency there is the order in which scripts, pipelines and API calls
run in the store, and what a handler or a client does on an answer that is out of
date. The download service also has tasks and channels in each replica and files on a
volume, which several replicas may mount.

`PROJECT.json` lists every part with its status, the lines each definition
translates, and each hazard at the line where it bites.

## 2. Modules

| module | models | code |
|---|---|---|
| `RefitControl` | the refit keyspace and its scripts | `refit/backend/redis/scripts/*.lua` |
| `RefitCalls` | what handlers and backend read and check around the scripts | `refit/service.rs`, `refit/backend/redis.rs` |
| `CollectiveGroup` | one collective group and its scripts | `refit_collective/backend/redis/scripts/*.lua` |
| `DownloadClaim` | what every registry promises of one entry: a fenced claim | `registry/backend.rs`, `services.rs` |
| `DownloadRegistry` | one entry over several replicas: requests, tasks, caches, evictions | `services.rs`, `registry/backend/redis.rs`, `cache.rs` |
| `KubernetesRegistry` | the claim as API calls guarded by `resourceVersion`; name-only objects of older servers | `registry/backend/kubernetes.rs` |
| `MemoryRegistry` | the claim in one process | `registry/backend/memory.rs` |
| `CacheEviction` | the eviction loop over entries that share snapshots | `cache.rs` |
| `EntryKeys`, `ModelNames` | keys of registry entries; names and directories of cached models | `registry/entry_key.rs`, `common/src/cache.rs`, the providers |
| `HuggingFaceCache` | snapshots, refs and blobs of one repository | `providers/huggingface.rs` |
| `GcsDownload`, `NgcDownload`, `S3Download` | the other providers' downloads and deletions | `providers/gcs.rs`, `providers/gcs/*`, `providers/ngc.rs`, `providers/s3.rs` |
| `ModelRequest` | one request of the Rust client with the server's file stream | `client/src/lib.rs`, `services.rs` |
| `P2PMetadata` | the workers of one source over Redis, their publisher threads, the reapers | `p2p/*`, `metadata/publisher.py`, `metadata/publish.py` |
| `P2PKubernetes` | the same records as objects and ConfigMaps | `p2p/backend/kubernetes.rs` |
| `P2PService`, `SourceIdentity` | ownership and listing limits of the service; source ids | `p2p/service.rs`, `p2p/source_identity.rs` |
| `LazyConnection` | callers of a state manager that is not connected yet | `registry/state.rs`, `p2p/state.rs` |
| `ServerLifecycle` | start-up, drain and shutdown | `server.rs` and the background tasks |
| `CallerAuth` | token reviews and their cache | `auth.rs`, `auth/*` |
| `TlsPolicy`, `TlsListener` | cipher and group policies; the accept loop | `common/src/tls.rs`, `tls.rs`, `tls/*` |
| `CallMetrics`, `FlowAccounting` | gauges and counters under cancellation; the download flow counters | `metrics/*`, the `instrumented.rs` decorators |
| `*Proofs` | theorems and their proofs (section 4) | |
| `MC*` | small instances for TLC (section 3) | |

Operators whose comment begins with MUTANT are plausible mistakes in the definition
they precede; each stands for a bug that one of the properties detects.

How state and actions correspond to the code:

* **RefitControl.** The variables are the keys. A script runs atomically and is one
  action. CreateWeightVersion of a delta reads its base before the script runs and
  takes two actions. A registration may expire at any moment; a lease passes its
  deadline (`LeaseDeadline`) before its hash disappears (`LeaseExpire`).
* **RefitCalls** extends `RefitControl` with the calls of one replica, one store access
  per step: the check before a script, the script, the read-back that makes the
  answer, while the scripts of others run in between.
* **CollectiveGroup.** The group hash, the participants and digests by slot, the lane
  bootstraps, and the operations with their reports and reservations. Join is the
  whole script: the sweep of lapsed participants, and the withdrawal of the plan of a
  trainer that is being replaced, come before the checks that may refuse it. `cohort` is history: the workers admitted when an operation was opened.
* **DownloadClaim / DownloadRegistry.** The abstract claim has acquire, start, renew,
  lapse, publish, forget. The detailed module follows each stream through the claim
  loop and the poll loop, one registry call or cache check per step. `Entry` maps
  record and tasks to the abstract variables; a claim is spent once its task started.
* **KubernetesRegistry.** A get, a create, a patch is one step; the reply to a write of a
  claim, a reset or an adoption may be lost, and any call may fail without effect.
  A replica judges a lease by what it has itself observed (`Observe`, `Age`).
  Objects of older servers carry only the model's name; adopting one takes a create, a
  copy of the status, a delete and a read.
* **CacheEviction.** A cycle selects entries, then for each lists its siblings, deletes
  files, deletes the record; a claim, a deletion by hand or the cycle of another
  replica may come between any two of these. `raced`, `cleared`, `torn` and `late` are
  history; `late` are entries claimed after a cycle has listed the siblings it spares.
* **Providers.** A download lists, fetches file by file, installs and marks; locks,
  part files, manifests and markers are state, as are crashes and failed transfers.
  `HuggingFaceCache` has no lock, because the code has none: a blob is written in one
  step and linked in another, a deletion removes the snapshot, the refs and the blobs in
  steps of their own. The objects below a prefix of S3 or GCS are also those of the
  models above it (`Below`), so downloads of nested models write the same files. A GCS
  deletion takes no lock and removes the lock files with the directory: from then on
  the locks of downloads it met exclude nobody (`stray`). A GCS file is verified in one
  step and renamed in another.
* **ModelRequest.** Connection attempts with backoff, the status stream, the bounded
  channel of file chunks, the client's checks on each chunk; the hub's branch and the
  server's files change meanwhile. When the provider does not answer, an unpinned
  request takes a cached revision; with none cached, or pinned, it fails.
* **P2PMetadata.** A status update is a script, a publication a pipeline of four
  writes. The server stamps an update before the script runs, and the script drops it
  when the stored status is newer. A worker is published once its `ready_fn` holds, which
  it may stop doing (`ReadinessChanges`). A request is one command on its way (`rpc`); when
  its client stops waiting the command moves to `late` and may still be executed.
  A timestamp is its age, which `Tick` increases; `MaxDelay <= HeartbeatTimeout` says
  that a command does not take longer than the heartbeat timeout (30 s against 90 s).
* **P2PKubernetes.** A publication creates or reads the object, writes label, pod,
  ConfigMap and status in that order; a removal lists and deletes; the garbage
  collector takes ConfigMaps whose owner is gone.

## 3. Runs

Passing runs; each takes less than five minutes.

| run | instance | shows |
|---|---|---|
| `refit_replicas` | two replicas of a shard, a generator, two versions and generations; the mesh shrinks, grows, is deleted and created again | leases protect publications and freeze the mesh; superseded and unlinked versions stay inert; publishers are members |
| `collective_replace` | a trainer, two processes of a generator, two transfers, three epochs | READY is consistent, bootstraps are the leader's, transfers complete over the cohort they were opened for, removals move the epoch |
| `collective_conflict` | a trainer that changes and withdraws its plan, a generator that asks for another rank, two transfers | one open transfer, of the present epoch; terminal states are final; the plan source is a member |
| `download_replicas` | two replicas with a volume each, a request on each, two faults of eight kinds | the record implements `DownloadClaim`; DOWNLOADED is told only where the files have been; a record without files is about to go |
| `p2p_registration` | one worker, two reapers, two faults of eleven kinds | a registered worker is indexed; a finished one is not revived or offered; a running one is listed again; what is gone is removed |
| `registries` | both other registry backends, and every component that has to come to an end | one owner; the same claim protocol; every caller is answered |
| `control_plane` | further refit instances, refit calls, names and keys, metrics, authentication, TLS, server life | `RefitState`, `RefitSteps`, `NamesResolve`, `ServerState` |
| `data_plane` | requests, providers, eviction, a shared volume, P2P objects | `InstalledWhole`, `DeletionSparesOthers`, `TokenShared`, `SharedCache`, `P2PObjects` |

The last three are suites: `which` names the instance that moves in a behaviour, the
others stay at rest, so a state space is the sum of theirs and not the product. Each
property of a suite is a conjunction with one commented conjunct per component and
instance.

### The suites

`registries` (`MCRegistries`)

* `OneOwner`: on the Kubernetes registry an entry has one downloading owner, an
  adopted name-only object is not downloaded again, and a caller is answered for its
  own provider; concurrent callers of an unconnected manager end with one backend.
* `ClaimProtocol`: `KubernetesRegistry` and `MemoryRegistry` implement `DownloadClaim`.
* `EverySettles` (liveness): claims, requests, connections, shutdown, TLS handshakes,
  client requests and GCS and NGC downloads come to an end. The claims of a Kubernetes
  object that was touched before it had a status are excepted (see below).

`control_plane` (`MCControl`)

* `RefitState`, `RefitSteps`: READY means that live members cover every shard;
  publications are immutable; stable metadata is unique in a generation; a retried
  create makes one version; an unexpired lease is not taken. For the calls around the
  scripts: creates under one idempotency key are answered with one mesh or version; a
  retry is answered with what the first call made, except that the retry of a delta
  whose base has left READY since is refused; an update is answered with the mesh its script
  left; a listing shows every publication that stayed visible while it ran; a deletion
  removes what it read.
* `NamesResolve`: keys stand for one entry each; directories of two models are apart
  unless one of their names is folded (see below); every listed name resolves and every
  model is listed.
* `ServerState`: gauges and counters agree with what ran, also under cancellation; a
  call that met a failing backend is not counted as a success; flow counters are
  off by at most one for every transition that a deletion or a failed call hid; identities that agree up to
  case have one source id; nothing is served early and the listener outlives the drain;
  an admitted caller was vouched for; each TLS backend keeps the policy, and the two
  agree where no name is known to one of them only; failed
  handshakes are reported, with permits and channel bounded.

`data_plane` (`MCDataPlane`)

* `InstalledWhole`: what a client, the hub cache, GCS, S3 or NGC presents as installed
  is the listed files of one resolved revision. Excepted are S3 models of which another
  download has opened a file since their own began, and GCS models that were removed
  under a running download.
* `DeletionSparesOthers`: deleting or evicting one model or revision leaves the files
  of the others, also when the evictors of two replicas work at once; eviction takes
  the least recently used and leaves no orphan.
* `TokenShared`: an NGC token is refreshed at most once per expiry.
* `SharedCache`: two replicas on one volume; a record outlives its files only inside
  an eviction; one download at a time.
* `P2PObjects`: what the Kubernetes P2P backend keeps, offers, lists and scopes.

Some properties hold only while certain faults have not happened (`faults` counts
them by kind); each names the ones it excludes.

### Disagreements between the code and what it says of itself

The quotations are in `PROJECT.json`, under `findings`.

| run | what happens |
|---|---|
| `collective_refused_join` | a join sweeps a lapsed participant of a bootstrapped epoch and is then refused: the epoch does not move, and a replacement is admitted into it |
| `download_stale_clear` | two requests find the same DOWNLOADED record without files; the second deletes the claim of the first |
| `huggingface_reclaim` | a deletion removes a blob that a download has written and not linked yet; the link dangles |
| `p2p_lost_demotion` | a demotion answered with a failure is taken for done; the worker stays READY with its agent down |

### Behaviours of the code that the models also have

They narrow the properties above.

* Refit: the base of a delta is checked before the create script runs, so it may be
  RELEASING when the delta is stored; an update or create may be answered NOT_FOUND
  although it was applied, if the mesh is deleted before the read-back; listing the
  shards of a version checks only the registration's endpoint; a retried create of a
  delta is answered FAILED_PRECONDITION, although its version exists, once the base has
  left READY.
* P2P over Redis: a record starts as UNKNOWN, which the reaper ignores, so a worker
  killed before its first heartbeat leaves a record that nothing removes
  (`GoneIsForgotten` speaks of READY and STALE records). The reaper removes a worker
  it listed as STALE even if it has become READY since.
* P2P over Kubernetes: an object without a status is never reaped; the sweep of a
  removal can take the tensors of a newer publication; an ownership check and the
  write it protects are two calls.
* Registry: during the adoption of a name-only object a lookup by name can miss; a
  failed copy leaves an object without a status. A touch of an object without a status
  gives it one whose phase is empty; it reads as DOWNLOADING, and the take-over patch,
  which tests for the phase DOWNLOADING, fails for ever. A connect of the P2P manager replaces
  the backend whether or not another caller has set one.
* Eviction: evictors of two replicas can orphan a shared snapshot; an entry claimed
  between the listing of the siblings and the deletion of the files loses what it finds
  there; a threshold beyond
  the range of the date type expires everything; deleting the records of a model leaves
  its files.
* Providers: GCS retries fail when a pinned generation is gone, and files kept after a
  damaged manifest may be of an older generation; nested GCS models are admitted
  concurrently; a GCS or NGC deletion takes no lock, and downloads that a GCS deletion
  meets may then write one partial file together or rename a file that is not the one
  they verified; an S3 marker survives a failed download over it, and the download of a
  model above or below truncates files of an installed one; the hub cache serves a
  partial snapshot while offline, and the deletion of a revision looks for refs in one
  directory only, so that a ref with a slash in its name (`pr/1`) stays behind, although
  the comment there (`huggingface.rs:842`) says that no ref to the removed snapshot does.
* Names: an S3 bucket "." or ".." is accepted and its directory folds into another's;
  the hub names `o--x/y` and `o/x--y` have one directory.
* Client: a file emptied before it is streamed is skipped without an error.
* Metrics and TLS: a download's flow counters are not balanced on every path; collective
  refit methods are labelled "other"; OpenSSL refuses an unsupported TLS 1.2 cipher list
  that rustls ignores, and the two know different groups and ciphers, so a policy
  may be refused by one and kept by the other; the accept loop retries without a pause.

### Bounds

* Sets of replicas, versions, keys, operations and processes have the two elements it
  takes to conflict. Symmetry is declared only in runs of safety properties.
* `MaxGeneration` and `MaxEpoch` (2 or 3) allow a superseded generation or epoch and
  the return to an earlier membership.
* `MaxClaims` bounds the claims of a request; instances with liveness have more than
  their faults let a request use, so the bound does not end it.
* `MaxFaults` (`budget`) bounds what the environment does: one or two crashes, lost
  replies, failed transfers, deletions. Two are what a race between a request and its
  owner needs. The safety theorems hold for any number.
* P2P ages: heartbeat timeout 1, collection timeout 2, `MaxAge` 3 keep the order of
  90 s, 3600 s and "older than both". The P2P run has one worker: workers share only
  the index hash, and the theorems hold for any number.
* Files, revisions and models come in twos, of which one file is shared; chunk and
  channel sizes are 1 or 2; names in `EntryKeys` are all the short
  ones over an alphabet that has the separators; those of `ModelNames` are chosen by
  shape: dots, empty parts, the separators of each provider, and names that fold.

### Fairness

Only `p2p_registration` and `registries` use fairness, weak everywhere; faults are
never fair. `P2PMetadata`: publisher threads and reapers loop on timers, Redis executes
what was sent, and time passes; a worker is not assumed to exit, nor an agent to
recover. `registries`: each caller, replica and task is a tokio task that awaits a call
or a timer and takes its next step; a lease that nobody renews runs out; a TLS
handshake has a timeout.

### Deadlock

`P2PMetadata` is checked for deadlock. The other instances serve requests, and stop
when their bounded requests are answered.

## 4. Proofs

Every theorem holds for all values of the constants that satisfy the named `ASSUME`s
of its module or, for components that are instantiated, their `WellFormed`. The
assumptions say that `None` is not a value, that parameters have their types, and the
few facts of the code that are named below. TLC evaluates each on every instance.

| module | theorem | property |
|---|---|---|
| `RefitControlProofs` | `TypeCorrect` | `TypeOK` |
| | `LeasesAlwaysIndexed`, `LeaseProtection`, `LeaseFreeze`, `LeasesKept` | `LeasesIndexed`, `LeaseProtectsPublications`, `LeaseFreezesMesh`, `LeaseNotTaken` |
| | `PublishersRemainMembers`, `UnlinkedStayInert`, `SupersededStayFrozen` | `PublishersAreMembers`, `UnlinkedVersionsInert`, `SupersededVersionsFrozen` |
| | `CreationIdempotent`, `PublicationsKept`, `ShardsKept` | `OneVersionPerRequest`, `PublicationsImmutable`, `MeshKeepsShards` |
| | `ReadyOnlyWhenCovered`, `StableMetadataAgrees` | `ReadyMeansCovered`, `StableWithinGeneration` |
| `CollectiveGroupProofs` | `TypeCorrect` | `TypeOK` |
| | `OperationsFenced`, `OneTransferAtATime`, `TerminalStatesFinal`, `PlanSourceAdmitted` | `OpenOpsCurrent`, `OneOpenOp`, `TerminalIsFinal`, `PlanSourceIsMember` |
| | `RemovalsAdvanceEpoch`, `BootstrapsByLeader`, `ReadyGroupsConsistent`, `OpenCohortsIntact`, `CompletionIsUnanimous` | `RemovalAdvancesEpoch`, `BootstrapByLeader`, `ReadyIsConsistent`, `OpenCohortIntact`, `CompleteMeansWholeCohort`, under `QuietRefusals` |
| | `ConsistentJoinsSuffice` | `ConsistentJoins` implies `QuietRefusals` |
| `DownloadRegistryProofs` | `TypeCorrect`, `ClaimsUsedOnce`, `ImplementsClaimProtocol` | `TypeOK`, `FreshIds`, the refinement of `DownloadClaim` |
| | `AnswersFromOwnCache`, `StaleRecordsAreTransient` | `ServedFromCache`, `StaleOnlyWhileEvicting` |
| | `RequestInstallsResolved`, `RequestInstallsListed`, `RequestLeavesOneUnfinished`, `RequestBypassesUnconnected` | the four safety properties of `ModelRequest` |
| `P2PMetadataProofs` | `TypeCorrect`, `RegisteredAlwaysIndexed`, `RetiredForever`, `GoneNeverListed`, `DownUntilRecovered` | `TypeOK`, `RegisteredIsIndexed`, `RetiredStaysDown`, `GoneIsNotListed`, `DownWhileAnswered` |
| `KubernetesRegistryProofs` | `TypeCorrect`, `OneDownloader`, `OwnAnswers`, `AdoptedOnce` | `TypeOK`, `SingleOwner`, `AnsweredForOwnProvider`, `AdoptedNotRepeated` |
| | `ObjectsAreClaims` | the refinement of `DownloadClaim` |
| `ServerProofs` | `MemoryImplementsClaims` | `MemoryRegistry` refines `DownloadClaim` |
| | `OneConnection`, `AdmissionsAreVouched` | `OneBackend`, `AdmittedIsVouched` |
| | `PublicationsStand`, `TensorsBelong`, `OwnersStay` | `PublicationKept` and `ReadyAgrees`, `TensorsKept` and `ReadsOnePublication`, `OwnerKept` of `P2PKubernetes` |
| `ProviderProofs` | `S3InstalledWhole`, `GcsInstalledWhole`, `NgcInstalledWhole` | `InstalledWhole` of each provider |
| | `GcsDeletionSparesOthers`, `NgcRefreshedOnce` | `DeletionSparesOthers`, `RefreshedOnce` |
| `CacheProofs` | `EvictionSparesSurvivors`, `EvictionLeavesNoOrphans` | `SurvivorsWhole`, `NoOrphans` of `CacheEviction` |
| | `HubInstalledWhole`, `HubDeletionSparesOthers` | `InstalledWhole`, `DeletionSparesOthers` of `HuggingFaceCache` |

The arguments:

* **RefitControl.** A script that removes or rebinds a publication consults the lease
  index, so a lease protects as long as it is indexed, and the lease theorems are facts
  about single steps under `LeasesIndexed`. `PublishersAreMembers` is not inductive: a
  publication refers to a version, the version to a mesh, the mesh to its versions.
  `MembershipInv` adds that the links agree and that unlinked versions have no
  publications. `StableWithinGeneration` needs `StableInv`: no version is ahead of its
  mesh, and the digest of every publication of the present generation is pinned.
* **CollectiveGroup.** `OpInv` joins `OpenOpsCurrent` and `OneOpenOp`: a move of the
  epoch aborts what is in the active set, which is all that is open because an open
  operation is in it. A join, admitted or refused, leaves no plan source that is not a
  participant (`JoinedSourceChoice`). What follows a removal holds only if a refused join sweeps
  nobody (`QuietRefusals`): the run `collective_refused_join` shows the code breaking
  it. `ConsistentJoinsSuffice` discharges it where every slot is asked for at one rank,
  every rank by one slot, and every process asks for one slot; `collective_replace` is
  such an instance. The cohort
  theorems then follow the members of an open operation through reports and refreshes.
* **DownloadRegistry.** The refinement needs that a request's next claim id is unused:
  `Inv` is `TypeOK` with `FreshIds`, and each action maps to one of `DownloadClaim` or
  to a stutter. `StaleInv` adds to `StaleOnlyWhileEvicting` that the files an owner has
  fetched are there, or went in an eviction that is about to take the owner's record.
* **ModelRequest.** `ReqInv`: the server's task and every chunk under way speak of the
  resolved revision and of the listed sizes; a listed file is still to be sent, or some
  of it is on its way or has arrived; what is received is whole except for one file.
* **P2PMetadata.** A late heartbeat is harmless because it is older than what is
  stored. `WorkerInv` orders the stored READY, the late command, the pending request
  and the end of the worker. `DownWhileAnswered` adds what a demoted thread may still
  have under way.
* **KubernetesRegistry.** A patch applies only at the version that was read, and then
  what was read is still what the object holds (`ReadInv`). `QuietInv`: while no lease is
  judged late and nothing is deleted, an object is attended by one caller, no replica
  has seen its status for a whole lease, and whoever judged it lapsed has read an older
  version. `AdoptInv` follows a name-only object to the object that replaces it. The
  refinement maps objects and owners to the abstract claim, one provider at a time.
* **Memory, connections, authentication.** `MemoryInv`: a lease is there while the
  record says DOWNLOADING and only then. `ConnectionInv`: whoever builds holds the write
  guard and finds nothing there; the P2P manager's `connect` does not check again, so
  `LazyConnection`'s `WellFormed` asks for a re-check or one starter. `AuthInv`: an
  admitted call has a token with the right audience and an answer that still counts,
  and a token is under review by one call.
* **P2PKubernetes.** `ObjectInv`: a publication that nothing overlaps has the object it
  saw, and its tensors are in place before its status; a status update that read the
  object earlier is refused. `OwnersStay` supposes that every
  publication names an owner and no unowned object is present (`ObjectScoped`): the
  ownership check and the write are two calls, and a publication without an owner
  between them would be overwritten.
* **Providers.** S3: of two downloads that write a common file at once both are torn, and
  one that is not torn has its objects on disk up to the one it writes (`S3Inv`). GCS:
  while its directory has not been removed under it, a running task holds the lock of
  its file, and what it has verified is what it renames; a file belongs to a model that
  has its manifest, and is what that manifest pins; downloads that may still write a
  manifest overlap nothing (`GcsInv`).
  NGC: a running download holds the lock, has all pages once it has left the list, and
  the files of its finished tasks; a stale token that nobody refreshes has an expiry to
  answer for (`NgcInv`).
* **CacheEviction.** `EvictInv`: whatever other cycles do, a cycle has listed every sibling
  of its entry but the late ones, so the files it deletes are nobody else's; of a group
  that is not raced, one cycle works at a time, nothing it works on is downloaded again,
  the siblings it listed are still there, and before the last record of a group goes its
  files are gone.
* **HuggingFaceCache.** `HubInv`: a snapshot holds files of its commit; until a deletion
  begins nothing that was fetched goes away; and while deletions and downloads keep
  apart there is no broken link, no ref without its snapshot but those a deletion is
  about to drop and those with a slash in their names, and no blob that is neither linked nor about to be but those a deletion
  is about to sweep.

### Only model-checked

* Liveness and fairness (`EverySettles`, `RunningIsListed`, `GoneIsForgotten`): out of
  the prover's reach, as are ENABLED, induction over data and RECURSIVE operators.
* `EntryKeys`, `ModelNames`, `SourceIdentity`, `TlsPolicy`: computations over sequences
  and sets of names, checked against reference definitions over bounded inputs.
* `LeastRecentFirst` of `CacheEviction`: it compares cardinalities along an order.
* `RefitCalls`: its properties speak of the answers of calls that interleave with every
  script, and their invariant would have a case for each step of each call.
* `P2PService`, `CallMetrics`, `FlowAccounting`, `ServerLifecycle`, `TlsListener`, and
  the listing properties of `P2PKubernetes`.

## 5. Not modelled

* The Python RL clients (rendezvous, generator, trainer, staged transfers), source
  selection and the load chain, artifacts, the Kubernetes operator, reshard planning
  and lane layout; NIXL and GPU memory; glue to engines outside this repository.
* Configuration, generated code, build tooling, the CLI.
* Redis registry: timestamps, migration of legacy keys, `set_status`. `DownloadRegistry`
  has one entry; entries that share files are in `CacheEviction`.
* `P2PMetadata`: a reaper's listing is one step (in the code one read per source and
  worker); extending a published manifest and one-shot publishers are left out; one
  late command is kept per worker.
* HTTP, checksums and request signing of the providers; reading and reloading of
  certificates; exposition of metrics.
