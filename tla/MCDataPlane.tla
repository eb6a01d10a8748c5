---------------------------- MODULE MCDataPlane -----------------------------
(***************************************************************************)
(* Small instances of the components that move model files, and of the P2P *)
(* sources.                                                                *)
(***************************************************************************)
EXTENDS Naturals, Sequences, FiniteSets, TLC

CONSTANTS None, c1, c2, main, a1, b1, d1, d2, d3, e1, e2, r1, r2, q1, q2, x1, s1, s2, v1, v2

VARIABLES
  which,  \* the component that moves in this behaviour
  phase, elapsed, backoff, head, disk, resolved, srv, wire, recv, local, ref, listed,
  faults, budget,
  hubHead, refs, snapshot, blobs, made, order, dl, del, offline, overlap, hubFaults,
  hubBudget,
  gcsBucket, gcsManifest, gcsDamaged, gcsDirs, gcsDisk, gcsPart, gcsDl, gcsLock,
  gcsManifestLock, gcsRemoved, gcsStray, gcsRaced, gcsFaults, gcsBudget,
  ngcDisk, ngcTemp, ngcLock, ngcDl, fresh, refreshing, refreshes, expiries, ngcRemoved,
  ngcFaults, ngcBudget,
  s3Data, s3Marker, s3Dirs, s3Dl, s3Removed, s3Faults, s3Budget,
  evictClock, evictRecord, evictSnapshots, evictTasks, evictClaims, evictCycle, evictRaced,
  evictLate, evictCleared, evictTorn, evictFaults,
  record, requestPc, attempt, seq, told, waiting, task, cacheFiles, fetchHeld, publisher,
  evictor, downloadFaults,
  objects, configMaps, k8sClock, k8sCall, k8sLast, k8sOwned, k8sMixed,
  psEntry, psCall, psNow, psRaced

modelRequestVars == <<phase, elapsed, backoff, head, disk, resolved, srv, wire, recv, local,
  ref, listed, faults, budget>>
huggingFaceCacheVars == <<hubHead, refs, snapshot, blobs, made, order, dl, del, offline,
  overlap, hubFaults, hubBudget>>
gcsDownloadVars == <<gcsBucket, gcsManifest, gcsDamaged, gcsDirs, gcsDisk, gcsPart, gcsDl,
  gcsLock, gcsManifestLock, gcsRemoved, gcsStray, gcsRaced, gcsFaults, gcsBudget>>
ngcDownloadVars == <<ngcDisk, ngcTemp, ngcLock, ngcDl, fresh, refreshing, refreshes,
  expiries, ngcRemoved, ngcFaults, ngcBudget>>
s3DownloadVars == <<s3Data, s3Marker, s3Dirs, s3Dl, s3Removed, s3Faults, s3Budget>>
cacheEvictionVars == <<evictClock, evictRecord, evictSnapshots, evictTasks, evictClaims,
  evictCycle, evictRaced, evictLate, evictCleared, evictTorn, evictFaults>>
downloadRegistryVars == <<record, requestPc, attempt, seq, told, waiting, task, cacheFiles,
  fetchHeld, publisher, evictor, downloadFaults>>
p2PKubernetesVars == <<objects, configMaps, k8sClock, k8sCall, k8sLast, k8sOwned, k8sMixed>>
p2PServiceVars == <<psEntry, psCall, psNow, psRaced>>
vars == <<which, modelRequestVars, huggingFaceCacheVars, gcsDownloadVars, ngcDownloadVars,
  s3DownloadVars, cacheEvictionVars, downloadRegistryVars, p2PKubernetesVars, p2PServiceVars>>

-----------------------------------------------------------------------------
(* A client's request and the server's file stream.                         *)

\* A file of two units and an empty one; the other revision swaps them.
Sizes == [r \in {1, 2} |-> [f \in {"a", "b"} |-> IF (f = "a") = (r = 1) THEN 2 ELSE 0]]

\* The whole model at its branch.
OnBranch == INSTANCE ModelRequest WITH
  File <- {"a", "b"}, Rev <- {1, 2}, SizeOf <- Sizes, Pinned <- None, Selector <- None,
  Shared <- FALSE, Chunk <- 2, Capacity <- 2, ConnectWait <- 4, Parses <- TRUE,
  Fault <- {"provider", "ensure", "read", "break", "write", "branch", "cache", "empty", "other", "ref"},
  MaxFaults <- 2

\* One selected file at a pinned revision.
Pin == INSTANCE ModelRequest WITH
  File <- {"a", "b"}, Rev <- {1, 2}, SizeOf <- Sizes, Pinned <- 1, Selector <- {"a"},
  Shared <- FALSE, Chunk <- 1, Capacity <- 1, ConnectWait <- 0, Parses <- TRUE,
  Fault <- {"provider", "read", "branch", "cache"}, MaxFaults <- 2

\* Shared storage.
Share == INSTANCE ModelRequest WITH
  File <- {"a", "b"}, Rev <- {1, 2}, SizeOf <- Sizes, Pinned <- None, Selector <- None,
  Shared <- TRUE, Chunk <- 2, Capacity <- 2, ConnectWait <- 0, Parses <- TRUE,
  Fault <- {"provider", "ensure", "branch"}, MaxFaults <- 2

\* An endpoint that does not parse.
Unparsed == INSTANCE ModelRequest WITH
  File <- {"a", "b"}, Rev <- {1, 2}, SizeOf <- Sizes, Pinned <- 2, Selector <- None,
  Shared <- FALSE, Chunk <- 2, Capacity <- 2, ConnectWait <- 4, Parses <- FALSE,
  Fault <- {"provider", "branch"}, MaxFaults <- 1

\* What the proofs assume of the constants holds of these instances.
ASSUME ModelRequestAssumption == OnBranch!WellFormed /\ Pin!WellFormed /\ Share!WellFormed /\ Unparsed!WellFormed

-----------------------------------------------------------------------------
(* The Hugging Face cache.                                                  *)

HubBlobs == [c \in {c1, c2} |-> [f \in {"config", "weights"} |->
              IF f = "config" THEN "shared" ELSE IF c = c1 THEN "old" ELSE "new"]]

\* A download of a branch and one of a pinned commit, a deletion of the other
\* commit.
Hub == INSTANCE HuggingFaceCache WITH
  Commit <- {c1, c2}, Branch <- {main}, Slashed <- {}, File <- {"config", "weights"},
  BlobOf <- HubBlobs, Empty <- {}, Download <- {d1, d2},
  Wants <- [d \in {d1, d2} |-> IF d = d1 THEN main ELSE c2], Deletion <- {e1},
  Target <- [e \in {e1} |-> c1], Default <- main,
  Fault <- {"hub", "range", "network", "move", "offline"}, MaxFaults <- 1, head <- hubHead,
  faults <- hubFaults, budget <- hubBudget

\* A download of no given revision with an empty file, after which the hub is
\* out of reach; the repository and the listed files are deleted.
HubDefault == INSTANCE HuggingFaceCache WITH
  Commit <- {c1, c2}, Branch <- {main}, Slashed <- {}, File <- {"config", "weights"},
  BlobOf <- HubBlobs, Empty <- {"config"}, Download <- {d1, d2},
  Wants <- [d \in {d1, d2} |-> None], Deletion <- {e1, e2},
  Target <- [e \in {e1, e2} |-> IF e = e1 THEN None ELSE "listed"], Default <- main,
  Fault <- {"network", "hub", "offline"}, MaxFaults <- 2, head <- hubHead,
  faults <- hubFaults, budget <- hubBudget

\* Downloads of a branch and of a ref with a slash in its name, and the
\* deletion of a commit either may name.
HubSlashed == INSTANCE HuggingFaceCache WITH
  Commit <- {c1, c2}, Branch <- {main, "pr/1"}, Slashed <- {"pr/1"},
  File <- {"config", "weights"}, BlobOf <- HubBlobs, Empty <- {}, Download <- {d1, d2},
  Wants <- [d \in {d1, d2} |-> IF d = d1 THEN "pr/1" ELSE main], Deletion <- {e1},
  Target <- [e \in {e1} |-> c1], Default <- main, Fault <- {}, MaxFaults <- 0,
  head <- hubHead, faults <- hubFaults, budget <- hubBudget

\* A repository of empty files, and the deletion of a branch that may not be
\* there.
HubBare == INSTANCE HuggingFaceCache WITH
  Commit <- {c1, c2}, Branch <- {main}, Slashed <- {}, File <- {"config", "weights"},
  BlobOf <- HubBlobs, Empty <- {"config", "weights"}, Download <- {d1},
  Wants <- [d \in {d1} |-> main], Deletion <- {e1}, Target <- [e \in {e1} |-> main],
  Default <- main, Fault <- {"move", "range"}, MaxFaults <- 2, head <- hubHead,
  faults <- hubFaults, budget <- hubBudget

\* What the proofs assume of the constants holds of these instances.
ASSUME HuggingFaceCacheAssumption == Hub!WellFormed /\ HubDefault!WellFormed /\ HubSlashed!WellFormed /\ HubBare!WellFormed

-----------------------------------------------------------------------------
(* Google Cloud Storage.                                                    *)

\* A whole download and one without weights of one model; objects are replaced,
\* transfers break off, the manifest is damaged.
Gcs == INSTANCE GcsDownload WITH
  Model <- {a1}, File <- {"config", "weights"},
  Listed <- [m \in {a1} |-> {"config", "weights"}], Weights <- {"weights"},
  Generation <- {1, 2}, Below <- {}, Size <- [g \in {1, 2} |-> 2], Download <- {d1, d2},
  ModelOf <- [d \in {d1, d2} |-> a1], Metadata <- {d2}, Deletion <- {},
  Removes <- [e \in {} |-> a1], Fault <- {"network", "replace", "damage"}, MaxFaults <- 2,
  bucket <- gcsBucket, manifest <- gcsManifest, damaged <- gcsDamaged, dirs <- gcsDirs,
  disk <- gcsDisk, part <- gcsPart, dl <- gcsDl, lock <- gcsLock,
  manifestLock <- gcsManifestLock, removed <- gcsRemoved, stray <- gcsStray,
  raced <- gcsRaced, faults <- gcsFaults, budget <- gcsBudget

\* Models below one another, with a file in common, and a deletion of each.
GcsNested == INSTANCE GcsDownload WITH
  Model <- {a1, b1}, File <- {"config", "weights"},
  Listed <- [m \in {a1, b1} |-> IF m = a1 THEN {"config", "weights"} ELSE {"weights"}],
  Weights <- {}, Generation <- {1, 2}, Below <- {<<a1, b1>>}, Size <- [g \in {1, 2} |-> 1],
  Download <- {d1, d2}, ModelOf <- [d \in {d1, d2} |-> IF d = d1 THEN a1 ELSE b1],
  Metadata <- {}, Deletion <- {e1, e2},
  Removes <- [e \in {e1, e2} |-> IF e = e1 THEN a1 ELSE b1],
  Fault <- {"network", "replace"}, MaxFaults <- 1, bucket <- gcsBucket,
  manifest <- gcsManifest, damaged <- gcsDamaged, dirs <- gcsDirs, disk <- gcsDisk,
  part <- gcsPart, dl <- gcsDl, lock <- gcsLock, manifestLock <- gcsManifestLock,
  removed <- gcsRemoved, stray <- gcsStray, raced <- gcsRaced, faults <- gcsFaults,
  budget <- gcsBudget

\* A model of one file is deleted under two downloads of it.
GcsRemoved == INSTANCE GcsDownload WITH
  Model <- {a1}, File <- {"config"}, Listed <- [m \in {a1} |-> {"config"}], Weights <- {},
  Generation <- {1, 2}, Below <- {}, Size <- [g \in {1, 2} |-> 2], Download <- {d1, d2},
  ModelOf <- [d \in {d1, d2} |-> a1], Metadata <- {}, Deletion <- {e1},
  Removes <- [e \in {e1} |-> a1], Fault <- {"network", "replace"}, MaxFaults <- 1,
  bucket <- gcsBucket, manifest <- gcsManifest, damaged <- gcsDamaged, dirs <- gcsDirs,
  disk <- gcsDisk, part <- gcsPart, dl <- gcsDl, lock <- gcsLock,
  manifestLock <- gcsManifestLock, removed <- gcsRemoved, stray <- gcsStray,
  raced <- gcsRaced, faults <- gcsFaults, budget <- gcsBudget

\* What the proofs assume of the constants holds of these instances.
ASSUME GcsDownloadAssumption == Gcs!WellFormed /\ GcsNested!WellFormed /\ GcsRemoved!WellFormed

-----------------------------------------------------------------------------
(* NGC artifacts.                                                           *)

\* A whole download and one without weights, a deletion.
Ngc == INSTANCE NgcDownload WITH
  Page <- <<{"config", "card"}, {"weights"}>>, Weights <- {"weights"}, Concurrency <- 2,
  Download <- {d1, d2}, Metadata <- {d2}, Deletion <- {e1},
  Fault <- {"token", "refused", "list", "transfer", "crash"}, MaxFaults <- 1,
  disk <- ngcDisk, temp <- ngcTemp, lock <- ngcLock, dl <- ngcDl, removed <- ngcRemoved,
  faults <- ngcFaults, budget <- ngcBudget

\* One download through the checksum manifest, whose token expires.
NgcGated == INSTANCE NgcDownload WITH
  Page <- <<{"config", "card"}>>, Weights <- {}, Concurrency <- 2, Download <- {d1, d2},
  Metadata <- {}, Deletion <- {}, Fault <- {"token", "refused", "expiry"}, MaxFaults <- 3,
  disk <- ngcDisk, temp <- ngcTemp, lock <- ngcLock, dl <- ngcDl, removed <- ngcRemoved,
  faults <- ngcFaults, budget <- ngcBudget

\* What the proofs assume of the constants holds of these instances.
ASSUME NgcDownloadAssumption == Ngc!WellFormed /\ NgcGated!WellFormed

-----------------------------------------------------------------------------
(* S3.                                                                      *)

\* Two downloads of one model and one of a model below it, whose object is also
\* the upper model's; the upper one is deleted.
S3 == INSTANCE S3Download WITH
  Model <- {a1, b1}, Below <- {<<a1, b1>>}, File <- {"config", "vocab"},
  Object <- [m \in {a1, b1} |-> IF m = a1 THEN <<"config", "vocab">> ELSE <<"vocab">>],
  Size <- 2, Download <- {d1, d2, d3},
  ModelOf <- [d \in {d1, d2, d3} |-> IF d = d3 THEN b1 ELSE a1], Deletion <- {e1, e2},
  Removes <- [e \in {e1, e2} |-> IF e = e1 THEN a1 ELSE b1], Fault <- {"network"},
  MaxFaults <- 1, data <- s3Data, marker <- s3Marker, dirs <- s3Dirs, dl <- s3Dl,
  removed <- s3Removed, faults <- s3Faults, budget <- s3Budget

\* What the proofs assume of the constants holds of this instance.
ASSUME S3DownloadAssumption == S3!WellFormed

-----------------------------------------------------------------------------
(* Cache eviction.                                                          *)

EvictKey(tenant, revision, metadata) ==
  [tenant |-> tenant, model |-> "m", revision |-> revision, metadata |-> metadata]
SharedEntries == {EvictKey("a", "r1", FALSE), EvictKey("a", "r1", TRUE), EvictKey("a", None, FALSE)}
PairEntries == {EvictKey("a", "r1", FALSE), EvictKey("a", None, FALSE)}
ApartEntries == {EvictKey("a", "r1", FALSE), EvictKey("a", "r2", TRUE), EvictKey("b", None, FALSE)}
SnapshotOf == [e \in SharedEntries \cup ApartEntries |->
                 IF e.revision = None THEN "r1" ELSE e.revision]

\* A whole entry, one without weights and an unpinned one of one model.
Evict == INSTANCE CacheEviction WITH
  Entry <- SharedEntries, Resolved <- SnapshotOf, Evictor <- {1}, MaxModels <- 1,
  Threshold <- 1, Horizon <- 9, MaxClock <- 2, MaxClaims <- 3, Fault <- {}, MaxFaults <- 0,
  clock <- evictClock, record <- evictRecord, snapshots <- evictSnapshots,
  tasks <- evictTasks, claims <- evictClaims, cycle <- evictCycle, raced <- evictRaced,
  late <- evictLate, cleared <- evictCleared, torn <- evictTorn, faults <- evictFaults

\* Two replicas evict the entries of one model while they are claimed.
EvictBoth == INSTANCE CacheEviction WITH
  Entry <- PairEntries, Resolved <- SnapshotOf, Evictor <- {1, 2}, MaxModels <- 0,
  Threshold <- 2, Horizon <- 9, MaxClock <- 0, MaxClaims <- 3, Fault <- {}, MaxFaults <- 0,
  clock <- evictClock, record <- evictRecord, snapshots <- evictSnapshots,
  tasks <- evictTasks, claims <- evictClaims, cycle <- evictCycle, raced <- evictRaced,
  late <- evictLate, cleared <- evictCleared, torn <- evictTorn, faults <- evictFaults

\* Entries of two revisions and of two tenants, without a limit on their
\* number; calls fail.
EvictParts == INSTANCE CacheEviction WITH
  Entry <- ApartEntries, Resolved <- SnapshotOf, Evictor <- {1}, MaxModels <- None,
  Threshold <- 1, Horizon <- 9, MaxClock <- 2, MaxClaims <- 2,
  Fault <- {"list", "files", "record"}, MaxFaults <- 1, clock <- evictClock,
  record <- evictRecord, snapshots <- evictSnapshots, tasks <- evictTasks,
  claims <- evictClaims, cycle <- evictCycle, raced <- evictRaced, late <- evictLate,
  cleared <- evictCleared, torn <- evictTorn, faults <- evictFaults

\* What the proofs assume of the constants holds of these instances.
ASSUME CacheEvictionAssumption == Evict!WellFormed /\ EvictBoth!WellFormed /\ EvictParts!WellFormed

-----------------------------------------------------------------------------
(* Downloads into a cache volume that two replicas share.                   *)

\* Two requests on two replicas that share a cache, two faults.
Shared == INSTANCE DownloadRegistry WITH
  Replica <- {r1, r2}, Request <- {q1, q2}, Cache <- {x1},
  Home <- [q \in {q1, q2} |-> IF q = q1 THEN r1 ELSE r2],
  CacheOf <- [r \in {r1, r2} |-> x1], Fault <- {"crash", "reply", "late", "files", "evict"},
  MaxFaults <- 2, MaxClaims <- 2, pc <- requestPc, faults <- downloadFaults,
  files <- cacheFiles, held <- fetchHeld

-----------------------------------------------------------------------------
(* The Kubernetes backend of the P2P metadata.                              *)

\* Two publications of a worker, a status update and a read; requests of one
\* publication fail.
K8sUpdate == INSTANCE P2PKubernetes WITH
  Worker <- {"w"}, Call <- {"p1", "p2", "u1", "g1"},
  Kind <- [c \in {"p1", "p2", "u1", "g1"} |->
       IF c = "p1" THEN "publish" ELSE IF c = "p2" THEN "publish" ELSE IF c = "u1" THEN "update" ELSE "get"],
  Of <- [c \in {"p1", "p2", "u1", "g1"} |->
       IF c = "p1" THEN "w" ELSE IF c = "p2" THEN "w" ELSE IF c = "u1" THEN "w" ELSE "w"],
  Owner <- [c \in {"p1", "p2", "u1", "g1"} |->
       IF c = "p1" THEN None ELSE IF c = "p2" THEN None ELSE IF c = "u1" THEN None ELSE None],
  Pod <- [c \in {"p1", "p2", "u1", "g1"} |->
       IF c = "p1" THEN None ELSE IF c = "p2" THEN "pod" ELSE IF c = "u1" THEN None ELSE None],
  NewStatus <- [c \in {"p1", "p2", "u1", "g1"} |->
       IF c = "p1" THEN "READY" ELSE IF c = "p2" THEN "READY" ELSE IF c = "u1" THEN "STALE" ELSE None],
  Unreliable <- {"p2"}, Legacy <- {}, MaxRetries <- 2, call <- k8sCall, cr <- objects,
  cm <- configMaps, clock <- k8sClock, last <- k8sLast, owned <- k8sOwned, mixed <- k8sMixed

\* Publications for two namespaces of a worker, which is removed in between.
K8sOwner == INSTANCE P2PKubernetes WITH
  Worker <- {"w"}, Call <- {"p1", "p2", "p3", "x1"},
  Kind <- [c \in {"p1", "p2", "p3", "x1"} |->
       IF c = "p1" THEN "publish" ELSE IF c = "p2" THEN "publish" ELSE IF c = "p3" THEN "publish" ELSE "removeWorker"],
  Of <- [c \in {"p1", "p2", "p3", "x1"} |->
       IF c = "p1" THEN "w" ELSE IF c = "p2" THEN "w" ELSE IF c = "p3" THEN "w" ELSE "w"],
  Owner <- [c \in {"p1", "p2", "p3", "x1"} |->
       IF c = "p1" THEN "n1" ELSE IF c = "p2" THEN "n2" ELSE IF c = "p3" THEN "n1" ELSE None],
  Pod <- [c \in {"p1", "p2", "p3", "x1"} |->
       IF c = "p1" THEN None ELSE IF c = "p2" THEN None ELSE IF c = "p3" THEN None ELSE None],
  NewStatus <- [c \in {"p1", "p2", "p3", "x1"} |->
       IF c = "p1" THEN "READY" ELSE IF c = "p2" THEN "READY" ELSE IF c = "p3" THEN "READY" ELSE None],
  Unreliable <- {}, Legacy <- {}, MaxRetries <- 2, call <- k8sCall, cr <- objects,
  cm <- configMaps, clock <- k8sClock, last <- k8sLast, owned <- k8sOwned, mixed <- k8sMixed

\* An object of an older server without an owner.
K8sLegacy == INSTANCE P2PKubernetes WITH
  Worker <- {"w"}, Call <- {"p1", "p2", "x1"},
  Kind <- [c \in {"p1", "p2", "x1"} |->
       IF c = "p1" THEN "publish" ELSE IF c = "p2" THEN "publish" ELSE "removeWorker"],
  Of <- [c \in {"p1", "p2", "x1"} |->
       IF c = "p1" THEN "w" ELSE IF c = "p2" THEN "w" ELSE "w"],
  Owner <- [c \in {"p1", "p2", "x1"} |->
       IF c = "p1" THEN "n1" ELSE IF c = "p2" THEN "n1" ELSE None],
  Pod <- [c \in {"p1", "p2", "x1"} |->
       IF c = "p1" THEN "pod" ELSE IF c = "p2" THEN None ELSE None],
  NewStatus <- [c \in {"p1", "p2", "x1"} |->
       IF c = "p1" THEN "READY" ELSE IF c = "p2" THEN "READY" ELSE None],
  Unreliable <- {}, Legacy <- {"w"}, MaxRetries <- 2, call <- k8sCall, cr <- objects,
  cm <- configMaps, clock <- k8sClock, last <- k8sLast, owned <- k8sOwned, mixed <- k8sMixed

\* The reaper's collection, a status update and a read.
K8sReap == INSTANCE P2PKubernetes WITH
  Worker <- {"w"}, Call <- {"p1", "u1", "z1", "p2", "g1"},
  Kind <- [c \in {"p1", "u1", "z1", "p2", "g1"} |->
       IF c = "p1" THEN "publish" ELSE IF c = "u1" THEN "update" ELSE IF c = "z1" THEN "reap" ELSE IF c = "p2" THEN "publish" ELSE "get"],
  Of <- [c \in {"p1", "u1", "z1", "p2", "g1"} |->
       IF c = "p1" THEN "w" ELSE IF c = "u1" THEN "w" ELSE IF c = "z1" THEN "w" ELSE IF c = "p2" THEN "w" ELSE "w"],
  Owner <- [c \in {"p1", "u1", "z1", "p2", "g1"} |->
       IF c = "p1" THEN None ELSE IF c = "u1" THEN None ELSE IF c = "z1" THEN None ELSE IF c = "p2" THEN None ELSE None],
  Pod <- [c \in {"p1", "u1", "z1", "p2", "g1"} |->
       IF c = "p1" THEN None ELSE IF c = "u1" THEN None ELSE IF c = "z1" THEN None ELSE IF c = "p2" THEN None ELSE None],
  NewStatus <- [c \in {"p1", "u1", "z1", "p2", "g1"} |->
       IF c = "p1" THEN "READY" ELSE IF c = "u1" THEN "STALE" ELSE IF c = "z1" THEN None ELSE IF c = "p2" THEN "READY" ELSE None],
  Unreliable <- {}, Legacy <- {}, MaxRetries <- 2, call <- k8sCall, cr <- objects,
  cm <- configMaps, clock <- k8sClock, last <- k8sLast, owned <- k8sOwned, mixed <- k8sMixed

\* The removal of a source with two workers.
K8sSource == INSTANCE P2PKubernetes WITH
  Worker <- {"v", "w"}, Call <- {"p1", "p2", "x1", "g1", "u1"},
  Kind <- [c \in {"p1", "p2", "x1", "g1", "u1"} |->
       IF c = "p1" THEN "publish" ELSE IF c = "p2" THEN "publish" ELSE IF c = "x1" THEN "removeMetadata" ELSE IF c = "g1" THEN "get" ELSE "update"],
  Of <- [c \in {"p1", "p2", "x1", "g1", "u1"} |->
       IF c = "p1" THEN "w" ELSE IF c = "p2" THEN "v" ELSE IF c = "x1" THEN "w" ELSE IF c = "g1" THEN "w" ELSE "w"],
  Owner <- [c \in {"p1", "p2", "x1", "g1", "u1"} |->
       IF c = "p1" THEN None ELSE IF c = "p2" THEN None ELSE IF c = "x1" THEN None ELSE IF c = "g1" THEN None ELSE None],
  Pod <- [c \in {"p1", "p2", "x1", "g1", "u1"} |->
       IF c = "p1" THEN None ELSE IF c = "p2" THEN None ELSE IF c = "x1" THEN None ELSE IF c = "g1" THEN None ELSE None],
  NewStatus <- [c \in {"p1", "p2", "x1", "g1", "u1"} |->
       IF c = "p1" THEN "READY" ELSE IF c = "p2" THEN "READY" ELSE IF c = "x1" THEN None ELSE IF c = "g1" THEN None ELSE "READY"],
  Unreliable <- {"x1"}, Legacy <- {}, MaxRetries <- 2, call <- k8sCall, cr <- objects,
  cm <- configMaps, clock <- k8sClock, last <- k8sLast, owned <- k8sOwned, mixed <- k8sMixed

\* What the proofs assume of the constants holds of these instances.
ASSUME P2PKubernetesAssumption == K8sUpdate!WellFormed /\ K8sOwner!WellFormed /\ K8sLegacy!WellFormed /\ K8sReap!WellFormed /\ K8sSource!WellFormed

-----------------------------------------------------------------------------
(* Publications, status updates and listings of one source's workers.       *)

\* Two namespaces with two workers.
Scoped == INSTANCE P2PService WITH
  Worker <- {s1, s2}, Rank <- {0}, Namespace <- {v1, v2}, Call <- {c1}, Isolation <- TRUE,
  Timeout <- 0, MaxTime <- 2, entry <- psEntry, call <- psCall, now <- psNow,
  raced <- psRaced

\* Two namespaces use the same worker id at the same time.
Contended == INSTANCE P2PService WITH
  Worker <- {s1}, Rank <- {0, 1}, Namespace <- {v1, v2}, Call <- {c1, c2},
  Isolation <- TRUE, Timeout <- 0, MaxTime <- 1, entry <- psEntry, call <- psCall,
  now <- psNow, raced <- psRaced

\* Isolation off.
Unscoped == INSTANCE P2PService WITH
  Worker <- {s1, s2}, Rank <- {0}, Namespace <- {v1}, Call <- {c1}, Isolation <- FALSE,
  Timeout <- 0, MaxTime <- 2, entry <- psEntry, call <- psCall, now <- psNow,
  raced <- psRaced

-----------------------------------------------------------------------------
\* The other components do not move.
Init ==
  /\ which \in {"branch", "pinned", "shared", "unparsed", "hub", "hubDefault",
       "hubSlashed", "hubBare", "gcs", "gcsNested", "gcsRemoved", "ngc",
       "ngcGated", "s3", "evict", "evictBoth", "evictParts", "sharedCache",
       "k8sUpdate", "k8sOwner", "k8sLegacy", "k8sReap", "k8sSource", "scoped",
       "contended", "unscoped"}
  /\ IF which = "branch" THEN OnBranch!Init
     ELSE IF which = "pinned" THEN Pin!Init
     ELSE IF which = "shared" THEN Share!Init
     ELSE IF which = "unparsed" THEN Unparsed!Init
     ELSE phase = None /\ elapsed = None /\ backoff = None /\ head = None /\
          disk = None /\ resolved = None /\ srv = None /\ wire = None /\
          recv = None /\ local = None /\ ref = None /\ listed = None /\
          faults = None /\ budget = None
  /\ IF which = "hub" THEN Hub!Init
     ELSE IF which = "hubDefault" THEN HubDefault!Init
     ELSE IF which = "hubSlashed" THEN HubSlashed!Init
     ELSE IF which = "hubBare" THEN HubBare!Init
     ELSE hubHead = None /\ refs = None /\ snapshot = None /\ blobs = None /\
          made = None /\ order = None /\ dl = None /\ del = None /\
          offline = None /\ overlap = None /\ hubFaults = None /\ hubBudget = None
  /\ IF which = "gcs" THEN Gcs!Init
     ELSE IF which = "gcsNested" THEN GcsNested!Init
     ELSE IF which = "gcsRemoved" THEN GcsRemoved!Init
     ELSE gcsBucket = None /\ gcsManifest = None /\ gcsDamaged = None /\
          gcsDirs = None /\ gcsDisk = None /\ gcsPart = None /\ gcsDl = None /\
          gcsLock = None /\ gcsManifestLock = None /\ gcsRemoved = None /\
          gcsStray = None /\ gcsRaced = None /\ gcsFaults = None /\
          gcsBudget = None
  /\ IF which = "ngc" THEN Ngc!Init
     ELSE IF which = "ngcGated" THEN NgcGated!Init
     ELSE ngcDisk = None /\ ngcTemp = None /\ ngcLock = None /\ ngcDl = None /\
          fresh = None /\ refreshing = None /\ refreshes = None /\
          expiries = None /\ ngcRemoved = None /\ ngcFaults = None /\
          ngcBudget = None
  /\ IF which = "s3" THEN S3!Init
     ELSE s3Data = None /\ s3Marker = None /\ s3Dirs = None /\ s3Dl = None /\
          s3Removed = None /\ s3Faults = None /\ s3Budget = None
  /\ IF which = "evict" THEN Evict!Init
     ELSE IF which = "evictBoth" THEN EvictBoth!Init
     ELSE IF which = "evictParts" THEN EvictParts!Init
     ELSE evictClock = None /\ evictRecord = None /\ evictSnapshots = None /\
          evictTasks = None /\ evictClaims = None /\ evictCycle = None /\
          evictRaced = None /\ evictLate = None /\ evictCleared = None /\
          evictTorn = None /\ evictFaults = None
  /\ IF which = "sharedCache" THEN Shared!Init
     ELSE record = None /\ requestPc = None /\ attempt = None /\ seq = None /\
          told = None /\ waiting = None /\ task = None /\ cacheFiles = None /\
          fetchHeld = None /\ publisher = None /\ evictor = None /\
          downloadFaults = None
  /\ IF which = "k8sUpdate" THEN K8sUpdate!Init
     ELSE IF which = "k8sOwner" THEN K8sOwner!Init
     ELSE IF which = "k8sLegacy" THEN K8sLegacy!Init
     ELSE IF which = "k8sReap" THEN K8sReap!Init
     ELSE IF which = "k8sSource" THEN K8sSource!Init
     ELSE objects = None /\ configMaps = None /\ k8sClock = None /\
          k8sCall = None /\ k8sLast = None /\ k8sOwned = None /\ k8sMixed = None
  /\ IF which = "scoped" THEN Scoped!Init
     ELSE IF which = "contended" THEN Contended!Init
     ELSE IF which = "unscoped" THEN Unscoped!Init
     ELSE psEntry = None /\ psCall = None /\ psNow = None /\ psRaced = None

OnlyModelRequest == UNCHANGED <<which, huggingFaceCacheVars, gcsDownloadVars,
  ngcDownloadVars, s3DownloadVars, cacheEvictionVars, downloadRegistryVars,
  p2PKubernetesVars, p2PServiceVars>>
OnlyHuggingFaceCache == UNCHANGED <<which, modelRequestVars, gcsDownloadVars,
  ngcDownloadVars, s3DownloadVars, cacheEvictionVars, downloadRegistryVars,
  p2PKubernetesVars, p2PServiceVars>>
OnlyGcsDownload == UNCHANGED <<which, modelRequestVars, huggingFaceCacheVars,
  ngcDownloadVars, s3DownloadVars, cacheEvictionVars, downloadRegistryVars,
  p2PKubernetesVars, p2PServiceVars>>
OnlyNgcDownload == UNCHANGED <<which, modelRequestVars, huggingFaceCacheVars,
  gcsDownloadVars, s3DownloadVars, cacheEvictionVars, downloadRegistryVars,
  p2PKubernetesVars, p2PServiceVars>>
OnlyS3Download == UNCHANGED <<which, modelRequestVars, huggingFaceCacheVars,
  gcsDownloadVars, ngcDownloadVars, cacheEvictionVars, downloadRegistryVars,
  p2PKubernetesVars, p2PServiceVars>>
OnlyCacheEviction == UNCHANGED <<which, modelRequestVars, huggingFaceCacheVars,
  gcsDownloadVars, ngcDownloadVars, s3DownloadVars, downloadRegistryVars, p2PKubernetesVars,
  p2PServiceVars>>
OnlyDownloadRegistry == UNCHANGED <<which, modelRequestVars, huggingFaceCacheVars,
  gcsDownloadVars, ngcDownloadVars, s3DownloadVars, cacheEvictionVars, p2PKubernetesVars,
  p2PServiceVars>>
OnlyP2PKubernetes == UNCHANGED <<which, modelRequestVars, huggingFaceCacheVars,
  gcsDownloadVars, ngcDownloadVars, s3DownloadVars, cacheEvictionVars, downloadRegistryVars,
  p2PServiceVars>>
OnlyP2PService == UNCHANGED <<which, modelRequestVars, huggingFaceCacheVars,
  gcsDownloadVars, ngcDownloadVars, s3DownloadVars, cacheEvictionVars, downloadRegistryVars,
  p2PKubernetesVars>>

Next ==
  \/ which = "branch" /\ OnBranch!Next /\ OnlyModelRequest
  \/ which = "pinned" /\ Pin!Next /\ OnlyModelRequest
  \/ which = "shared" /\ Share!Next /\ OnlyModelRequest
  \/ which = "unparsed" /\ Unparsed!Next /\ OnlyModelRequest
  \/ which = "hub" /\ Hub!Next /\ OnlyHuggingFaceCache
  \/ which = "hubDefault" /\ HubDefault!Next /\ OnlyHuggingFaceCache
  \/ which = "hubSlashed" /\ HubSlashed!Next /\ OnlyHuggingFaceCache
  \/ which = "hubBare" /\ HubBare!Next /\ OnlyHuggingFaceCache
  \/ which = "gcs" /\ Gcs!Next /\ OnlyGcsDownload
  \/ which = "gcsNested" /\ GcsNested!Next /\ OnlyGcsDownload
  \/ which = "gcsRemoved" /\ GcsRemoved!Next /\ OnlyGcsDownload
  \/ which = "ngc" /\ Ngc!Next /\ OnlyNgcDownload
  \/ which = "ngcGated" /\ NgcGated!Next /\ OnlyNgcDownload
  \/ which = "s3" /\ S3!Next /\ OnlyS3Download
  \/ which = "evict" /\ Evict!Next /\ OnlyCacheEviction
  \/ which = "evictBoth" /\ EvictBoth!Next /\ OnlyCacheEviction
  \/ which = "evictParts" /\ EvictParts!Next /\ OnlyCacheEviction
  \/ which = "sharedCache" /\ Shared!Next /\ OnlyDownloadRegistry
  \/ which = "k8sUpdate" /\ K8sUpdate!Next /\ OnlyP2PKubernetes
  \/ which = "k8sOwner" /\ K8sOwner!Next /\ OnlyP2PKubernetes
  \/ which = "k8sLegacy" /\ K8sLegacy!Next /\ OnlyP2PKubernetes
  \/ which = "k8sReap" /\ K8sReap!Next /\ OnlyP2PKubernetes
  \/ which = "k8sSource" /\ K8sSource!Next /\ OnlyP2PKubernetes
  \/ which = "scoped" /\ Scoped!Next /\ OnlyP2PService
  \/ which = "contended" /\ Contended!Next /\ OnlyP2PService
  \/ which = "unscoped" /\ Unscoped!Next /\ OnlyP2PService

Spec ==
  /\ Init /\ [][Next]_vars

-----------------------------------------------------------------------------
\* What a download, a stream or a request reports as installed is there, whole,
\* and of the revision it names.
InstalledWhole ==
  \* A request that succeeds has installed every file it asked for under the
  \* revision it returns, and nothing under another one, although the branch may
  \* move between the status stream and the file stream.
  /\ which = "branch" => OnBranch!InstalledAsResolved
  /\ which = "pinned" => Pin!InstalledAsResolved
  /\ which = "shared" => Share!InstalledAsResolved
  /\ which = "unparsed" => Unparsed!InstalledAsResolved
  \* An installed file has the size the server listed: one that shrank, grew or
  \* vanished while it was streamed never passes for a whole one; a listed file
  \* is missing only when it was emptied before its first byte was read.
  /\ which = "branch" => OnBranch!InstalledAsListed
  /\ which = "pinned" => Pin!InstalledAsListed
  /\ which = "shared" => Share!InstalledAsListed
  /\ which = "unparsed" => Unparsed!InstalledAsListed
  \* A request that fails leaves at most one damaged file behind.
  /\ which = "branch" => OnBranch!OneUnfinishedFile
  /\ which = "pinned" => Pin!OneUnfinishedFile
  /\ which = "shared" => Share!OneUnfinishedFile
  /\ which = "unparsed" => Unparsed!OneUnfinishedFile
  \* The server is bypassed only when the connection budget is spent, within one
  \* attempt of it, and never after a request has been sent.
  /\ which = "branch" => OnBranch!BypassOnlyUnconnected
  /\ which = "pinned" => Pin!BypassOnlyUnconnected
  /\ which = "shared" => Share!BypassOnlyUnconnected
  /\ which = "unparsed" => Unparsed!BypassOnlyUnconnected
  \* A snapshot of the Hugging Face cache holds files of its own commit only,
  \* although the branch moves while it is downloaded, and a download that
  \* succeeded left a whole one.
  /\ which = "hub" => Hub!InstalledWhole
  /\ which = "hubDefault" => HubDefault!InstalledWhole
  /\ which = "hubSlashed" => HubSlashed!InstalledWhole
  /\ which = "hubBare" => HubBare!InstalledWhole
  \* Google Cloud Storage: a file is one whole object unless its directory was
  \* removed under a download, and a download that succeeded has left every file
  \* it asked for, as the manifest pins it.
  /\ which = "gcs" => Gcs!InstalledWhole
  /\ which = "gcsNested" => GcsNested!InstalledWhole
  /\ which = "gcsRemoved" => GcsRemoved!InstalledWhole
  \* NGC: an artifact whose download succeeded has every file of every page, and
  \* a path served without a failure is whole.
  /\ which = "ngc" => Ngc!InstalledWhole
  /\ which = "ngcGated" => NgcGated!InstalledWhole
  \* S3: the marker that a download has set stands for a whole model until
  \* another download opens, or a deletion removes, one of its files.
  /\ which = "s3" => S3!InstalledWhole

\* Deleting one model or revision leaves the others as they are.
DeletionSparesOthers ==
  \* Unless a download overlaps it, deleting one revision breaks no link of
  \* another, leaves no ref of refs/ itself without its snapshot and no blob
  \* without a link.
  /\ which = "hub" => Hub!DeletionSparesOthers
  /\ which = "hubDefault" => HubDefault!DeletionSparesOthers
  /\ which = "hubSlashed" => HubSlashed!DeletionSparesOthers
  /\ which = "hubBare" => HubBare!DeletionSparesOthers
  \* Google Cloud Storage: deleting a model removes no file of another one,
  \* because overlapping models are refused.
  /\ which = "gcs" => Gcs!DeletionSparesOthers
  /\ which = "gcsNested" => GcsNested!DeletionSparesOthers
  /\ which = "gcsRemoved" => GcsRemoved!DeletionSparesOthers
  \* A downloaded entry keeps its snapshot whatever other entries of its model
  \* are evicted.
  /\ which = "evict" => Evict!SurvivorsWhole
  /\ which = "evictBoth" => EvictBoth!SurvivorsWhole
  /\ which = "evictParts" => EvictParts!SurvivorsWhole
  \* Snapshots do not outlive the last record of their model.
  /\ which = "evict" => Evict!NoOrphans
  /\ which = "evictBoth" => EvictBoth!NoOrphans
  /\ which = "evictParts" => EvictParts!NoOrphans
  \* An eviction cycle takes the least recently used entries, every one past its
  \* age and no other beyond the limit.
  /\ which = "evict" => Evict!LeastRecentFirst
  /\ which = "evictBoth" => EvictBoth!LeastRecentFirst
  /\ which = "evictParts" => EvictParts!LeastRecentFirst

\* Concurrent transfers share one credential.
TokenShared ==
  \* NGC: transfers that find the token stale together exchange it once.
  /\ which = "ngc" => Ngc!RefreshedOnce
  /\ which = "ngcGated" => NgcGated!RefreshedOnce

\* Replicas that share a cache volume do not disturb each other's downloads.
SharedCache ==
  \* A record says DOWNLOADED without files only inside an eviction.
  /\ which = "sharedCache" => Shared!StaleOnlyWhileEvicting
  \* One task downloads at a time.
  /\ which = "sharedCache" => Shared!SingleFetcher

\* What the P2P backends keep of a worker is one publication, and its own.
P2PObjects ==
  \* Kubernetes: a publication stands until the next one or a removal; no status
  \* update puts an older one back.
  /\ which = "k8sUpdate" => K8sUpdate!PublicationKept
  /\ which = "k8sOwner" => K8sOwner!PublicationKept
  /\ which = "k8sLegacy" => K8sLegacy!PublicationKept
  /\ which = "k8sReap" => K8sReap!PublicationKept
  /\ which = "k8sSource" => K8sSource!PublicationKept
  \* Kubernetes: an object keeps the namespace it was created for.
  /\ which = "k8sUpdate" => K8sUpdate!OwnerKept
  /\ which = "k8sOwner" => K8sOwner!OwnerKept
  /\ which = "k8sLegacy" => K8sLegacy!OwnerKept
  /\ which = "k8sReap" => K8sReap!OwnerKept
  /\ which = "k8sSource" => K8sSource!OwnerKept
  \* Kubernetes: the Ready condition is that of the status.
  /\ which = "k8sUpdate" => K8sUpdate!ReadyAgrees
  /\ which = "k8sOwner" => K8sOwner!ReadyAgrees
  /\ which = "k8sLegacy" => K8sLegacy!ReadyAgrees
  /\ which = "k8sReap" => K8sReap!ReadyAgrees
  /\ which = "k8sSource" => K8sSource!ReadyAgrees
  \* Kubernetes: between publications an object has the tensors of its
  \* publication, unless a removal or another publication overlapped one.
  /\ which = "k8sUpdate" => K8sUpdate!TensorsKept
  /\ which = "k8sOwner" => K8sOwner!TensorsKept
  /\ which = "k8sLegacy" => K8sLegacy!TensorsKept
  /\ which = "k8sReap" => K8sReap!TensorsKept
  /\ which = "k8sSource" => K8sSource!TensorsKept
  \* Kubernetes: a read that nothing overlaps returns one publication.
  /\ which = "k8sUpdate" => K8sUpdate!ReadsOnePublication
  /\ which = "k8sOwner" => K8sOwner!ReadsOnePublication
  /\ which = "k8sLegacy" => K8sLegacy!ReadsOnePublication
  /\ which = "k8sReap" => K8sReap!ReadsOnePublication
  /\ which = "k8sSource" => K8sSource!ReadsOnePublication
  \* A limited listing is the newest instances the caller may see.
  /\ which = "scoped" => Scoped!ListingIsComplete
  /\ which = "contended" => Contended!ListingIsComplete
  /\ which = "unscoped" => Unscoped!ListingIsComplete
  \* Under isolation a caller sees what its namespace published.
  /\ which = "scoped" => Scoped!ScopeHolds
  /\ which = "contended" => Contended!ScopeHolds
  /\ which = "unscoped" => Unscoped!ScopeHolds

=============================================================================
