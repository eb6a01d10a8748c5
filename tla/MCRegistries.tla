---------------------------- MODULE MCRegistries ----------------------------
(***************************************************************************)
(* Small instances of the registry backends, and of the components that    *)
(* have to come to an end: downloads, requests, connections and the        *)
(* server.                                                                 *)
(***************************************************************************)
EXTENDS Naturals, Sequences, FiniteSets, TLC

CONSTANTS None, r1, r2, r3, c1, c2, c3, q1, q2, k1, a1, b1, d1, d2, e1

VARIABLES
  which,  \* the component that moves in this behaviour
  crs, version, obs, pc, read, spent, removal, faults, budget,
  model, lease, memorySpent,
  record, requestPc, attempt, seq, told, waiting, task, files, held, publisher, evictor,
  downloadFaults,
  lcBackend, lcLock, lcPc, lcGot, lcBuilt, lcFailures,
  slMain, slFailed, slReady, slTask, slSender, slLate, slShutdown, slCalls, slListener,
  slStuck,
  tcLoop, tcHeld, tcConn, tcChannel, tcOpen, tcWindow, tcLogged,
  rqPhase, rqElapsed, rqBackoff, rqHead, rqDisk, rqResolved, rqSrv, rqWire, rqRecv, rqLocal,
  rqRef, rqListed, rqFaults, rqBudget,
  gcsBucket, gcsManifest, gcsDamaged, gcsDirs, gcsDisk, gcsPart, gcsDl, gcsLock,
  gcsManifestLock, gcsRemoved, gcsStray, gcsRaced, gcsFaults, gcsBudget,
  ngcDisk, ngcTemp, ngcLock, ngcDl, ngcFresh, ngcRefreshing, ngcRefreshes, ngcExpiries,
  ngcRemoved, ngcFaults, ngcBudget

kubernetesRegistryVars == <<crs, version, obs, pc, read, spent, removal, faults, budget>>
memoryRegistryVars == <<model, lease, memorySpent>>
downloadRegistryVars == <<record, requestPc, attempt, seq, told, waiting, task, files, held,
  publisher, evictor, downloadFaults>>
lazyConnectionVars == <<lcBackend, lcLock, lcPc, lcGot, lcBuilt, lcFailures>>
serverLifecycleVars == <<slMain, slFailed, slReady, slTask, slSender, slLate, slShutdown,
  slCalls, slListener, slStuck>>
tlsListenerVars == <<tcLoop, tcHeld, tcConn, tcChannel, tcOpen, tcWindow, tcLogged>>
modelRequestVars == <<rqPhase, rqElapsed, rqBackoff, rqHead, rqDisk, rqResolved, rqSrv,
  rqWire, rqRecv, rqLocal, rqRef, rqListed, rqFaults, rqBudget>>
gcsDownloadVars == <<gcsBucket, gcsManifest, gcsDamaged, gcsDirs, gcsDisk, gcsPart, gcsDl,
  gcsLock, gcsManifestLock, gcsRemoved, gcsStray, gcsRaced, gcsFaults, gcsBudget>>
ngcDownloadVars == <<ngcDisk, ngcTemp, ngcLock, ngcDl, ngcFresh, ngcRefreshing,
  ngcRefreshes, ngcExpiries, ngcRemoved, ngcFaults, ngcBudget>>
vars == <<which, kubernetesRegistryVars, memoryRegistryVars, downloadRegistryVars,
  lazyConnectionVars, serverLifecycleVars, tlsListenerVars, modelRequestVars,
  gcsDownloadVars, ngcDownloadVars>>

-----------------------------------------------------------------------------
(* The Kubernetes registry backend.                                         *)

HomeOfClaim == [c \in {c1, c2, c3} |-> IF c = c3 THEN r2 ELSE r1]

\* Two callers of one model on two replicas, no name-only object.
Claims == INSTANCE KubernetesRegistry WITH
  Replica <- {r1, r2}, Claim <- {c1, c3}, Provider <- {"hf"}, ProviderSeq <- <<"hf">>,
  HomeOf <- HomeOfClaim, ProviderOf <- [c \in {c1, c3} |-> "hf"], Legacies <- {None},
  Fault <- {"crash", "error", "reply", "late", "delete", "touch"}, MaxFaults <- 2,
  MaxVersion <- 3

\* Three callers, two of the provider whose download an older server recorded.
Legacy == INSTANCE KubernetesRegistry WITH
  Replica <- {r1, r2}, Claim <- {c1, c2, c3}, Provider <- {"hf", "ngc"},
  ProviderSeq <- <<"hf", "ngc">>, HomeOf <- HomeOfClaim,
  ProviderOf <- [c \in {c1, c2, c3} |-> IF c = c2 THEN "hf" ELSE "ngc"],
  Legacies <- {[provider |-> "ngc", status |-> [phase |-> "DOWNLOADED", claim |-> None, beat |-> 0]]},
  Fault <- {"error", "touch"}, MaxFaults <- 1, MaxVersion <- 0

\* What the proofs assume of the constants holds of these instances.
ASSUME KubernetesRegistryAssumption == Claims!WellFormed /\ Legacy!WellFormed

-----------------------------------------------------------------------------
(* The in-memory registry backend.                                          *)

Memory == INSTANCE MemoryRegistry WITH
  Claim <- {c1, c2, c3}, spent <- memorySpent

\* What the proofs assume of the constants holds of this instance.
ASSUME MemoryRegistryAssumption == Memory!WellFormed

-----------------------------------------------------------------------------

\* Two requests on two replicas that share a cache, one fault.
RedisDownloads == INSTANCE DownloadRegistry WITH
  Replica <- {r1, r2}, Request <- {q1, q2}, Cache <- {k1},
  Home <- [q \in {q1, q2} |-> IF q = q1 THEN r1 ELSE r2],
  CacheOf <- [r \in {r1, r2} |-> k1],
  Fault <- {"crash", "error", "reply", "late", "delete", "files", "evict", "disk"},
  MaxFaults <- 1, MaxClaims <- 5, pc <- requestPc, faults <- downloadFaults

-----------------------------------------------------------------------------
(* Callers of a state manager that is not connected yet.                    *)

\* The registry manager connected lazily by three callers and by two connects.
RegistryConn == INSTANCE LazyConnection WITH
  Caller <- {r1, r2, r3}, Starter <- {}, Recheck <- TRUE, MaxFailures <- 1,
  backend <- lcBackend, lock <- lcLock, pc <- lcPc, got <- lcGot, built <- lcBuilt,
  failures <- lcFailures

\* The registry manager's connect called twice.
RegistryStart == INSTANCE LazyConnection WITH
  Caller <- {r1}, Starter <- {r2, r3}, Recheck <- TRUE, MaxFailures <- 1,
  backend <- lcBackend, lock <- lcLock, pc <- lcPc, got <- lcGot, built <- lcBuilt,
  failures <- lcFailures

\* The P2P manager connected at startup.
P2PConn == INSTANCE LazyConnection WITH
  Caller <- {r1, r2}, Starter <- {r3}, Recheck <- FALSE, MaxFailures <- 1,
  backend <- lcBackend, lock <- lcLock, pc <- lcPc, got <- lcGot, built <- lcBuilt,
  failures <- lcFailures

\* What the proofs assume of the constants holds of these instances.
ASSUME LazyConnectionAssumption == RegistryConn!WellFormed /\ RegistryStart!WellFormed /\ P2PConn!WellFormed

-----------------------------------------------------------------------------
(* One run of the server, from its first step to its last.                  *)

Life == INSTANCE ServerLifecycle WITH
  Eviction <- TRUE, Metrics <- TRUE, main <- slMain, failed <- slFailed, ready <- slReady,
  task <- slTask, sender <- slSender, late <- slLate, shutdown <- slShutdown,
  calls <- slCalls, listener <- slListener, stuck <- slStuck

-----------------------------------------------------------------------------
(* Connections of a TLS listener.                                           *)

Listen == INSTANCE TlsListener WITH
  Conn <- {c1, c2, c3}, MAX_CONCURRENT_HANDSHAKES <- 1, ACCEPT_BACKLOG <- 1,
  MaxReports <- 2, loop <- tcLoop, held <- tcHeld, conn <- tcConn, channel <- tcChannel,
  open <- tcOpen, window <- tcWindow, logged <- tcLogged

-----------------------------------------------------------------------------
(* A client's request and the server's file stream.                         *)

\* A file of two units and an empty one; the other revision swaps them.
Sizes == [r \in {1, 2} |-> [f \in {"a", "b"} |-> IF (f = "a") = (r = 1) THEN 2 ELSE 0]]

\* The whole model at its branch.
OnBranch == INSTANCE ModelRequest WITH
  File <- {"a", "b"}, Rev <- {1, 2}, SizeOf <- Sizes, Pinned <- None, Selector <- None,
  Shared <- FALSE, Chunk <- 2, Capacity <- 2, ConnectWait <- 4, Parses <- TRUE,
  Fault <- {"provider", "ensure", "read", "break", "write", "branch", "cache", "empty", "other", "ref"},
  MaxFaults <- 2, phase <- rqPhase, elapsed <- rqElapsed, backoff <- rqBackoff,
  head <- rqHead, disk <- rqDisk, resolved <- rqResolved, srv <- rqSrv, wire <- rqWire,
  recv <- rqRecv, local <- rqLocal, ref <- rqRef, listed <- rqListed, faults <- rqFaults,
  budget <- rqBudget

\* What the proofs assume of the constants holds of this instance.
ASSUME ModelRequestAssumption == OnBranch!WellFormed

-----------------------------------------------------------------------------
(* Google Cloud Storage.                                                    *)

\* Models below one another, with a file in common, and a deletion of the upper
\* one.
GcsNested == INSTANCE GcsDownload WITH
  Model <- {a1, b1}, File <- {"config", "weights"},
  Listed <- [m \in {a1, b1} |-> IF m = a1 THEN {"config", "weights"} ELSE {"weights"}],
  Weights <- {}, Generation <- {1, 2}, Below <- {<<a1, b1>>}, Size <- [g \in {1, 2} |-> 1],
  Download <- {d1, d2}, ModelOf <- [d \in {d1, d2} |-> IF d = d1 THEN a1 ELSE b1],
  Metadata <- {}, Deletion <- {e1}, Removes <- [e \in {e1} |-> a1], Fault <- {"network"},
  MaxFaults <- 1, bucket <- gcsBucket, manifest <- gcsManifest, damaged <- gcsDamaged,
  dirs <- gcsDirs, disk <- gcsDisk, part <- gcsPart, dl <- gcsDl, lock <- gcsLock,
  manifestLock <- gcsManifestLock, removed <- gcsRemoved, stray <- gcsStray,
  raced <- gcsRaced, faults <- gcsFaults, budget <- gcsBudget

\* A model of one file is deleted under two downloads of it.
GcsRemoved == INSTANCE GcsDownload WITH
  Model <- {a1}, File <- {"config"}, Listed <- [m \in {a1} |-> {"config"}], Weights <- {},
  Generation <- {1, 2}, Below <- {}, Size <- [g \in {1, 2} |-> 2], Download <- {d1, d2},
  ModelOf <- [d \in {d1, d2} |-> a1], Metadata <- {}, Deletion <- {e1},
  Removes <- [e \in {e1} |-> a1], Fault <- {"network", "replace"}, MaxFaults <- 1,
  bucket <- gcsBucket, manifest <- gcsManifest, damaged <- gcsDamaged, dirs <- gcsDirs,
  disk <- gcsDisk, part <- gcsPart, dl <- gcsDl, lock <- gcsLock,
  manifestLock <- gcsManifestLock, removed <- gcsRemoved, stray <- gcsStray,
  raced <- gcsRaced, faults <- gcsFaults, budget <- gcsBudget

\* What the proofs assume of the constants holds of these instances.
ASSUME GcsDownloadAssumption == GcsNested!WellFormed /\ GcsRemoved!WellFormed

-----------------------------------------------------------------------------
(* NGC artifacts.                                                           *)

\* One download through the checksum manifest, whose token expires.
NgcGated == INSTANCE NgcDownload WITH
  Page <- <<{"config", "card"}>>, Weights <- {}, Concurrency <- 2, Download <- {d1, d2},
  Metadata <- {}, Deletion <- {}, Fault <- {"token", "refused", "expiry"}, MaxFaults <- 3,
  disk <- ngcDisk, temp <- ngcTemp, lock <- ngcLock, dl <- ngcDl, fresh <- ngcFresh,
  refreshing <- ngcRefreshing, refreshes <- ngcRefreshes, expiries <- ngcExpiries,
  removed <- ngcRemoved, faults <- ngcFaults, budget <- ngcBudget

\* What the proofs assume of the constants holds of this instance.
ASSUME NgcDownloadAssumption == NgcGated!WellFormed

-----------------------------------------------------------------------------
\* The other components do not move.
Init ==
  /\ which \in {"claims", "legacy", "memory", "download", "registryConn",
       "registryStart", "p2pConn", "life", "listen", "branch", "gcsNested",
       "gcsRemoved", "ngcGated"}
  /\ IF which = "claims" THEN Claims!Init ELSE Legacy!Init
  /\ Memory!Init
  /\ IF which = "download" THEN RedisDownloads!Init
     ELSE record = None /\ requestPc = None /\ attempt = None /\ seq = None /\
          told = None /\ waiting = None /\ task = None /\ files = None /\
          held = None /\ publisher = None /\ evictor = None /\
          downloadFaults = None
  /\ IF which = "registryConn" THEN RegistryConn!Init
     ELSE IF which = "registryStart" THEN RegistryStart!Init
     ELSE IF which = "p2pConn" THEN P2PConn!Init
     ELSE lcBackend = None /\ lcLock = None /\ lcPc = None /\ lcGot = None /\
          lcBuilt = None /\ lcFailures = None
  /\ IF which = "life" THEN Life!Init
     ELSE slMain = None /\ slFailed = None /\ slReady = None /\ slTask = None /\
          slSender = None /\ slLate = None /\ slShutdown = None /\
          slCalls = None /\ slListener = None /\ slStuck = None
  /\ IF which = "listen" THEN Listen!Init
     ELSE tcLoop = None /\ tcHeld = None /\ tcConn = None /\ tcChannel = None /\
          tcOpen = None /\ tcWindow = None /\ tcLogged = None
  /\ IF which = "branch" THEN OnBranch!Init
     ELSE rqPhase = None /\ rqElapsed = None /\ rqBackoff = None /\
          rqHead = None /\ rqDisk = None /\ rqResolved = None /\ rqSrv = None /\
          rqWire = None /\ rqRecv = None /\ rqLocal = None /\ rqRef = None /\
          rqListed = None /\ rqFaults = None /\ rqBudget = None
  /\ IF which = "gcsNested" THEN GcsNested!Init
     ELSE IF which = "gcsRemoved" THEN GcsRemoved!Init
     ELSE gcsBucket = None /\ gcsManifest = None /\ gcsDamaged = None /\
          gcsDirs = None /\ gcsDisk = None /\ gcsPart = None /\ gcsDl = None /\
          gcsLock = None /\ gcsManifestLock = None /\ gcsRemoved = None /\
          gcsStray = None /\ gcsRaced = None /\ gcsFaults = None /\
          gcsBudget = None
  /\ IF which = "ngcGated" THEN NgcGated!Init
     ELSE ngcDisk = None /\ ngcTemp = None /\ ngcLock = None /\ ngcDl = None /\
          ngcFresh = None /\ ngcRefreshing = None /\ ngcRefreshes = None /\
          ngcExpiries = None /\ ngcRemoved = None /\ ngcFaults = None /\
          ngcBudget = None

OnlyKubernetesRegistry == UNCHANGED <<which, memoryRegistryVars, downloadRegistryVars,
  lazyConnectionVars, serverLifecycleVars, tlsListenerVars, modelRequestVars,
  gcsDownloadVars, ngcDownloadVars>>
OnlyMemoryRegistry == UNCHANGED <<which, kubernetesRegistryVars, downloadRegistryVars,
  lazyConnectionVars, serverLifecycleVars, tlsListenerVars, modelRequestVars,
  gcsDownloadVars, ngcDownloadVars>>
OnlyDownloadRegistry == UNCHANGED <<which, kubernetesRegistryVars, memoryRegistryVars,
  lazyConnectionVars, serverLifecycleVars, tlsListenerVars, modelRequestVars,
  gcsDownloadVars, ngcDownloadVars>>
OnlyLazyConnection == UNCHANGED <<which, kubernetesRegistryVars, memoryRegistryVars,
  downloadRegistryVars, serverLifecycleVars, tlsListenerVars, modelRequestVars,
  gcsDownloadVars, ngcDownloadVars>>
OnlyServerLifecycle == UNCHANGED <<which, kubernetesRegistryVars, memoryRegistryVars,
  downloadRegistryVars, lazyConnectionVars, tlsListenerVars, modelRequestVars,
  gcsDownloadVars, ngcDownloadVars>>
OnlyTlsListener == UNCHANGED <<which, kubernetesRegistryVars, memoryRegistryVars,
  downloadRegistryVars, lazyConnectionVars, serverLifecycleVars, modelRequestVars,
  gcsDownloadVars, ngcDownloadVars>>
OnlyModelRequest == UNCHANGED <<which, kubernetesRegistryVars, memoryRegistryVars,
  downloadRegistryVars, lazyConnectionVars, serverLifecycleVars, tlsListenerVars,
  gcsDownloadVars, ngcDownloadVars>>
OnlyGcsDownload == UNCHANGED <<which, kubernetesRegistryVars, memoryRegistryVars,
  downloadRegistryVars, lazyConnectionVars, serverLifecycleVars, tlsListenerVars,
  modelRequestVars, ngcDownloadVars>>
OnlyNgcDownload == UNCHANGED <<which, kubernetesRegistryVars, memoryRegistryVars,
  downloadRegistryVars, lazyConnectionVars, serverLifecycleVars, tlsListenerVars,
  modelRequestVars, gcsDownloadVars>>

Next ==
  \/ which = "claims" /\ Claims!Next /\ OnlyKubernetesRegistry
  \/ which = "legacy" /\ Legacy!Next /\ OnlyKubernetesRegistry
  \/ which = "memory" /\ Memory!Next /\ OnlyMemoryRegistry
  \/ which = "download" /\ RedisDownloads!Next /\ OnlyDownloadRegistry
  \/ which = "registryConn" /\ RegistryConn!Next /\ OnlyLazyConnection
  \/ which = "registryStart" /\ RegistryStart!Next /\ OnlyLazyConnection
  \/ which = "p2pConn" /\ P2PConn!Next /\ OnlyLazyConnection
  \/ which = "life" /\ Life!Next /\ OnlyServerLifecycle
  \/ which = "listen" /\ Listen!Next /\ OnlyTlsListener
  \/ which = "branch" /\ OnBranch!Next /\ OnlyModelRequest
  \/ which = "gcsNested" /\ GcsNested!Next /\ OnlyGcsDownload
  \/ which = "gcsRemoved" /\ GcsRemoved!Next /\ OnlyGcsDownload
  \/ which = "ngcGated" /\ NgcGated!Next /\ OnlyNgcDownload

FirstCaller ==
  \/ which = "claims" /\ Claims!ClaimStep(c1) /\ OnlyKubernetesRegistry
  \/ which = "download" /\ RedisDownloads!RequestStep(q1) /\ OnlyDownloadRegistry
  \/ which = "registryConn" /\ RegistryConn!FairStep(r1) /\ OnlyLazyConnection
  \/ which = "registryStart" /\ RegistryStart!FairStep(r1) /\ OnlyLazyConnection
  \/ which = "p2pConn" /\ P2PConn!FairStep(r1) /\ OnlyLazyConnection
  \/ which = "life" /\ Life!MainStep /\ OnlyServerLifecycle
  \/ which = "listen" /\ Listen!LoopStep /\ OnlyTlsListener
  \/ which = "branch" /\ OnBranch!ClientStep /\ OnlyModelRequest
  \/ which = "gcsNested" /\ GcsNested!DownloadStep(d1) /\ OnlyGcsDownload
  \/ which = "gcsRemoved" /\ GcsRemoved!DownloadStep(d1) /\ OnlyGcsDownload
  \/ which = "ngcGated" /\ NgcGated!DownloadStep(d1) /\ OnlyNgcDownload

SecondCaller ==
  \/ which = "claims" /\ Claims!ClaimStep(c3) /\ OnlyKubernetesRegistry
  \/ which = "download" /\ RedisDownloads!RequestStep(q2) /\ OnlyDownloadRegistry
  \/ which = "registryConn" /\ RegistryConn!FairStep(r2) /\ OnlyLazyConnection
  \/ which = "registryStart" /\ RegistryStart!FairStep(r2) /\ OnlyLazyConnection
  \/ which = "p2pConn" /\ P2PConn!FairStep(r2) /\ OnlyLazyConnection
  \/ which = "life" /\ Life!TaskStep("cache") /\ OnlyServerLifecycle
  \/ which = "listen" /\ Listen!ServerTakes /\ OnlyTlsListener
  \/ which = "branch" /\ OnBranch!ServerStep /\ OnlyModelRequest
  \/ which = "gcsNested" /\ GcsNested!DownloadStep(d2) /\ OnlyGcsDownload
  \/ which = "gcsRemoved" /\ GcsRemoved!DownloadStep(d2) /\ OnlyGcsDownload
  \/ which = "ngcGated" /\ NgcGated!DownloadStep(d2) /\ OnlyNgcDownload

FirstReplica ==
  \/ which = "claims" /\ Claims!Age(r1, "hf") /\ OnlyKubernetesRegistry
  \/ which = "download" /\ RedisDownloads!EvictStep(r1) /\ OnlyDownloadRegistry
  \/ which = "registryConn" /\ RegistryConn!FairStep(r3) /\ OnlyLazyConnection
  \/ which = "registryStart" /\ RegistryStart!FairStep(r3) /\ OnlyLazyConnection
  \/ which = "p2pConn" /\ P2PConn!FairStep(r3) /\ OnlyLazyConnection
  \/ which = "life" /\ Life!TaskStep("reaper") /\ OnlyServerLifecycle
  \/ which = "listen" /\ Listen!HandshakeStep(c1) /\ OnlyTlsListener

SecondReplica ==
  \/ which = "claims" /\ Claims!Age(r2, "hf") /\ OnlyKubernetesRegistry
  \/ which = "download" /\ RedisDownloads!EvictStep(r2) /\ OnlyDownloadRegistry
  \/ which = "life" /\ Life!TaskStep("stats") /\ OnlyServerLifecycle
  \/ which = "listen" /\ Listen!HandshakeStep(c2) /\ OnlyTlsListener

LeaseLapses ==
  \/ which = "download" /\ RedisDownloads!Lapse /\ OnlyDownloadRegistry

SomeTask ==
  \/ which = "download" /\ (\E c \in RedisDownloads!Claim : RedisDownloads!Fetch(c) \/ RedisDownloads!Finish(c)) /\ OnlyDownloadRegistry

ThirdConnection ==
  \/ which = "listen" /\ Listen!HandshakeStep(c3) /\ OnlyTlsListener

Spec ==
  /\ Init /\ [][Next]_vars
  /\ WF_vars(FirstCaller)
  /\ WF_vars(SecondCaller)
  /\ WF_vars(FirstReplica)
  /\ WF_vars(SecondReplica)
  /\ WF_vars(LeaseLapses)
  /\ WF_vars(SomeTask)
  /\ WF_vars(ThirdConnection)

-----------------------------------------------------------------------------
\* One caller at most downloads a model, for whichever backend keeps the
\* record.
OneOwner ==
  \* Kubernetes: while no lease is judged late and nothing is deleted, one caller
  \* at most downloads a provider's model, whatever calls fail or replicas crash.
  /\ which = "claims" => Claims!SingleOwner
  /\ which = "legacy" => Legacy!SingleOwner
  \* Kubernetes: a download recorded under the name-only object is adopted by the
  \* callers that race to migrate it, not repeated.
  /\ which = "legacy" => Legacy!AdoptedNotRepeated
  \* Kubernetes: records of one name never answer for another provider.
  /\ which = "claims" => Claims!AnsweredForOwnProvider
  /\ which = "legacy" => Legacy!AnsweredForOwnProvider
  \* Everyone works on one backend.
  /\ which = "registryConn" => RegistryConn!OneBackend
  /\ which = "registryStart" => RegistryStart!OneBackend
  /\ which = "p2pConn" => P2PConn!OneBackend

\* Every backend implements the lease-fenced claim of DownloadClaim.
ClaimProtocol ==
  \* Kubernetes: the get, patch and lease observation of try_claim_for_download
  \* and the tests of the other patches implement the lease-fenced claim.
  /\ /\ which = "claims" => Claims!Entry("hf")!Init
     /\ [][which = "claims" => [Claims!Entry("hf")!Next]_(Claims!Entry("hf")!vars)]_vars
  \* The in-memory backend implements the lease-fenced claim.
  /\ Memory!Entry!Init /\ [][[Memory!Entry!Next]_(Memory!Entry!vars)]_vars

FirstPending ==
  \* Kubernetes: a caller that polls is served, downloads itself or dies with its
  \* replica; an owner that crashed, or a creator that never wrote its claim,
  \* does not block it for ever.  The one thing that does is a touch between the
  \* creation of an object and its first status.
  \/ which = "claims" /\ Claims!Polls(c1)
  \* Redis: every request for a model is told of a terminal status, or its
  \* replica has crashed, whatever one fault hits.
  \/ which = "download" /\ RedisDownloads!Asks(q1)
  \* A caller of a manager that is connecting gets the backend or an error, or
  \* has gone away, whoever fails or goes away while it holds the lock.
  \/ which = "registryConn" /\ RegistryConn!Served(r1)
  \/ which = "registryStart" /\ RegistryStart!Served(r1)
  \/ which = "p2pConn" /\ P2PConn!Served(r1)
  \* run_server returns once its trigger fired.
  \/ which = "life" /\ Life!ShutDown
  \* The accept loop of a TLS listener ends with the server, even while it waits
  \* for a permit and the permits for room in the channel.
  \/ which = "listen" /\ Listen!Stopped
  \* A request ends: the stream neither blocks on its bounded channel nor waits
  \* for a marker that cannot come.
  \/ which = "branch"
  \* A download from Google Cloud Storage ends.
  \/ which = "gcsNested"
  \/ which = "gcsRemoved"
  \* An NGC download ends.
  \/ which = "ngcGated"
FirstSettled ==
  \/ which = "claims" /\ (Claims!Answered(c1) \/ Claims!Wedged(c1))
  \/ which = "download" /\ RedisDownloads!Told(q1)
  \/ which = "registryConn" /\ RegistryConn!Settled(r1)
  \/ which = "registryStart" /\ RegistryStart!Settled(r1)
  \/ which = "p2pConn" /\ P2PConn!Settled(r1)
  \/ which = "life" /\ Life!Returned
  \/ which = "listen" /\ Listen!LoopEnded
  \/ which = "branch" /\ OnBranch!Ended
  \/ which = "gcsNested" /\ GcsNested!Ended(d1)
  \/ which = "gcsRemoved" /\ GcsRemoved!Ended(d1)
  \/ which = "ngcGated" /\ NgcGated!Ended(d1)

SecondPending ==
  \/ which = "claims" /\ Claims!Polls(c3)
  \/ which = "download" /\ RedisDownloads!Asks(q2)
  \/ which = "registryConn" /\ RegistryConn!Served(r2)
  \/ which = "registryStart" /\ RegistryStart!Served(r2)
  \/ which = "p2pConn" /\ P2PConn!Served(r2)
  \* No task it started keeps running after it, whichever step failed.
  \/ which = "life" /\ Life!Returned
  \* An accepted connection is served or closed.
  \/ which = "listen" /\ Listen!Accepted(c1)
  \/ which = "gcsNested"
  \/ which = "gcsRemoved"
  \/ which = "ngcGated"
SecondSettled ==
  \/ which = "claims" /\ (Claims!Answered(c3) \/ Claims!Wedged(c3))
  \/ which = "download" /\ RedisDownloads!Told(q2)
  \/ which = "registryConn" /\ RegistryConn!Settled(r2)
  \/ which = "registryStart" /\ RegistryStart!Settled(r2)
  \/ which = "p2pConn" /\ P2PConn!Settled(r2)
  \/ which = "life" /\ Life!TasksEnded
  \/ which = "listen" /\ Listen!Over(c1)
  \/ which = "gcsNested" /\ GcsNested!Ended(d2)
  \/ which = "gcsRemoved" /\ GcsRemoved!Ended(d2)
  \/ which = "ngcGated" /\ NgcGated!Ended(d2)

\* Every caller and every request is answered.
EverySettles ==
  /\ FirstPending ~> FirstSettled
  /\ SecondPending ~> SecondSettled

=============================================================================
