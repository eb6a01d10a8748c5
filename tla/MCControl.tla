----------------------------- MODULE MCControl ------------------------------
(***************************************************************************)
(* Small instances of the control plane.                                   *)
(***************************************************************************)
EXTENDS Naturals, Sequences, FiniteSets, TLC

CONSTANTS None, t1, t2, g1, g2, e1, e2, s1, s2, m1, v1, v2, k1, k2, st1, st2, c1, c2, llm,
  id1, r1, r2, q1, q2, x1, x2, x3, t3, c3, c4

VARIABLES
  which,  \* the component that moves in this behaviour
  registration, mesh, pins, meshVersions, meshRequest, version, versionRequest, shards,
  lease, leaseIndex, leaseDue, checkedDelta,
  callRegistration, callMesh, callPins, callMeshVersions, callMeshRequest, callVersion,
  callVersionRequest, callShards, callLease, callLeaseIndex, callLeaseDue, callCheckedDelta,
  initial, gone, call, made, answers,
  registry, entries,
  disk,
  cmCall, cmInFlight, cmRequests, cmLatency, cmOpFlight, cmOps, cmOpLatency, cmFailures,
  faRecord, faTask, faDeleter, faReader, faTransitions, faFaults, faMissed,
  idOne, idOther,
  slMain, slFailed, slReady, slTask, slSender, slLate, slShutdown, slCalls, slListener,
  slStuck,
  caValid, caPositive, caNegative, caCall, caReview, caAnswer, caRefused, caNow, caErrors,
  tlMin, tlSuites, tlGroups,
  tcLoop, tcHeld, tcConn, tcChannel, tcOpen, tcWindow, tcLogged

refitControlVars == <<registration, mesh, pins, meshVersions, meshRequest, version,
  versionRequest, shards, lease, leaseIndex, leaseDue, checkedDelta>>
refitCallsVars == <<callRegistration, callMesh, callPins, callMeshVersions, callMeshRequest,
  callVersion, callVersionRequest, callShards, callLease, callLeaseIndex, callLeaseDue,
  callCheckedDelta, initial, gone, call, made, answers>>
entryKeysVars == <<registry, entries>>
modelNamesVars == <<disk>>
callMetricsVars == <<cmCall, cmInFlight, cmRequests, cmLatency, cmOpFlight, cmOps,
  cmOpLatency, cmFailures>>
flowAccountingVars == <<faRecord, faTask, faDeleter, faReader, faTransitions, faFaults,
  faMissed>>
sourceIdentityVars == <<idOne, idOther>>
serverLifecycleVars == <<slMain, slFailed, slReady, slTask, slSender, slLate, slShutdown,
  slCalls, slListener, slStuck>>
callerAuthVars == <<caValid, caPositive, caNegative, caCall, caReview, caAnswer, caRefused,
  caNow, caErrors>>
tlsPolicyVars == <<tlMin, tlSuites, tlGroups>>
tlsListenerVars == <<tcLoop, tcHeld, tcConn, tcChannel, tcOpen, tcWindow, tcLogged>>
vars == <<which, refitControlVars, refitCallsVars, entryKeysVars, modelNamesVars,
  callMetricsVars, flowAccountingVars, sourceIdentityVars, serverLifecycleVars,
  callerAuthVars, tlsPolicyVars, tlsListenerVars>>

-----------------------------------------------------------------------------
(* Further instances of the weight refit control plane.                     *)

Trainer == [role |-> "TRAINER", model |-> llm, endpoint |-> e1]
Rebound == [Trainer EXCEPT !.endpoint = e2]
Generator == [role |-> "GENERATOR", model |-> llm, endpoint |-> None]
At(s, e) == [shard |-> s, endpoint |-> e]
MeshVersion(k) ==
  [key |-> k, model |-> llm, mesh |-> m1, s3 |-> FALSE, base |-> None, state |-> "STAGING"]
StorageVersion(k, b) == [MeshVersion(k) EXCEPT !.mesh = None, !.s3 = TRUE, !.base = b]
SplitMetadata == [w \in {t1, t2} |-> IF w = t1 THEN {Trainer} ELSE {Trainer, Rebound}]
Pair(a, b) == [w \in {t1, t2} |-> IF w = t1 THEN a ELSE b]
SplitMemberships == {Pair(At(s1, e1), At(s2, e1)), Pair(At(s2, e1), At(s1, e1)),
                     Pair(At(s1, e1), At(s1, e1)), Pair(At(s1, e1), At(s2, e2))}
LeaseWorkers == {t1, g1, g2}
LeaseMetadata == [w \in LeaseWorkers |-> IF w = t1 THEN {Trainer} ELSE {Generator}]

\* Two logical shards, split over both trainers in either order, doubled up, or
\* with t2 back at another endpoint after its registration expired.
Split == INSTANCE RefitControl WITH
  Worker <- {t1, t2}, Model <- {llm}, Endpoint <- {e1, e2}, Shard <- {s1, s2}, Mesh <- {m1},
  Version <- {v1, v2}, Key <- {k1, k2}, Stable <- {st1, st2}, Sum <- {c1, c2},
  LeaseId <- {id1}, LeaseIdOf <- [x \in {v1, v2} \X {t1, t2} |-> id1],
  WorkerMetadata <- SplitMetadata, Memberships <- SplitMemberships,
  VersionRequest <- {MeshVersion(k1)}, MaxGeneration <- 3

\* Two versions of one mesh, published with either stable digest.
Pins == INSTANCE RefitControl WITH
  Worker <- {t1}, Model <- {llm}, Endpoint <- {e1}, Shard <- {s1}, Mesh <- {m1},
  Version <- {v1, v2}, Key <- {k1, k2}, Stable <- {st1, st2}, Sum <- {c1}, LeaseId <- {id1},
  LeaseIdOf <- [x \in {v1, v2} \X {t1} |-> id1],
  WorkerMetadata <- [w \in {t1} |-> {Trainer}],
  Memberships <- {[w \in {t1} |-> At(s1, e1)]},
  VersionRequest <- {MeshVersion(k1), MeshVersion(k2)}, MaxGeneration <- 2

\* Two generators whose lease ids collide; a mesh-backed or an object storage
\* version, and a delta against it.
Leases == INSTANCE RefitControl WITH
  Worker <- LeaseWorkers, Model <- {llm}, Endpoint <- {e1, e2}, Shard <- {s1}, Mesh <- {m1},
  Version <- {v1, v2}, Key <- {k1, k2}, Stable <- {st1}, Sum <- {c1}, LeaseId <- {id1},
  LeaseIdOf <- [x \in {v1, v2} \X LeaseWorkers |-> id1], WorkerMetadata <- LeaseMetadata,
  Memberships <- {[w \in LeaseWorkers |-> IF w = t1 THEN At(s1, e1) ELSE None]},
  VersionRequest <- {MeshVersion(k1), StorageVersion(k1, None), StorageVersion(k2, v1)},
  MaxGeneration <- 2

-----------------------------------------------------------------------------
(* The refit calls of a server replica, between the scripts of others.      *)

CallMemberships == {[w \in {t1, t2} |-> IF w \in ws THEN At(s1, e1) ELSE None] : ws \in {{t1}, {t1, t2}}}
CallShard(w, c) ==
  [version |-> v1, worker |-> w, shard |-> s1, endpoint |-> e1, stable |-> st1, sum |-> c]
Ask(u, f, b, st, m, s, k) == [op |-> "CreateVersion", request |->
  [uid |-> u, format |-> f, base |-> b, storage |-> st, mesh |-> m, state |-> s, model |-> llm, key |-> k]]
EveryRequest == {Ask(None, f, b, st, m, s, k1) : f \in {"UNSPECIFIED", "FULL_TENSOR", "XOR_DELTA", "FULL_HF_CHECKPOINT"}, b \in {None, v1},
                   st \in {None, "S3", "OTHER"}, m \in {None, m1}, s \in {"STAGING", "READY", "RELEASING"}}
SomeRequests == {Ask(u, "FULL_TENSOR", None, "S3", None, s, k1) : u \in {None, v1}, s \in {"STAGING", "READY"}}
                  \cup {Ask(None, "FULL_HF_CHECKPOINT", None, "S3", None, "STAGING", k1)}
                  \cup {Ask(None, "XOR_DELTA", v1, "S3", None, "STAGING", k) : k \in {k1, k2}}
OtherCalls ==
  [op: {"UpdateState"}, version: {v1}, target: {"READY", "RELEASING"}, delete: {FALSE}]
  \cup {[op |-> "UpdateState", version |-> v1, target |-> "RELEASING", delete |-> TRUE],
        [op |-> "RegisterLease", version |-> v1, worker |-> g1]}
  \cup [op: {"ListVersions"}, model: {llm}, mesh: {None, m1}]

\* Creations and updates of a mesh.
MeshCalls == INSTANCE RefitCalls WITH
  Model <- {llm}, Endpoint <- {e1}, Shard <- {s1}, Mesh <- {m1}, Attempts <- 2,
  MaxCalls <- 2, LeaseId <- {id1}, Worker <- {t1, t2}, Version <- {}, Key <- {k1},
  Stable <- {st1}, Sum <- {c1}, LeaseIdOf <- <<>>,
  WorkerMetadata <- [w \in {t1, t2} |-> {Trainer}], Memberships <- CallMemberships,
  VersionRequest <- {}, MaxGeneration <- 3,
  Calls <- [op: {"CreateMesh"}, model: {llm}, key: {k1}, workers: CallMemberships] \cup [op: {"UpdateMesh"}, mesh: {m1}, generation: {1, 2}, workers: CallMemberships],
  registration <- callRegistration, mesh <- callMesh, pins <- callPins,
  meshVersions <- callMeshVersions, meshRequest <- callMeshRequest, version <- callVersion,
  versionRequest <- callVersionRequest, shards <- callShards, lease <- callLease,
  leaseIndex <- callLeaseIndex, leaseDue <- callLeaseDue, checkedDelta <- callCheckedDelta

\* Publications, deletions and listings.
ShardCalls == INSTANCE RefitCalls WITH
  Model <- {llm}, Endpoint <- {e1}, Shard <- {s1}, Mesh <- {m1}, Attempts <- 2,
  MaxCalls <- 1, LeaseId <- {id1}, Worker <- {t1, t2}, Version <- {v1}, Key <- {k1},
  Stable <- {st1}, Sum <- {c1, c2}, LeaseIdOf <- [x \in {v1} \X {t1, t2} |-> id1],
  WorkerMetadata <- [w \in {t1, t2} |-> {Trainer}], Memberships <- CallMemberships,
  VersionRequest <- {MeshVersion(k1)}, MaxGeneration <- 2,
  Calls <- {[op |-> "ListShards", version |-> v1]} \cup [op: {"CreateShard", "DeleteShard"}, shard: {CallShard(t1, c1)}],
  registration <- callRegistration, mesh <- callMesh, pins <- callPins,
  meshVersions <- callMeshVersions, meshRequest <- callMeshRequest, version <- callVersion,
  versionRequest <- callVersionRequest, shards <- callShards, lease <- callLease,
  leaseIndex <- callLeaseIndex, leaseDue <- callLeaseDue, checkedDelta <- callCheckedDelta

\* Every combination of the fields of a version request.
Requests == INSTANCE RefitCalls WITH
  Model <- {llm}, Endpoint <- {e1}, Shard <- {s1}, Mesh <- {m1}, Attempts <- 2,
  MaxCalls <- 1, LeaseId <- {id1}, Worker <- {t1}, Version <- {v1, v2}, Key <- {k1, k2},
  Stable <- {st1}, Sum <- {c1}, LeaseIdOf <- [x \in {v1, v2} \X {t1} |-> id1],
  WorkerMetadata <- [w \in {t1} |-> {Trainer}],
  Memberships <- {[w \in {t1} |-> At(s1, e1)]},
  VersionRequest <- {StorageVersion(k2, None)}, MaxGeneration <- 1, Calls <- EveryRequest,
  registration <- callRegistration, mesh <- callMesh, pins <- callPins,
  meshVersions <- callMeshVersions, meshRequest <- callMeshRequest, version <- callVersion,
  versionRequest <- callVersionRequest, shards <- callShards, lease <- callLease,
  leaseIndex <- callLeaseIndex, leaseDue <- callLeaseDue, checkedDelta <- callCheckedDelta

\* Creations and state changes of versions, and leases on them.
VersionCalls == INSTANCE RefitCalls WITH
  Model <- {llm}, Endpoint <- {e1}, Shard <- {s1}, Mesh <- {m1}, Attempts <- 2,
  MaxCalls <- 2, LeaseId <- {id1}, Worker <- {g1}, Version <- {v1, v2}, Key <- {k1, k2},
  Stable <- {st1}, Sum <- {c1}, LeaseIdOf <- [x \in {v1, v2} \X {g1} |-> id1],
  WorkerMetadata <- [w \in {g1} |-> {Generator}], Memberships <- {},
  VersionRequest <- {StorageVersion(k1, None)}, MaxGeneration <- 1,
  Calls <- SomeRequests \cup OtherCalls, registration <- callRegistration, mesh <- callMesh,
  pins <- callPins, meshVersions <- callMeshVersions, meshRequest <- callMeshRequest,
  version <- callVersion, versionRequest <- callVersionRequest, shards <- callShards,
  lease <- callLease, leaseIndex <- callLeaseIndex, leaseDue <- callLeaseDue,
  checkedDelta <- callCheckedDelta

-----------------------------------------------------------------------------
(* Registry keys.                                                           *)

\* Every name of up to five fields, among them the prefixes and the flags of
\* the encoding.
Keys == INSTANCE EntryKeys WITH
  Name <- UNION {[1..n -> {"mx1", "mxt1", "m"}] : n \in 1..5}, Label <- {"m", "mx1"},
  Tenant <- {"m", "mx1"}, Revision <- {"m", "mx1"}, MaxRecords <- 1

\* Two records at a time, short names.
KeyPairs == INSTANCE EntryKeys WITH
  Name <- UNION {[1..n -> {"mx1", "m"}] : n \in 1..2}, Label <- {"m", "mx1"},
  Tenant <- {"m"}, Revision <- {"m"}, MaxRecords <- 2

-----------------------------------------------------------------------------
(* Model names.                                                             *)

NgcSegment(s) == [name |-> s, version |-> None]
HubNames == {<<<<"o">>, <<"x">>>>, <<<<"o">>, <<"x", "y">>>>, <<<<"o", "x">>, <<"y">>>>, <<<<"x">>>>}
UrlNames == {<<"a">>} \cup {<<b>> \o s : b \in {"a", ".", "..", ""}, s \in UNION {[1..n -> {"a", ".", ""}] : n \in 1..2}}
            \cup {<<"a", "a", "a", "">>}
NgcNames == UNION {[1..n -> {NgcSegment("a"), NgcSegment("models")}] : n \in 3..5} \cup
            {<<NgcSegment("a"), NgcSegment("b"), [name |-> "x", version |-> "v"]>>,
             <<NgcSegment("a"), NgcSegment("."), NgcSegment("b")>>, <<NgcSegment("a")>>}

\* Two models at a time.
Names == INSTANCE ModelNames WITH
  HubName <- HubNames, UrlName <- UrlNames, NgcName <- NgcNames, MaxModels <- 2

-----------------------------------------------------------------------------
(* Two concurrent gRPC calls and their backend operations.                  *)

AllMethods == {"PublishMetadata", "ListSources", "GetMetadata", "UpdateStatus", "CreateTrainerMesh",
  "GetTrainerMesh", "UpdateTrainerMesh", "DeleteTrainerMesh", "RegisterWorker",
  "CreateWeightVersion", "GetWeightVersion", "UpdateWeightVersionState", "DeleteWeightVersion",
  "ListWeightVersions", "CreateWeightVersionShard", "ListWeightVersionShards",
  "DeleteWeightVersionShard", "RegisterVersionLease", "DeleteVersionLease",
  "EnsureModelDownloaded", "StreamModelFiles", "ListModelFiles", "DeleteModel", "SendRequest",
  "GetHealth", "Watch", "JoinGroup"}

\* Two concurrent calls of handlers of every shape.
Calls == INSTANCE CallMetrics WITH
  Call <- {r1, r2},
  Path <- {"UpdateStatus", "GetMetadata", "DeleteModel", "GetWeightVersion", "StreamModelFiles", "SendRequest"},
  call <- cmCall, inFlight <- cmInFlight, requests <- cmRequests, latency <- cmLatency,
  opFlight <- cmOpFlight, ops <- cmOps, opLatency <- cmOpLatency, failures <- cmFailures

\* One call of any method.
Methods == INSTANCE CallMetrics WITH
  Call <- {r1}, Path <- AllMethods, call <- cmCall, inFlight <- cmInFlight,
  requests <- cmRequests, latency <- cmLatency, opFlight <- cmOpFlight, ops <- cmOps,
  opLatency <- cmOpLatency, failures <- cmFailures

-----------------------------------------------------------------------------
(* Three downloads of a model's two entries, a deletion of the model and a  *)
(* request that finds its files missing.                                    *)

Flow == INSTANCE FlowAccounting WITH
  Key <- {e1, e2}, Fallback <- e1, Task <- {t1, t2, t3}, Deleter <- {g1}, Reader <- {q1},
  MaxFaults <- 1, record <- faRecord, task <- faTask, deleter <- faDeleter,
  reader <- faReader, transitions <- faTransitions, faults <- faFaults, missed <- faMissed

-----------------------------------------------------------------------------
(* Pairs of source identities.                                              *)

Ids == INSTANCE SourceIdentity WITH
  Key <- {<<1, "upper">>, <<1, "lower">>, <<2, "lower">>},
  Value <- {<<1, "lower">>, <<1, "upper">>, <<2, "lower">>},
  Version <- {<<0, "lower">>, <<1, "upper">>}, MaxExtra <- 2, one <- idOne, other <- idOther

-----------------------------------------------------------------------------
(* One run of the server, from its first step to its last.                  *)

Life == INSTANCE ServerLifecycle WITH
  Eviction <- TRUE, Metrics <- TRUE, main <- slMain, failed <- slFailed, ready <- slReady,
  task <- slTask, sender <- slSender, late <- slLate, shutdown <- slShutdown,
  calls <- slCalls, listener <- slListener, stuck <- slStuck

\* Without eviction and without metrics.
LifeBare == INSTANCE ServerLifecycle WITH
  Eviction <- FALSE, Metrics <- FALSE, main <- slMain, failed <- slFailed, ready <- slReady,
  task <- slTask, sender <- slSender, late <- slLate, shutdown <- slShutdown,
  calls <- slCalls, listener <- slListener, stuck <- slStuck

-----------------------------------------------------------------------------
(* Calls whose tokens are checked.                                          *)

\* Two concurrent calls with one token that is revoked and accepted again.
Auth == INSTANCE CallerAuth WITH
  Call <- {r1, r2}, Token <- {x1}, Identity <- [t \in {x1} |-> s1],
  Audience <- [t \in {x1} |-> {e1}], audiences <- {e1, e2}, Allowlist <- {s1}, Ttl <- 2,
  MaxTime <- 3, MaxErrors <- 1, valid <- caValid, positive <- caPositive,
  negative <- caNegative, call <- caCall, review <- caReview, answer <- caAnswer,
  refused <- caRefused, now <- caNow, errors <- caErrors

\* Tokens of other audiences, other callers and no service account.
AuthMany == INSTANCE CallerAuth WITH
  Call <- {r1}, Token <- {x1, x2, x3},
  Identity <- [t \in {x1, x2, x3} |-> IF t = x1 THEN s1 ELSE IF t = x2 THEN s2 ELSE None],
  Audience <- [t \in {x1, x2, x3} |-> IF t = x3 THEN {e1} ELSE {e2}], audiences <- {},
  Allowlist <- {s1}, Ttl <- 1, MaxTime <- 1, MaxErrors <- 0, valid <- caValid,
  positive <- caPositive, negative <- caNegative, call <- caCall, review <- caReview,
  answer <- caAnswer, refused <- caRefused, now <- caNow, errors <- caErrors

\* A token for another audience.
AuthOther == INSTANCE CallerAuth WITH
  Call <- {r1}, Token <- {x1}, Identity <- [t \in {x1} |-> s1],
  Audience <- [t \in {x1} |-> {e2}], audiences <- {e1}, Allowlist <- {s1}, Ttl <- 1,
  MaxTime <- 2, MaxErrors <- 1, valid <- caValid, positive <- caPositive,
  negative <- caNegative, call <- caCall, review <- caReview, answer <- caAnswer,
  refused <- caRefused, now <- caNow, errors <- caErrors

\* What the proofs assume of the constants holds of these instances.
ASSUME CallerAuthAssumption == Auth!WellFormed /\ AuthMany!WellFormed /\ AuthOther!WellFormed

-----------------------------------------------------------------------------
(* TLS configurations.                                                      *)

Tls == INSTANCE TlsPolicy WITH
  Name12 <- {"t12", "cbc", "chacha", "x12"}, Name13 <- {"t13", "ccm", "x13"},
  OpenSsl12 <- {"t12", "cbc"}, Rustls12 <- {"t12", "chacha"}, Default12 <- {"t12"},
  OpenSsl13 <- {"t13", "ccm"}, Rustls13 <- {"t13"}, Default13 <- {"t13"}, Operator <- "op",
  Blank <- "blank",
  OpenSslGroup <- [n \in {"p256", "prime256v1", "mlkem"} |-> IF n = "mlkem" THEN "m" ELSE "p"],
  RustlsGroup <- [n \in {"p256", "prime256v1", "x25519"} |-> IF n = "x25519" THEN "x" ELSE "p"],
  DefaultGroups <- {"p", "m"}, UnknownGroup <- "gx", MaxNames <- 2, min <- tlMin,
  suites <- tlSuites, groups <- tlGroups

-----------------------------------------------------------------------------
(* Connections of a TLS listener.                                           *)

Listen == INSTANCE TlsListener WITH
  Conn <- {c1, c2, c3, c4}, MAX_CONCURRENT_HANDSHAKES <- 2, ACCEPT_BACKLOG <- 1,
  MaxReports <- 2, loop <- tcLoop, held <- tcHeld, conn <- tcConn, channel <- tcChannel,
  open <- tcOpen, window <- tcWindow, logged <- tcLogged

-----------------------------------------------------------------------------
\* The other components do not move.
Init ==
  /\ which \in {"split", "pins", "leases", "meshCalls", "shardCalls", "requests",
       "versionCalls", "keys", "keyPairs", "names", "calls", "methods", "flow",
       "ids", "life", "lifeBare", "auth", "authMany", "authOther", "tls",
       "listen"}
  /\ IF which = "split" THEN Split!Init ELSE IF which = "pins" THEN Pins!Init ELSE Leases!Init
  /\ IF which = "meshCalls" THEN MeshCalls!Init
     ELSE IF which = "shardCalls" THEN ShardCalls!Init
     ELSE IF which = "requests" THEN Requests!Init
     ELSE IF which = "versionCalls" THEN VersionCalls!Init
     ELSE callRegistration = None /\ callMesh = None /\ callPins = None /\
          callMeshVersions = None /\ callMeshRequest = None /\
          callVersion = None /\ callVersionRequest = None /\ callShards = None /\
          callLease = None /\ callLeaseIndex = None /\ callLeaseDue = None /\
          callCheckedDelta = None /\ initial = None /\ gone = None /\
          call = None /\ made = None /\ answers = None
  /\ IF which = "keys" THEN Keys!Init
     ELSE IF which = "keyPairs" THEN KeyPairs!Init
     ELSE registry = None /\ entries = None
  /\ IF which = "names" THEN Names!Init
     ELSE disk = None
  /\ IF which = "calls" THEN Calls!Init
     ELSE IF which = "methods" THEN Methods!Init
     ELSE cmCall = None /\ cmInFlight = None /\ cmRequests = None /\
          cmLatency = None /\ cmOpFlight = None /\ cmOps = None /\
          cmOpLatency = None /\ cmFailures = None
  /\ IF which = "flow" THEN Flow!Init
     ELSE faRecord = None /\ faTask = None /\ faDeleter = None /\
          faReader = None /\ faTransitions = None /\ faFaults = None /\
          faMissed = None
  /\ IF which = "ids" THEN Ids!Init
     ELSE idOne = None /\ idOther = None
  /\ IF which = "life" THEN Life!Init
     ELSE IF which = "lifeBare" THEN LifeBare!Init
     ELSE slMain = None /\ slFailed = None /\ slReady = None /\ slTask = None /\
          slSender = None /\ slLate = None /\ slShutdown = None /\
          slCalls = None /\ slListener = None /\ slStuck = None
  /\ IF which = "auth" THEN Auth!Init
     ELSE IF which = "authMany" THEN AuthMany!Init
     ELSE IF which = "authOther" THEN AuthOther!Init
     ELSE caValid = None /\ caPositive = None /\ caNegative = None /\
          caCall = None /\ caReview = None /\ caAnswer = None /\
          caRefused = None /\ caNow = None /\ caErrors = None
  /\ IF which = "tls" THEN Tls!Init
     ELSE tlMin = None /\ tlSuites = None /\ tlGroups = None
  /\ IF which = "listen" THEN Listen!Init
     ELSE tcLoop = None /\ tcHeld = None /\ tcConn = None /\ tcChannel = None /\
          tcOpen = None /\ tcWindow = None /\ tcLogged = None

OnlyRefitControl == UNCHANGED <<which, refitCallsVars, entryKeysVars, modelNamesVars,
  callMetricsVars, flowAccountingVars, sourceIdentityVars, serverLifecycleVars,
  callerAuthVars, tlsPolicyVars, tlsListenerVars>>
OnlyRefitCalls == UNCHANGED <<which, refitControlVars, entryKeysVars, modelNamesVars,
  callMetricsVars, flowAccountingVars, sourceIdentityVars, serverLifecycleVars,
  callerAuthVars, tlsPolicyVars, tlsListenerVars>>
OnlyEntryKeys == UNCHANGED <<which, refitControlVars, refitCallsVars, modelNamesVars,
  callMetricsVars, flowAccountingVars, sourceIdentityVars, serverLifecycleVars,
  callerAuthVars, tlsPolicyVars, tlsListenerVars>>
OnlyModelNames == UNCHANGED <<which, refitControlVars, refitCallsVars, entryKeysVars,
  callMetricsVars, flowAccountingVars, sourceIdentityVars, serverLifecycleVars,
  callerAuthVars, tlsPolicyVars, tlsListenerVars>>
OnlyCallMetrics == UNCHANGED <<which, refitControlVars, refitCallsVars, entryKeysVars,
  modelNamesVars, flowAccountingVars, sourceIdentityVars, serverLifecycleVars,
  callerAuthVars, tlsPolicyVars, tlsListenerVars>>
OnlyFlowAccounting == UNCHANGED <<which, refitControlVars, refitCallsVars, entryKeysVars,
  modelNamesVars, callMetricsVars, sourceIdentityVars, serverLifecycleVars, callerAuthVars,
  tlsPolicyVars, tlsListenerVars>>
OnlySourceIdentity == UNCHANGED <<which, refitControlVars, refitCallsVars, entryKeysVars,
  modelNamesVars, callMetricsVars, flowAccountingVars, serverLifecycleVars, callerAuthVars,
  tlsPolicyVars, tlsListenerVars>>
OnlyServerLifecycle == UNCHANGED <<which, refitControlVars, refitCallsVars, entryKeysVars,
  modelNamesVars, callMetricsVars, flowAccountingVars, sourceIdentityVars, callerAuthVars,
  tlsPolicyVars, tlsListenerVars>>
OnlyCallerAuth == UNCHANGED <<which, refitControlVars, refitCallsVars, entryKeysVars,
  modelNamesVars, callMetricsVars, flowAccountingVars, sourceIdentityVars,
  serverLifecycleVars, tlsPolicyVars, tlsListenerVars>>
OnlyTlsPolicy == UNCHANGED <<which, refitControlVars, refitCallsVars, entryKeysVars,
  modelNamesVars, callMetricsVars, flowAccountingVars, sourceIdentityVars,
  serverLifecycleVars, callerAuthVars, tlsListenerVars>>
OnlyTlsListener == UNCHANGED <<which, refitControlVars, refitCallsVars, entryKeysVars,
  modelNamesVars, callMetricsVars, flowAccountingVars, sourceIdentityVars,
  serverLifecycleVars, callerAuthVars, tlsPolicyVars>>

Next ==
  \/ which = "split" /\ Split!Next /\ OnlyRefitControl
  \/ which = "pins" /\ Pins!Next /\ OnlyRefitControl
  \/ which = "leases" /\ Leases!Next /\ OnlyRefitControl
  \/ which = "meshCalls" /\ MeshCalls!Next /\ OnlyRefitCalls
  \/ which = "shardCalls" /\ ShardCalls!Next /\ OnlyRefitCalls
  \/ which = "requests" /\ Requests!Next /\ OnlyRefitCalls
  \/ which = "versionCalls" /\ VersionCalls!Next /\ OnlyRefitCalls
  \/ which = "keys" /\ Keys!Next /\ OnlyEntryKeys
  \/ which = "keyPairs" /\ KeyPairs!Next /\ OnlyEntryKeys
  \/ which = "names" /\ Names!Next /\ OnlyModelNames
  \/ which = "calls" /\ Calls!Next /\ OnlyCallMetrics
  \/ which = "methods" /\ Methods!Next /\ OnlyCallMetrics
  \/ which = "flow" /\ Flow!Next /\ OnlyFlowAccounting
  \/ which = "ids" /\ Ids!Next /\ OnlySourceIdentity
  \/ which = "life" /\ Life!Next /\ OnlyServerLifecycle
  \/ which = "lifeBare" /\ LifeBare!Next /\ OnlyServerLifecycle
  \/ which = "auth" /\ Auth!Next /\ OnlyCallerAuth
  \/ which = "authMany" /\ AuthMany!Next /\ OnlyCallerAuth
  \/ which = "authOther" /\ AuthOther!Next /\ OnlyCallerAuth
  \/ which = "tls" /\ Tls!Next /\ OnlyTlsPolicy
  \/ which = "listen" /\ Listen!Next /\ OnlyTlsListener

Spec ==
  /\ Init /\ [][Next]_vars

-----------------------------------------------------------------------------
\* What the weight refit control plane holds is consistent.
RefitState ==
  \* Refit: every publication of a version belongs to a worker that the present
  \* membership of the version's mesh binds to that shard at that endpoint.
  /\ which = "split" => Split!PublishersAreMembers
  \* Refit: within one mesh generation a worker publishes one stable metadata
  \* digest per shard, across all versions.
  /\ which = "pins" => Pins!StableWithinGeneration
  \* Refit: the members of a mesh hold the logical shards it was created with.
  /\ which = "split" => Split!MeshKeepsShards
  \* Refit: retries of a create under one idempotency key make one version.
  /\ which = "leases" => Leases!OneVersionPerRequest
  \* Refit: an unexpired lease stays in its version's index, also when another
  \* worker uses or releases a colliding lease id.
  /\ which = "leases" => Leases!LeasesIndexed
  \* Creates of a mesh under one idempotency key are answered alike.
  /\ which = "meshCalls" => MeshCalls!MeshAnswersAgree
  /\ which = "shardCalls" => ShardCalls!MeshAnswersAgree
  /\ which = "requests" => Requests!MeshAnswersAgree
  /\ which = "versionCalls" => VersionCalls!MeshAnswersAgree
  \* A create or an update is answered with the mesh it made or a later
  \* generation.
  /\ which = "meshCalls" => MeshCalls!MeshAnswersHold
  /\ which = "shardCalls" => ShardCalls!MeshAnswersHold
  /\ which = "requests" => Requests!MeshAnswersHold
  /\ which = "versionCalls" => VersionCalls!MeshAnswersHold
  \* Creates of a version under one idempotency key are answered alike.
  /\ which = "meshCalls" => MeshCalls!VersionAnswersAgree
  /\ which = "shardCalls" => ShardCalls!VersionAnswersAgree
  /\ which = "requests" => Requests!VersionAnswersAgree
  /\ which = "versionCalls" => VersionCalls!VersionAnswersAgree
  \* A request sent again is answered with the version it was answered with
  \* before, or refused because its base has left READY.
  /\ which = "meshCalls" => MeshCalls!RetriesAnswered
  /\ which = "shardCalls" => ShardCalls!RetriesAnswered
  /\ which = "requests" => Requests!RetriesAnswered
  /\ which = "versionCalls" => VersionCalls!RetriesAnswered
  \* Versions live in a mesh or in object storage.
  /\ which = "meshCalls" => MeshCalls!ModesAreSound
  /\ which = "shardCalls" => ShardCalls!ModesAreSound
  /\ which = "requests" => Requests!ModesAreSound
  /\ which = "versionCalls" => VersionCalls!ModesAreSound
  \* A listing shows what stayed visible while it ran.
  /\ which = "meshCalls" => MeshCalls!ListingsHold
  /\ which = "shardCalls" => ShardCalls!ListingsHold
  /\ which = "requests" => Requests!ListingsHold
  /\ which = "versionCalls" => VersionCalls!ListingsHold
  \* A deletion removes the publication it read.
  /\ which = "meshCalls" => MeshCalls!DeletesWhatItRead
  /\ which = "shardCalls" => ShardCalls!DeletesWhatItRead
  /\ which = "requests" => Requests!DeletesWhatItRead
  /\ which = "versionCalls" => VersionCalls!DeletesWhatItRead

\* What no step of the weight refit control plane does.
RefitSteps ==
  \* Refit: what a step leaves at a publication key it found there unchanged.
  /\ Split!PublicationsImmutable
  \* Refit: a mesh-backed version becomes READY only when live, correctly bound
  \* members have published every logical shard.
  /\ Split!ReadyMeansCovered
  \* Refit: an unexpired lease is never handed to another worker.
  /\ Leases!LeaseNotTaken

\* Names, keys and directories stand for one another.
NamesResolve ==
  \* Every registry key reads back as the entry it was written for, and clearing
  \* a model clears its entries only.
  /\ which = "keys" => Keys!KeysStandForEntries
  /\ which = "keyPairs" => KeyPairs!KeysStandForEntries
  \* Names read as different models have different cache directories, but for
  \* double hyphens in Hugging Face names and dots as S3 buckets.
  /\ which = "names" => Names!DirectoriesApart
  \* A listed name is read back as the directory it was listed for.
  /\ which = "names" => Names!ListedNamesResolve
  \* Every model on disk is listed, unless NGC files it below another one or S3
  \* was given a dot as its bucket.
  /\ which = "names" => Names!EveryModelListed

\* What the server counts, serves, admits and negotiates agrees with what
\* happened.
ServerState ==
  \* Gauges and counters of calls and backend operations agree with what ran.
  /\ which = "calls" => Calls!AccountsBalance
  /\ which = "methods" => Methods!AccountsBalance
  \* A call that met a failing backend is not counted as a success.
  /\ which = "calls" => Calls!OutageIsVisible
  /\ which = "methods" => Methods!OutageIsVisible
  \* The download flow counters balance, up to one for each record that moved
  \* unseen under a deletion or a failed call.
  /\ which = "flow" => Flow!FlowBalances
  \* Identities that agree up to case have one id.
  /\ which = "ids" => Ids!SameSourceSameId
  \* Nothing is served early, and the listener outlives the drain.
  /\ which = "life" => Life!ServedInOrder
  /\ which = "lifeBare" => LifeBare!ServedInOrder
  \* Admission rests on a recent review.
  /\ which = "auth" => Auth!AdmittedIsVouched
  /\ which = "authMany" => AuthMany!AdmittedIsVouched
  /\ which = "authOther" => AuthOther!AdmittedIsVouched
  \* A TLS policy is kept by both backends.
  /\ which = "tls" => Tls!PolicyIsKept
  \* Failed handshakes are reported, permits and channel bounded.
  /\ which = "listen" => Listen!FailuresAreReported

=============================================================================
