----------------------------- MODULE CallMetrics -----------------------------
(***************************************************************************)
(* The per-call metrics of the gRPC server and of its storage backends     *)
(* (metrics/grpc.rs, metrics/backend.rs and the instrumented backends).    *)
(*                                                                         *)
(* A call enters the metrics layer, passes the auth layer, runs its        *)
(* handler, which awaits backend operations one after the other, and ends  *)
(* with a response or by being dropped at any await.  Handlers of one      *)
(* shape are one path.                                                     *)
(***************************************************************************)
EXTENDS Naturals, Sequences, FiniteSets, TLC

CONSTANTS
  Call, None,
  Path      \* the methods that are called

VARIABLES
  call,      \* what each call is doing
  inFlight,  \* mx_grpc_requests_in_flight by method
  requests,  \* mx_grpc_requests_total by method and outcome
  latency,   \* number of samples of mx_grpc_request_seconds
  opFlight,  \* mx_backend_ops_in_flight by operation
  ops,       \* mx_backend_ops_total by operation and result
  opLatency, \* number of samples of mx_backend_op_seconds
  failures   \* history: the calls with a failed backend operation, and the operation

vars == <<call, inFlight, requests, latency, opFlight, ops, opLatency, failures>>

Outcome == {"ok", "invalid_argument", "not_found", "backend_error", "unauthenticated",
            "cancelled", "error"}

\* What each decorator times, under one name per trait method.
P2POp == {"connect", "publish_metadata", "get_metadata", "list_workers",
  "list_workers_filtered", "remove_metadata", "remove_worker", "list_sources", "update_status"}
RegistryOp == {"get_status", "get_model_record", "set_status", "touch_model", "delete_model",
  "get_models_by_last_used", "get_status_counts", "try_claim_for_download",
  "try_reset_error_for_retry", "refresh_download_claim", "finish_download_claim"}
RefitOp == {"validate_trainer_mesh_workers", "create_trainer_mesh", "get_trainer_mesh",
  "find_trainer_mesh_for_request", "update_trainer_mesh", "delete_trainer_mesh",
  "register_worker", "create_weight_version", "get_weight_version", "delete_weight_version",
  "list_weight_versions", "update_weight_version_state", "create_weight_version_shard",
  "list_weight_version_shards", "delete_weight_version_shard", "register_version_lease",
  "delete_version_lease"}

\* The operations each handler awaits, in order.
P2PHandlers ==
  [PublishMetadata |-> <<"get_metadata", "publish_metadata">>,
   ListSources |-> <<"list_workers_filtered">>,
   GetMetadata |-> <<"get_metadata">>,
   UpdateStatus |-> <<"get_metadata", "update_status">>]
MeshHandlers ==
  [CreateTrainerMesh |->
     <<"find_trainer_mesh_for_request", "validate_trainer_mesh_workers", "create_trainer_mesh">>,
   GetTrainerMesh |-> <<"get_trainer_mesh">>,
   UpdateTrainerMesh |->
     <<"get_trainer_mesh", "validate_trainer_mesh_workers", "update_trainer_mesh">>,
   DeleteTrainerMesh |-> <<"delete_trainer_mesh">>,
   RegisterWorker |-> <<"register_worker">>]
VersionHandlers ==
  [CreateWeightVersion |-> <<"get_weight_version", "create_weight_version">>,
   GetWeightVersion |-> <<"get_weight_version">>,
   UpdateWeightVersionState |-> <<"update_weight_version_state">>,
   DeleteWeightVersion |-> <<"delete_weight_version">>,
   ListWeightVersions |-> <<"list_weight_versions">>]
ShardHandlers ==
  [CreateWeightVersionShard |-> <<"create_weight_version_shard">>,
   ListWeightVersionShards |-> <<"list_weight_version_shards">>,
   DeleteWeightVersionShard |-> <<"delete_weight_version_shard">>,
   RegisterVersionLease |-> <<"register_version_lease">>,
   DeleteVersionLease |-> <<"delete_version_lease">>]
ModelHandlers ==
  [EnsureModelDownloaded |-> <<>>, StreamModelFiles |-> <<>>, ListModelFiles |-> <<>>,
   DeleteModel |-> <<"get_models_by_last_used", "delete_model">>]
OtherHandlers == [SendRequest |-> <<>>, GetHealth |-> <<>>, Watch |-> <<>>, JoinGroup |-> <<>>]

P2P == DOMAIN P2PHandlers
Refit == DOMAIN MeshHandlers \cup DOMAIN VersionHandlers \cup DOMAIN ShardHandlers
Ops == P2PHandlers @@ MeshHandlers @@ VersionHandlers @@ ShardHandlers @@ ModelHandlers
         @@ OtherHandlers

\* The label of an operation: the subsystem whose decorator times it, and its name.
Store(o) == IF o \in P2POp THEN "p2p" ELSE IF o \in RegistryOp THEN "registry" ELSE "refit"
OpLabel(p, n) == <<Store(Ops[p][n]), Ops[p][n]>>
Used == UNION {{OpLabel(p, n) : n \in DOMAIN Ops[p]} : p \in Path}

\* Unknown paths, the collective service's among them, share one label.
method_label(p) == IF p = "JoinGroup" THEN "other" ELSE p
Label == {method_label(p) : p \in Path}

\* Methods whose response head precedes the work are not recorded.
resolves_at_head(m) == m \in {"EnsureModelDownloaded", "StreamModelFiles", "Watch"}
Recorded(p) == ~resolves_at_head(method_label(p))

from_code(code) ==
  CASE code \in {"ok", "invalid_argument", "not_found", "unauthenticated"} -> code
    [] code = "permission_denied" -> "unauthenticated"
    [] code = "unavailable" -> "backend_error"
    [] OTHER -> "error"

\* A response carries the handler's own verdict, or the status it failed with.
Tagged(outcome) == [tag |-> outcome, status |-> None]
Status(code) == [tag |-> None, status |-> code]
Plain == [tag |-> None, status |-> None]

\* MUTANT of resolve_outcome: the status of the call alone.
resolve_status(r) == IF r.status # None THEN from_code(r.status) ELSE "ok"

resolve_outcome(r) ==
  IF r.tag # None THEN r.tag
  ELSE IF r.status # None THEN from_code(r.status) ELSE "ok"

\* The refusals and early answers a handler gives before its n-th operation: invalid
\* requests, records out of the caller's scope, changed generations, a mesh found.
Refusals(p, n) ==
  CASE p \in P2P /\ n = 1 -> {Tagged("invalid_argument"), Tagged("error"), Status("unauthenticated")}
    [] p = "PublishMetadata" -> {Tagged("invalid_argument")}
    [] p = "UpdateStatus" -> {Tagged("not_found")}
    [] p = "SendRequest" -> {Tagged("invalid_argument")}
    [] p \in Refit /\ n = 1 -> {Status("invalid_argument")}
    [] p = "CreateTrainerMesh" /\ n = 2 -> {Plain}
    [] p = "CreateTrainerMesh" -> {Status("failed_precondition")}
    [] p \in {"UpdateTrainerMesh", "CreateWeightVersion"} -> {Status("failed_precondition")}
    [] p \in DOMAIN ModelHandlers /\ n = 1 -> {Status("invalid_argument"), Status("unauthenticated")}
    [] OTHER -> {}

\* backend_status: the codes a refit backend's error may be reported with.
backend_status == {"invalid_argument", "not_found", "failed_precondition", "already_exists",
                   "resource_exhausted", "internal", "unavailable"}

\* What a handler may answer once its operations are through: degraded says that one
\* of them failed and the handler did not go on as if it had not.
Answers(p, degraded) ==
  CASE p \in P2P /\ degraded -> {Tagged("backend_error")}
    [] p = "GetMetadata" -> {Tagged("ok"), Tagged("not_found")}
    [] p = "DeleteModel" -> {Tagged(IF degraded THEN "backend_error" ELSE "ok")}
    [] p \in Refit /\ degraded -> {Status(c) : c \in backend_status}
    [] p \in P2P \cup {"SendRequest"} -> {Tagged("ok")}
    [] p = "ListModelFiles" -> {Plain, Status("not_found"), Status("internal")}
    [] p = "JoinGroup" -> {Plain, Status("failed_precondition"), Status("unavailable")}
    [] OTHER -> {Plain}

-----------------------------------------------------------------------------

\* The counters of a backend operation, by OpResult.
NoOps == [r \in {"ok", "error", "cancelled"} |-> 0]

Init ==
  /\ call = [c \in Call |-> None]
  /\ inFlight = [m \in Label |-> 0]
  /\ requests = [m \in Label |-> [o \in Outcome |-> 0]]
  /\ latency = [m \in Label |-> 0]
  /\ opFlight = [o \in Used |-> 0]
  /\ ops = [o \in Used |-> NoOps]
  /\ opLatency = [o \in Used |-> 0]
  /\ failures = {}

Running(c) == call[c] # None /\ call[c].pc # "ended"
At(c, pc) == call[c] # None /\ call[c].pc = pc
Set(c, r) == call' = [call EXCEPT ![c] = r]

rpcVars == <<inFlight, requests, latency>>
opVars == <<opFlight, ops, opLatency>>

\* GrpcMetricsService::call: the guard is entered before the inner service runs.
Arrive(c, p) ==
  /\ call[c] = None
  /\ Set(c, [path |-> p, pc |-> "auth", next |-> 1, degraded |-> FALSE])
  /\ inFlight' = IF Recorded(p) THEN [inFlight EXCEPT ![method_label(p)] = @ + 1] ELSE inFlight
  /\ UNCHANGED <<requests, latency, opVars, failures>>

\* The layer records the response, then the guard is dropped with pending cleared.
Ended(c, response) ==
  LET p == call[c].path
      m == method_label(p)
  IN /\ Set(c, [call[c] EXCEPT !.pc = "ended"])
     /\ IF Recorded(p)
        THEN /\ requests' = [requests EXCEPT ![m][resolve_outcome(response)] = @ + 1]
             /\ latency' = [latency EXCEPT ![m] = @ + 1]
             /\ inFlight' = [inFlight EXCEPT ![m] = @ - 1]
        ELSE UNCHANGED rpcVars

\* The auth layer inside the metrics layer admits the call or answers for it.
Admit(c) ==
  /\ At(c, "auth")
  /\ Set(c, [call[c] EXCEPT !.pc = "handler"])
  /\ UNCHANGED <<rpcVars, opVars, failures>>

Deny(c, code) ==
  /\ At(c, "auth") /\ call[c].path \notin {"GetHealth", "Watch"}
  /\ Ended(c, Status(code))
  /\ UNCHANGED <<opVars, failures>>

Refuse(c) ==
  /\ At(c, "handler") /\ ~call[c].degraded
  /\ \E r \in Refusals(call[c].path, call[c].next) : Ended(c, r)
  /\ UNCHANGED <<opVars, failures>>

\* Whether the handler goes on after a failed operation: the deletion tries its
\* fallback key when the listing fails.
GoesOn(c) == call[c].degraded => call[c].path = "DeleteModel"
OpsLeft(c) == call[c].next <= Len(Ops[call[c].path]) /\ GoesOn(c)
OpOf(c) == OpLabel(call[c].path, call[c].next)

\* Without a scope to check against, and without a base version, the first operation of
\* these handlers is left out.
Optional == {"PublishMetadata", "UpdateStatus", "CreateWeightVersion"}

\* BackendMetrics::time: the guard, then the operation.
BeginOp(c, n) ==
  /\ At(c, "handler") /\ OpsLeft(c)
  /\ n = call[c].next \/ (n = 2 /\ call[c].next = 1 /\ call[c].path \in Optional)
  /\ Set(c, [call[c] EXCEPT !.pc = "op", !.next = n])
  /\ opFlight' = [opFlight EXCEPT ![OpLabel(call[c].path, n)] = @ + 1]
  /\ UNCHANGED <<rpcVars, ops, opLatency, failures>>

Deletion == <<"registry", "delete_model">>

\* MUTANT of Degrades: a failed listing of the records is a model without records.
DegradesUnlessListing(c, result) ==
  /\ result = "error"
  /\ OpOf(c) \notin {<<"registry", "get_models_by_last_used">>, Deletion}

\* delete_status swallows the error of a record's deletion.
Degrades(c, result) == result = "error" /\ OpOf(c) # Deletion

\* MUTANT of EndOp: a failed operation leaves the gauge as it is.
EndOpLeaking(c, result) ==
  /\ At(c, "op")
  /\ opFlight' = IF result = "ok" THEN [opFlight EXCEPT ![OpOf(c)] = @ - 1] ELSE opFlight
  /\ ops' = [ops EXCEPT ![OpOf(c)][result] = @ + 1]
  /\ opLatency' = [opLatency EXCEPT ![OpOf(c)] = @ + 1]
  /\ Set(c, [call[c] EXCEPT !.pc = "handler", !.next = @ + 1,
                            !.degraded = @ \/ Degrades(c, result)])
  /\ failures' = IF result = "error" THEN failures \cup {<<c, OpOf(c)>>} ELSE failures
  /\ UNCHANGED rpcVars

EndOp(c, result) ==
  /\ At(c, "op")
  /\ opFlight' = [opFlight EXCEPT ![OpOf(c)] = @ - 1]
  /\ ops' = [ops EXCEPT ![OpOf(c)][result] = @ + 1]
  /\ opLatency' = [opLatency EXCEPT ![OpOf(c)] = @ + 1]
  /\ Set(c, [call[c] EXCEPT !.pc = "handler", !.next = @ + 1,
                            !.degraded = @ \/ Degrades(c, result)])
  /\ failures' = IF result = "error" THEN failures \cup {<<c, OpOf(c)>>} ELSE failures
  /\ UNCHANGED rpcVars

Respond(c) ==
  /\ At(c, "handler") /\ ~OpsLeft(c)
  /\ \E r \in Answers(call[c].path, call[c].degraded) : Ended(c, r)
  /\ UNCHANGED <<opVars, failures>>

\* MUTANT of Cancel: a dropped call is observed like an ended one.
CancelObserved(c) ==
  /\ Running(c)
  /\ LET m == method_label(call[c].path)
     IN IF Recorded(call[c].path)
        THEN /\ requests' = [requests EXCEPT ![m]["cancelled"] = @ + 1]
             /\ inFlight' = [inFlight EXCEPT ![m] = @ - 1]
             /\ latency' = [latency EXCEPT ![m] = @ + 1]
        ELSE UNCHANGED rpcVars
  /\ IF call[c].pc = "op"
     THEN /\ ops' = [ops EXCEPT ![OpOf(c)]["cancelled"] = @ + 1]
          /\ opFlight' = [opFlight EXCEPT ![OpOf(c)] = @ - 1]
     ELSE UNCHANGED <<ops, opFlight>>
  /\ Set(c, [call[c] EXCEPT !.pc = "ended"])
  /\ UNCHANGED <<opLatency, failures>>

\* The client goes away: both guards, still pending, are dropped with the future.
Cancel(c) ==
  /\ Running(c)
  /\ LET m == method_label(call[c].path)
     IN IF Recorded(call[c].path)
        THEN /\ requests' = [requests EXCEPT ![m]["cancelled"] = @ + 1]
             /\ inFlight' = [inFlight EXCEPT ![m] = @ - 1]
        ELSE UNCHANGED <<requests, inFlight>>
  /\ IF call[c].pc = "op"
     THEN /\ ops' = [ops EXCEPT ![OpOf(c)]["cancelled"] = @ + 1]
          /\ opFlight' = [opFlight EXCEPT ![OpOf(c)] = @ - 1]
     ELSE UNCHANGED <<ops, opFlight>>
  /\ Set(c, [call[c] EXCEPT !.pc = "ended"])
  /\ UNCHANGED <<latency, opLatency, failures>>

Next ==
  \E c \in Call :
    \/ \E p \in Path : Arrive(c, p)
    \/ Admit(c)
    \/ \E code \in {"unauthenticated", "permission_denied", "unavailable"} : Deny(c, code)
    \/ \E n \in 1..3 : BeginOp(c, n)
    \/ Refuse(c) \/ Respond(c) \/ Cancel(c)
    \/ \E r \in {"ok", "error"} : EndOp(c, r)

Spec == Init /\ [][Next]_vars

-----------------------------------------------------------------------------

Calls(P(_)) == Cardinality({c \in Call : call[c] # None /\ P(call[c])})
Total(counters) == \* of the outcomes or results of one label
  LET D == DOMAIN counters
      Sum[S \in SUBSET D] ==
        IF S = {} THEN 0
        ELSE LET x == CHOOSE x \in S : TRUE IN counters[x] + Sum[S \ {x}]
  IN Sum[D]

\* Whatever way calls end, and whichever of them run at the same time: the gauges count
\* the calls and operations that run, every recorded call is counted once, and only
\* those that produced a response are in the latency histograms.
AccountsBalance ==
  /\ \A m \in Label :
       LET Of(r) == method_label(r.path) = m /\ Recorded(r.path)
           Runs(r) == Of(r) /\ r.pc # "ended"
           Ends(r) == Of(r) /\ r.pc = "ended"
       IN /\ inFlight[m] = Calls(Runs)
          /\ Total(requests[m]) = Calls(Ends)
          /\ latency[m] = Total(requests[m]) - requests[m]["cancelled"]
  /\ \A o \in Used :
       LET Awaits(r) == r.pc = "op" /\ OpLabel(r.path, r.next) = o
       IN /\ opFlight[o] = Calls(Awaits)
          /\ opLatency[o] = ops[o]["ok"] + ops[o]["error"]

\* An outage cannot read as success: as many calls of a method are counted with another
\* outcome than ok as met a failing operation.  The one exception is the
\* deletion of a single record, whose failure the handler swallows.
OutageIsVisible ==
  \A m \in Label :
    LET hit == {c \in Call : /\ call[c] # None /\ call[c].pc = "ended"
                             /\ method_label(call[c].path) = m
                             /\ \E o \in Used \ {Deletion} : <<c, o>> \in failures}
    IN Total(requests[m]) - requests[m]["ok"] >= Cardinality(hit)
=============================================================================
