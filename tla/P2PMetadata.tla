----------------------------- MODULE P2PMetadata -----------------------------
(***************************************************************************)
(* Registration of the workers of one P2P weight source: the publisher     *)
(* thread of each worker (metadata/publisher.py), the Redis keys it keeps  *)
(* alive through the server (p2p/backend/redis.rs), and the reaper that    *)
(* every server replica runs (p2p/reaper.rs).                              *)
(*                                                                         *)
(* Redis executes scripts atomically; a publication is a pipeline of four  *)
(* writes that other commands may interleave with.  A status update is     *)
(* stamped by the server before its script runs, so two updates may be     *)
(* applied in the other order.  A client that reaches its deadline goes on *)
(* while its command may still be on the way: one such late command per    *)
(* worker is kept.                                                         *)
(*                                                                         *)
(* A timestamp is modelled by its age.  Ages saturate at MaxAge, which no  *)
(* timeout reaches; MaxAge also stands for an updated_at of 0.             *)
(***************************************************************************)
EXTENDS Naturals, FiniteSets

CONSTANTS
  Worker, Replica,
  Republishing,     \* the workers whose publisher has a publish_fn
  HeartbeatTimeout, \* MX_HEARTBEAT_TIMEOUT_SECS
  GcTimeout,        \* MX_GC_TIMEOUT_SECS
  MaxDelay,         \* bound: how long a command is on its way to Redis
  MaxAge,           \* bound: the largest age told apart
  Fault,            \* the kinds of faults of this instance
  MaxFaults,        \* bound: how many of them happen
  None

Status == {"UNKNOWN", "INITIALIZING", "READY", "STALE"}
Age == 0 .. MaxAge

\* A command the server sends to Redis for a worker's request: the next write
\* of a publication, or a stamped status update.
Command == [kind: {"publish", "status"}, step: 1 .. 4, status: Status, age: Age]

ASSUME ConstantAssumption ==
  /\ Republishing \subseteq Worker
  /\ HeartbeatTimeout \in Nat /\ GcTimeout \in Nat /\ MaxDelay \in Nat /\ MaxAge \in Nat
  /\ MaxDelay <= HeartbeatTimeout
  /\ HeartbeatTimeout < MaxAge /\ GcTimeout < MaxAge
  /\ MaxFaults \in Nat
  /\ Fault \subseteq {"crash", "exit", "error", "reply", "deadline", "health", "unready",
                      "flush", "restart", "giveup", "store"}
  /\ None \notin Status \cup Command \cup Worker \cup (Worker \X Age)

VARIABLES
  records,  \* the workers whose hash holds a record (the field of the rank)
  status,   \* the status in their status field, or None
  age,      \* the age of its updated_at
  index,    \* the workers listed in the source's index hash
  attrs,    \* whether the index hash holds __attributes__
  pc,       \* what each publisher thread is doing
  sourceId, \* the workers with an mx_source_id
  started,  \* _started
  demoted,  \* _unhealthy
  rejected, \* _heartbeat_rejections
  stopping, \* _stop_event
  healthy,  \* the workers whose NIXL agent is healthy
  ready,    \* the workers whose ready_fn holds, or that have none
  rpc,      \* the command of the request a publisher waits for
  late,     \* a command whose client has given up
  plan,     \* what each reaper decided for the workers it listed
  marking,  \* the status update a reaper is sending
  goneFor,  \* how long ago each worker ended
  retired,  \* history: the workers whose final STALE was accepted
  faults    \* how many faults of each kind there have been

redisVars == <<records, status, age, index, attrs>>
publisherVars == <<sourceId, started, demoted, rejected, stopping, retired>>
reaperVars == <<plan, marking>>
vars == <<redisVars, pc, publisherVars, healthy, ready, rpc, late, reaperVars, goneFor, faults>>

\* REREGISTER_AFTER_CONSECUTIVE_REJECTIONS
ReregisterAfter == 2

NoPlan == [w \in Worker |-> "keep"]

Init ==
  /\ records = {} /\ index = {} /\ attrs = FALSE
  /\ status = [w \in Worker |-> None]
  /\ age = [w \in Worker |-> 0]
  /\ pc = [w \in Worker |-> "idle"]
  /\ sourceId = {} /\ started = {} /\ demoted = {} /\ stopping = {} /\ retired = {}
  /\ rejected = [w \in Worker |-> 0]
  /\ healthy = Worker
  /\ ready \in SUBSET Worker
  /\ rpc = [w \in Worker |-> None]
  /\ late = [w \in Worker |-> None]
  /\ plan = [r \in Replica |-> NoPlan]
  /\ marking = [r \in Replica |-> None]
  /\ goneFor = [w \in Worker |-> 0]
  /\ faults = [k \in Fault |-> 0]

\* One more fault of this kind, while the budget lasts.
FaultOf(kind) ==
  /\ kind \in Fault
  /\ Cardinality({f \in Fault \X (1 .. MaxFaults) : f[2] <= faults[f[1]]}) < MaxFaults
  /\ faults' = [faults EXCEPT ![kind] = faults[kind] + 1]

Ended(w) == pc[w] = "ended"

-----------------------------------------------------------------------------
(* The Redis scripts                                                       *)

\* MUTANT of Fresh: every update is taken for the newest.
AnyIsFresh(w, a) == TRUE

\* UPDATE_STATUS_IF_FRESH_LUA: an update is refused without a record, ignored
\* when a newer one was applied, and re-creates a missing index entry.
Fresh(w, a) == status[w] # None => age[w] >= a
Accepted(w) == w \in records

\* MUTANT of ApplyStatus: the update is stamped when the script runs.
ApplyStatusStampedLate(w, s, a) ==
  IF Accepted(w) /\ Fresh(w, a)
  THEN /\ status' = [status EXCEPT ![w] = s]
       /\ age' = [age EXCEPT ![w] = 0]
       /\ index' = index \cup {w}
       /\ UNCHANGED <<records, attrs>>
  ELSE UNCHANGED redisVars

ApplyStatus(w, s, a) ==
  IF Accepted(w) /\ Fresh(w, a)
  THEN /\ status' = [status EXCEPT ![w] = s]
       /\ age' = [age EXCEPT ![w] = a]
       /\ index' = index \cup {w}
       /\ UNCHANGED <<records, attrs>>
  ELSE UNCHANGED redisVars

\* The four writes of publish_metadata: the record, its status field, the
\* attributes and the index entry.  Clients leave status and updated_at unset.
ApplyWrite(w, step) ==
  \/ /\ step = 1
     /\ records' = records \cup {w}
     /\ UNCHANGED <<status, age, index, attrs>>
  \/ /\ step = 2
     /\ status' = [status EXCEPT ![w] = "UNKNOWN"]
     /\ age' = [age EXCEPT ![w] = MaxAge]
     /\ UNCHANGED <<records, index, attrs>>
  \/ /\ step = 3
     /\ attrs' = TRUE
     /\ UNCHANGED <<records, status, age, index>>
  \/ /\ step = 4
     /\ index' = index \cup {w}
     /\ UNCHANGED <<records, status, age, attrs>>

\* MUTANT of ApplyRemove: the worker's hash is kept.
RemoveIndexEntryOnly(w) ==
  /\ index' = index \ {w}
  /\ attrs' = (attrs /\ index \ {w} # {})
  /\ UNCHANGED <<records, status, age>>

\* REMOVE_WORKER_LUA: the worker's hash and index entry, and the index hash
\* with them when no other worker is listed.
ApplyRemove(w) ==
  /\ records' = records \ {w}
  /\ status' = [status EXCEPT ![w] = None]
  /\ age' = [age EXCEPT ![w] = 0]
  /\ index' = index \ {w}
  /\ attrs' = (attrs /\ index \ {w} # {})

-----------------------------------------------------------------------------
(* The publisher thread                                                    *)

PublishCommand == [kind |-> "publish", step |-> 1, status |-> "UNKNOWN", age |-> 0]
StatusCommand(s) == [kind |-> "status", step |-> 1, status |-> s, age |-> 0]

\* _try_publish of a tick, once ready_fn holds: the request reaches a server.
Publish(w) ==
  /\ pc[w] = "idle" /\ w \notin stopping /\ w \notin sourceId /\ w \in ready
  /\ pc' = [pc EXCEPT ![w] = "publish"]
  /\ rpc' = [rpc EXCEPT ![w] = PublishCommand]
  /\ UNCHANGED <<redisVars, publisherVars, healthy, ready, late, reaperVars, goneFor, faults>>

\* The rest of a tick with a healthy agent: the READY heartbeat.
Beat(w) ==
  /\ pc[w] = "idle" /\ w \notin stopping /\ w \in sourceId /\ w \in healthy
  /\ pc' = [pc EXCEPT ![w] = "ready"]
  /\ rpc' = [rpc EXCEPT ![w] = StatusCommand("READY")]
  /\ UNCHANGED <<redisVars, publisherVars, healthy, ready, late, reaperVars, goneFor, faults>>

\* _mark_unhealthy, once per failure and only after a first READY.
Demote(w) ==
  /\ pc[w] = "idle" /\ w \notin stopping /\ w \in sourceId /\ w \notin healthy
  /\ w \in started /\ w \notin demoted
  /\ pc' = [pc EXCEPT ![w] = "demote"]
  /\ rpc' = [rpc EXCEPT ![w] = StatusCommand("STALE")]
  /\ UNCHANGED <<redisVars, publisherVars, healthy, ready, late, reaperVars, goneFor, faults>>

\* stop and _on_exit set the event; the thread ends its tick first.
RequestStop(w) ==
  /\ ~Ended(w) /\ w \notin stopping
  /\ FaultOf("exit")
  /\ stopping' = stopping \cup {w}
  /\ UNCHANGED <<redisVars, pc, sourceId, started, demoted, rejected, retired, healthy, ready,
                 rpc, late, reaperVars, goneFor>>

\* _publish_timed_out: the thread stops without a registration.
GiveUp(w) ==
  /\ pc[w] = "idle" /\ w \notin stopping /\ w \notin sourceId
  /\ FaultOf("giveup")
  /\ stopping' = stopping \cup {w}
  /\ UNCHANGED <<redisVars, pc, sourceId, started, demoted, rejected, retired, healthy, ready,
                 rpc, late, reaperVars, goneFor>>

\* The command of the request goes on without its client.
Abandon(w) ==
  /\ rpc[w] # None => late[w] = None
  /\ rpc' = [rpc EXCEPT ![w] = None]
  /\ late' = IF rpc[w] = None THEN late ELSE [late EXCEPT ![w] = rpc[w]]

\* _mark_stale: it waits for a status request (_status_lock), but not for a
\* publication when the join has timed out.
MarkStale(w) ==
  /\ w \in stopping /\ w \in started /\ w \in sourceId
  /\ pc[w] = "idle"
  /\ pc' = [pc EXCEPT ![w] = "stale"]
  /\ rpc' = [rpc EXCEPT ![w] = StatusCommand("STALE")]
  /\ UNCHANGED <<redisVars, publisherVars, healthy, ready, late, reaperVars, goneFor, faults>>

LeaveSilently(w) ==
  /\ w \in stopping /\ ~(w \in started /\ w \in sourceId)
  /\ pc[w] \in {"idle", "publish"}
  /\ pc' = [pc EXCEPT ![w] = "ended"]
  /\ Abandon(w)
  /\ UNCHANGED <<redisVars, publisherVars, healthy, ready, reaperVars, goneFor, faults>>

-----------------------------------------------------------------------------
(* Requests: their commands, replies and failures                          *)

PublishStep(w) ==
  /\ rpc[w] # None /\ rpc[w].kind = "publish"
  /\ ApplyWrite(w, rpc[w].step)
  /\ IF rpc[w].step < 4
     THEN /\ rpc' = [rpc EXCEPT ![w] = [rpc[w] EXCEPT !.step = rpc[w].step + 1]]
          /\ UNCHANGED <<pc, sourceId>>
     ELSE /\ rpc' = [rpc EXCEPT ![w] = None]
          /\ pc' = [pc EXCEPT ![w] = "idle"]
          /\ sourceId' = sourceId \cup {w}
  /\ UNCHANGED <<started, demoted, rejected, stopping, retired, healthy, ready, late, reaperVars,
                 goneFor, faults>>

\* The script of a status request and what its sender does with the answer.
StatusAnswered(w, when) ==
  /\ rpc[w] # None /\ rpc[w].kind = "status" /\ pc[w] = when
  /\ ApplyStatus(w, rpc[w].status, rpc[w].age)
  /\ rpc' = [rpc EXCEPT ![w] = None]
  /\ UNCHANGED <<stopping, healthy, ready, late, reaperVars, goneFor, faults>>

\* MUTANT of BeatAccepted: a recovered worker keeps _unhealthy.
BeatAcceptedStillDemoted(w) ==
  /\ StatusAnswered(w, "ready") /\ Accepted(w)
  /\ pc' = [pc EXCEPT ![w] = "idle"]
  /\ rejected' = [rejected EXCEPT ![w] = 0]
  /\ started' = started \cup {w}
  /\ UNCHANGED <<sourceId, demoted, retired>>

BeatAccepted(w) ==
  /\ StatusAnswered(w, "ready") /\ Accepted(w)
  /\ pc' = [pc EXCEPT ![w] = "idle"]
  /\ rejected' = [rejected EXCEPT ![w] = 0]
  /\ demoted' = demoted \ {w}
  /\ started' = started \cup {w}
  /\ UNCHANGED <<sourceId, retired>>

\* MUTANT of OnHeartbeatRejected: the count of rejections is not reset.
OnHeartbeatRejectedAgain(w) ==
  LET enough == rejected[w] + 1 >= ReregisterAfter
  IN  /\ pc' = [pc EXCEPT ![w] = "idle"]
      /\ rejected' = [rejected EXCEPT ![w] = rejected[w] + 1]
      /\ sourceId' = IF enough /\ w \in Republishing THEN sourceId \ {w} ELSE sourceId
      /\ UNCHANGED <<demoted, started, retired>>

\* MUTANT of OnHeartbeatRejected: it never leads to a publication.
OnHeartbeatRejectedIgnored(w) ==
  /\ pc' = [pc EXCEPT ![w] = "idle"]
  /\ UNCHANGED <<sourceId, rejected, demoted, started, retired>>

\* _on_heartbeat_rejected: enough rejections in a row make the next tick
\* publish again.
OnHeartbeatRejected(w) ==
  LET enough == rejected[w] + 1 >= ReregisterAfter
  IN  /\ pc' = [pc EXCEPT ![w] = "idle"]
      /\ rejected' = [rejected EXCEPT ![w] = IF enough THEN 0 ELSE rejected[w] + 1]
      /\ sourceId' = IF enough /\ w \in Republishing THEN sourceId \ {w} ELSE sourceId
      /\ UNCHANGED <<demoted, started, retired>>

BeatRejected(w) ==
  /\ StatusAnswered(w, "ready") /\ ~Accepted(w)
  /\ OnHeartbeatRejected(w)

\* The answer to a demotion is not looked at.
Demoted(w) ==
  /\ pc' = [pc EXCEPT ![w] = "idle"]
  /\ demoted' = demoted \cup {w}
  /\ UNCHANGED <<sourceId, started, rejected, retired>>

DemoteAnswered(w) == StatusAnswered(w, "demote") /\ Demoted(w)

StaleAnswered(w) ==
  /\ StatusAnswered(w, "stale")
  /\ pc' = [pc EXCEPT ![w] = "ended"]
  /\ started' = started \ {w}
  /\ retired' = IF Accepted(w) THEN retired \cup {w} ELSE retired
  /\ UNCHANGED <<sourceId, demoted, rejected>>

\* The server answers success=false because the store failed it: to the client
\* this is a rejection.
StoreFails(w, when) ==
  /\ rpc[w] # None /\ rpc[w].kind = "status" /\ pc[w] = when
  /\ FaultOf("store")
  /\ rpc' = [rpc EXCEPT ![w] = None]
  /\ UNCHANGED <<redisVars, stopping, healthy, ready, late, reaperVars, goneFor>>

BeatNotStored(w) == StoreFails(w, "ready") /\ OnHeartbeatRejected(w)

DemoteNotStored(w) == StoreFails(w, "demote") /\ Demoted(w)

StaleNotStored(w) ==
  /\ StoreFails(w, "stale")
  /\ pc' = [pc EXCEPT ![w] = "ended"]
  /\ started' = started \ {w}
  /\ UNCHANGED <<sourceId, demoted, rejected, retired>>

\* A request that raises: the tick ends, the shutdown goes on.
Raises(w) ==
  /\ pc' = [pc EXCEPT ![w] = IF pc[w] = "stale" THEN "ended" ELSE "idle"]
  /\ started' = IF pc[w] = "stale" THEN started \ {w} ELSE started
  /\ UNCHANGED <<sourceId, demoted, rejected, stopping, retired, healthy, ready, reaperVars, goneFor>>

\* The server cannot be reached.
RequestFails(w) ==
  /\ rpc[w] # None /\ FaultOf("error")
  /\ rpc' = [rpc EXCEPT ![w] = None]
  /\ Raises(w)
  /\ UNCHANGED <<redisVars, late>>

\* The status script ran, the answer does not arrive.
ReplyLost(w) ==
  /\ rpc[w] # None /\ rpc[w].kind = "status" /\ FaultOf("reply")
  /\ ApplyStatus(w, rpc[w].status, rpc[w].age)
  /\ rpc' = [rpc EXCEPT ![w] = None]
  /\ Raises(w)
  /\ UNCHANGED late

\* The client's 30 second deadline passes while the command is on its way.
Deadline(w) ==
  /\ rpc[w] # None /\ rpc[w].age > 0 /\ FaultOf("deadline")
  /\ Abandon(w)
  /\ Raises(w)
  /\ UNCHANGED redisVars

\* _publish_metadata_to_server retries without ending the tick.
PublishRetried(w) ==
  /\ rpc[w] # None /\ rpc[w].kind = "publish" /\ rpc[w].age > 0 /\ late[w] = None
  /\ FaultOf("deadline")
  /\ late' = [late EXCEPT ![w] = rpc[w]]
  /\ rpc' = [rpc EXCEPT ![w] = PublishCommand]
  /\ UNCHANGED <<redisVars, pc, publisherVars, healthy, ready, reaperVars, goneFor>>

LatePublishStep(w) ==
  /\ late[w] # None /\ late[w].kind = "publish"
  /\ ApplyWrite(w, late[w].step)
  /\ late' = [late EXCEPT ![w] = IF late[w].step < 4
                                 THEN [late[w] EXCEPT !.step = late[w].step + 1]
                                 ELSE None]
  /\ UNCHANGED <<pc, publisherVars, healthy, ready, rpc, reaperVars, goneFor, faults>>

LateStatus(w) ==
  /\ late[w] # None /\ late[w].kind = "status"
  /\ ApplyStatus(w, late[w].status, late[w].age)
  /\ late' = [late EXCEPT ![w] = None]
  /\ UNCHANGED <<pc, publisherVars, healthy, ready, rpc, reaperVars, goneFor, faults>>

-----------------------------------------------------------------------------
(* The reaper                                                              *)

\* list_workers: a worker is listed when its index entry and its hash exist;
\* without a record or a status field it counts as UNKNOWN.
Present(w) == w \in index /\ (w \in records \/ status[w] # None)
LiveStatus(w) == IF w \in records /\ status[w] # None THEN status[w] ELSE "UNKNOWN"

\* MUTANT of Decision: a worker that is STALE already is marked again.
DecisionWithoutActive(w) ==
  IF ~Present(w) THEN "keep"
  ELSE IF LiveStatus(w) # "UNKNOWN" /\ age[w] > HeartbeatTimeout THEN "mark"
  ELSE IF LiveStatus(w) = "STALE" /\ age[w] > GcTimeout THEN "remove"
  ELSE "keep"

\* reap_once, its decision for one worker.
Decision(w) ==
  IF ~Present(w) THEN "keep"
  ELSE IF LiveStatus(w) \in {"READY", "INITIALIZING"} /\ age[w] > HeartbeatTimeout THEN "mark"
  ELSE IF LiveStatus(w) = "STALE" /\ age[w] > GcTimeout THEN "remove"
  ELSE "keep"

ReaperScan(r) ==
  /\ plan[r] = NoPlan /\ marking[r] = None
  /\ plan' = [plan EXCEPT ![r] = [w \in Worker |-> Decision(w)]]
  /\ UNCHANGED <<redisVars, pc, publisherVars, healthy, ready, rpc, late, marking, goneFor, faults>>

\* update_worker_status stamps the update before it is sent.
ReaperStamp(r, w) ==
  /\ plan[r][w] = "mark" /\ marking[r] = None
  /\ marking' = [marking EXCEPT ![r] = <<w, 0>>]
  /\ plan' = [plan EXCEPT ![r] = [plan[r] EXCEPT ![w] = "keep"]]
  /\ UNCHANGED <<redisVars, pc, publisherVars, healthy, ready, rpc, late, goneFor, faults>>

ReaperMark(r) ==
  /\ marking[r] # None
  /\ ApplyStatus(marking[r][1], "STALE", marking[r][2])
  /\ marking' = [marking EXCEPT ![r] = None]
  /\ UNCHANGED <<pc, publisherVars, healthy, ready, rpc, late, plan, goneFor, faults>>

ReaperRemove(r, w) ==
  /\ plan[r][w] = "remove" /\ marking[r] = None
  /\ ApplyRemove(w)
  /\ plan' = [plan EXCEPT ![r] = [plan[r] EXCEPT ![w] = "keep"]]
  /\ UNCHANGED <<pc, publisherVars, healthy, ready, rpc, late, marking, goneFor, faults>>

-----------------------------------------------------------------------------
(* The environment                                                         *)

\* A worker is killed.
Crash(w) ==
  /\ ~Ended(w) /\ FaultOf("crash")
  /\ pc' = [pc EXCEPT ![w] = "ended"]
  /\ Abandon(w)
  /\ UNCHANGED <<redisVars, publisherVars, healthy, ready, reaperVars, goneFor>>

\* A NIXL agent fails, or recovers.
HealthChanges(w) ==
  /\ ~Ended(w)
  /\ \/ w \in healthy /\ FaultOf("health") /\ healthy' = healthy \ {w}
     \/ w \notin healthy /\ healthy' = healthy \cup {w} /\ UNCHANGED faults
  /\ UNCHANGED <<redisVars, pc, publisherVars, ready, rpc, late, reaperVars, goneFor>>

\* ready_fn begins to hold, or the engine it asks is not ready after all.
ReadinessChanges(w) ==
  /\ ~Ended(w)
  /\ \/ w \in ready /\ FaultOf("unready") /\ ready' = ready \ {w}
     \/ w \notin ready /\ ready' = ready \cup {w} /\ UNCHANGED faults
  /\ UNCHANGED <<redisVars, pc, publisherVars, healthy, rpc, late, reaperVars, goneFor>>

\* The metadata store restarts empty.
Flush ==
  /\ FaultOf("flush")
  /\ records' = {} /\ index' = {} /\ attrs' = FALSE
  /\ status' = [w \in Worker |-> None]
  /\ age' = [w \in Worker |-> 0]
  /\ UNCHANGED <<pc, publisherVars, healthy, ready, rpc, late, reaperVars, goneFor>>

\* A server replica restarts and forgets its reaper's pass.
ReplicaRestarts(r) ==
  /\ FaultOf("restart")
  /\ plan' = [plan EXCEPT ![r] = NoPlan]
  /\ marking' = [marking EXCEPT ![r] = None]
  /\ UNCHANGED <<redisVars, pc, publisherVars, healthy, ready, rpc, late, goneFor>>

Older(a) == IF a < MaxAge THEN a + 1 ELSE a
OlderCommand(c) == IF c = None THEN None ELSE [c EXCEPT !.age = Older(c.age)]

\* Time passes, unless a command has been on its way for too long.
Tick ==
  /\ \A w \in Worker : /\ rpc[w] # None => rpc[w].age < MaxDelay
                       /\ late[w] # None => late[w].age < MaxDelay
  /\ \A r \in Replica : marking[r] # None => marking[r][2] < MaxDelay
  /\ age' = [w \in Worker |-> IF status[w] = None THEN age[w] ELSE Older(age[w])]
  /\ rpc' = [w \in Worker |-> OlderCommand(rpc[w])]
  /\ late' = [w \in Worker |-> OlderCommand(late[w])]
  /\ marking' = [r \in Replica |->
                   IF marking[r] = None THEN None
                   ELSE <<marking[r][1], Older(marking[r][2])>>]
  /\ goneFor' = [w \in Worker |-> IF Ended(w) THEN Older(goneFor[w]) ELSE 0]
  /\ UNCHANGED <<records, status, index, attrs, pc, publisherVars, healthy, ready, plan, faults>>

-----------------------------------------------------------------------------
Ticking(w) == Publish(w) \/ Beat(w) \/ Demote(w)
Leaving(w) == MarkStale(w) \/ LeaveSilently(w)
Answered(w) == \/ PublishStep(w) \/ BeatAccepted(w) \/ BeatRejected(w)
               \/ DemoteAnswered(w) \/ StaleAnswered(w)
LateStep(w) == LatePublishStep(w) \/ LateStatus(w)
Mishap(w) == \/ RequestStop(w) \/ GiveUp(w) \/ RequestFails(w) \/ ReplyLost(w)
             \/ Deadline(w) \/ PublishRetried(w) \/ Crash(w) \/ HealthChanges(w)
             \/ ReadinessChanges(w)
             \/ BeatNotStored(w) \/ DemoteNotStored(w) \/ StaleNotStored(w)
Reaping(r) == \/ ReaperMark(r)
              \/ \E w \in Worker : ReaperStamp(r, w) \/ ReaperRemove(r, w)

Next ==
  \/ \E w \in Worker : Ticking(w) \/ Leaving(w) \/ Answered(w) \/ LateStep(w) \/ Mishap(w)
  \/ \E r \in Replica : ReaperScan(r) \/ Reaping(r) \/ ReplicaRestarts(r)
  \/ Flush
  \/ Tick

Spec == Init /\ [][Next]_vars

\* Publisher threads and reapers loop on timers, Redis executes what it was
\* sent, and time passes.
Fairness ==
  /\ \A w \in Worker : WF_vars(Ticking(w)) /\ WF_vars(Answered(w)) /\ WF_vars(LateStep(w))
  /\ \A r \in Replica : WF_vars(ReaperScan(r)) /\ WF_vars(Reaping(r))
  /\ WF_vars(Tick)

FairSpec == Spec /\ Fairness

-----------------------------------------------------------------------------
(* Properties                                                              *)

PublishingAt(c, steps) == c # None /\ c.kind = "publish" /\ c.step \in steps

\* ListSources(READY): the status filter, and ready_source_is_fresh.
Listed(w) == /\ w \in index /\ w \in records
             /\ status[w] = "READY" /\ age[w] <= HeartbeatTimeout

TypeOK ==
  /\ records \subseteq Worker /\ index \subseteq Worker /\ attrs \in BOOLEAN
  /\ status \in [Worker -> Status \cup {None}]
  /\ age \in [Worker -> Age]
  /\ pc \in [Worker -> {"idle", "publish", "ready", "demote", "stale", "ended"}]
  /\ sourceId \subseteq Worker /\ started \subseteq Worker /\ demoted \subseteq Worker
  /\ stopping \subseteq Worker /\ retired \subseteq Worker /\ healthy \subseteq Worker
  /\ ready \subseteq Worker
  /\ rejected \in [Worker -> 0 .. ReregisterAfter - 1]
  /\ rpc \in [Worker -> Command \cup {None}]
  /\ late \in [Worker -> Command \cup {None}]
  /\ plan \in [Replica -> [Worker -> {"keep", "mark", "remove"}]]
  /\ marking \in [Replica -> (Worker \X Age) \cup {None}]
  /\ goneFor \in [Worker -> Age]
  /\ faults \in [Fault -> Nat]

\* A record the server still serves to a registered publisher is in the index
\* that discovery and the reaper walk, however publications, removals and
\* status scripts interleave; only a late publication may still owe the entry.
RegisteredIsIndexed ==
  \A w \in sourceId \cap records : w \in index \/ PublishingAt(late[w], 2 .. 4)

\* Once a worker's final STALE was accepted the worker is never READY again,
\* although older heartbeats may still be on their way to Redis.
RetiredStaysDown == \A w \in retired : status[w] # "READY"

\* ListSources(READY) does not return a worker that ended more than the
\* heartbeat timeout ago, whether or not a reaper has run.
GoneIsNotListed == \A w \in Worker : Ended(w) /\ Listed(w) => goneFor[w] <= HeartbeatTimeout

\* A worker that has demoted itself and whose agent is still down is not READY
\* (publisher.py, _tick: saying STALE removes it from the candidates at once).
DownIsNotReady ==
  \A w \in (started \cap demoted) \ healthy : pc[w] = "idle" => status[w] # "READY"

\* It is so as long as the server stores every status it is sent and every
\* answer arrives: through rejected heartbeats, lost registrations, reaper
\* passes and a registration that is repeated while the agent is down.
DownWhileAnswered ==
  (\A k \in Fault \cap {"store", "reply", "deadline"} : faults[k] = 0) => DownIsNotReady

\* While a worker runs with a healthy agent, and its engine is ready whenever it
\* has to register, it is listed again and again: its publisher outlives reaper
\* passes that raced its heartbeats, removed registrations and an emptied store.
RunningIsListed ==
  \A w \in Republishing :
    []<>(\/ Listed(w) \/ Ended(w) \/ w \in stopping \/ w \notin healthy
         \/ w \notin sourceId \cup ready)

Quiet(w) == rpc[w] = None /\ late[w] = None

\* What an ended worker left as READY or STALE is removed in the end.
GoneIsForgotten ==
  \A w \in Worker :
    (/\ Ended(w) /\ Quiet(w) /\ w \in index /\ w \in records
     /\ status[w] \in {"READY", "STALE"})
      ~> (w \notin index /\ w \notin records)
=============================================================================
