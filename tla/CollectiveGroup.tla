--------------------------- MODULE CollectiveGroup ---------------------------
(***************************************************************************)
(* The control plane of collective weight transfers for one group: worker  *)
(* admission, communicator bootstraps, readiness, epochs and transfers.    *)
(*                                                                         *)
(* The state is the group's Redis keyspace (refit_collective/backend/      *)
(* redis.rs); every operation is one Lua script under                      *)
(* refit_collective/backend/redis/scripts/, run atomically, and one action *)
(* or one action per outcome.  A worker id names one process generation:   *)
(* a restarted process is another worker asking for the same slot.         *)
(***************************************************************************)
EXTENDS Naturals, FiniteSets

CONSTANTS
  Worker,       \* worker ids (process generations)
  TrainerSlot, GeneratorSlot,  \* the expected slots of each role
  Lane,         \* declared lanes
  LeaderSlot,   \* the slot with rank 0 of each lane
  Digest,       \* plan digests
  BootstrapId,  \* ncclUniqueId values
  Op,           \* operation ids
  Key,          \* idempotency keys
  Joins,        \* the join requests clients may send
  None,         \* an absent field or hash
  MaxEpoch      \* bound: the epoch stops here

Slot == TrainerSlot \cup GeneratorSlot
Rank == [role: {"TRAINER", "GENERATOR"}, index: Nat]
JoinRequest == [slot: Slot, worker: Worker, rank: Rank, digest: Digest, source: BOOLEAN]
Participant == [worker: Worker, rank: Rank, joined: Nat]
Bootstrap == [epoch: Nat, by: Worker, id: BootstrapId]
OpState == {"PENDING", "RUNNING", "COMPLETE", "FAILED", "ABORTED"}
Operation == [epoch: Nat, state: OpState, key: Key]

ASSUME ConstantAssumption ==
  /\ None \notin Worker \cup Participant \cup Bootstrap \cup Operation \cup Digest \cup Op
  /\ LeaderSlot \in [Lane -> Slot]
  /\ MaxEpoch \in Nat
  /\ IsFiniteSet(Slot)

\* A process registers and joins under one role.
ASSUME JoinAssumption ==
  /\ Joins \subseteq JoinRequest
  /\ \A j, k \in Joins : j.worker = k.worker => j.rank.role = k.rank.role

VARIABLES
  live,          \* workers with an unexpired registration of their role and model
  epoch,         \* group hash: epoch; 0 when the hash does not exist
  state,         \* group hash: FORMING or READY
  planDigest,    \* group hash: plan_digest
  planSource,    \* group hash: plan_source_worker_id
  participants,  \* participants hash: slot -> worker|role|index|joined_epoch
  digests,       \* plan digests hash: slot -> digest
  lanes,         \* lane hashes: bootstrap_epoch, published_by, nccl_unique_id
  ops,           \* operation hashes
  reported,      \* reported worker set of each operation
  active,        \* the group's active-operations set
  reservation,   \* create-request idempotency keys
  cohort         \* history: the workers admitted when each operation was opened

groupVars == <<epoch, state, planDigest, planSource, participants, digests, lanes>>
opVars == <<ops, reported, active, reservation, cohort>>
vars == <<live, groupVars, opVars>>

-----------------------------------------------------------------------------
(* Helpers of common.lua                                                   *)

Open(o) == ops[o] # None /\ ops[o].state \in {"PENDING", "RUNNING"}

\* MUTANT of AbortedOps: operations that have been reported on are left alone.
AbortedPendingOps ==
  [o \in Op |-> IF o \in active /\ ops[o] # None /\ ops[o].state = "PENDING"
               THEN [ops[o] EXCEPT !.state = "ABORTED"] ELSE ops[o]]

\* abort_stale_ops: every open operation of the active set.
AbortedOps ==
  [o \in Op |-> IF o \in active /\ Open(o) THEN [ops[o] EXCEPT !.state = "ABORTED"]
                                           ELSE ops[o]]

\* MUTANT of NeedsEpochBump: a bootstrap published while FORMING does not count.
BumpOnlyWhenReady == state = "READY"

\* needs_epoch_bump: the membership may already have communicator state.
NeedsEpochBump ==
  state = "READY" \/ \E l \in Lane : lanes[l] # None /\ lanes[l].epoch = epoch

\* MUTANT of Ready: participants need not have acknowledged the epoch.
ReadyWithoutRejoin(ps, ds, ls, e, digest) ==
  /\ \A s \in Slot : ps[s] # None
  /\ \A l \in Lane : ls[l] # None /\ ls[l].epoch = e
  /\ \A s \in Slot : ds[s] = digest

\* evaluate_readiness without the registration lookups: every slot is admitted
\* at epoch e, every lane is bootstrapped for e, every digest is the group's.
Ready(ps, ds, ls, e, digest) ==
  /\ \A s \in Slot : ps[s] # None /\ ps[s].joined = e
  /\ \A l \in Lane : ls[l] # None /\ ls[l].epoch = e
  /\ \A s \in Slot : ds[s] = digest

StateIf(ready) == IF ready THEN "READY" ELSE "FORMING"

\* evaluate_readiness with the registration lookups.
AllLive(ps) == \A s \in Slot : ps[s] # None => ps[s].worker \in live

\* The sweep of join_ and refresh_collective_group.lua: participants without a
\* live registration leave, with the digests they reported.
Lapsed == {s \in Slot : participants[s] # None /\ participants[s].worker \notin live}
Swept(f) == [s \in Slot |-> IF s \in Lapsed THEN None ELSE f[s]]

\* MUTANT of SweptSource: the sweep forgets the plan source.
SourceKept == planSource

\* A plan source among the lapsed participants is cleared.
SweptSource ==
  IF \E s \in Lapsed : participants[s].worker = planSource THEN None ELSE planSource

NoLanes == [l \in Lane |-> None]

-----------------------------------------------------------------------------
(* Registrations and the group's root hash                                 *)

\* RegisterWorker of the refit service, on which admission depends.
RegisterWorker(w) ==
  /\ w \notin live
  /\ live' = live \cup {w}
  /\ UNCHANGED <<groupVars, opVars>>

\* The registration TTL runs out.
ExpireWorker(w) ==
  /\ w \in live
  /\ live' = live \ {w}
  /\ UNCHANGED <<groupVars, opVars>>

\* The root hash is evicted or removed; the derived hashes survive.
LoseGroup ==
  /\ epoch # 0
  /\ epoch' = 0
  /\ state' = "FORMING"
  /\ planDigest' = None
  /\ planSource' = None
  /\ UNCHANGED <<live, participants, digests, lanes, opVars>>

-----------------------------------------------------------------------------
(* JoinCollectiveGroup                                                     *)

\* Past UNEXPECTED_SLOT, UNREGISTERED and INVALID_PLAN_SOURCE: the slot is one of
\* the role's, the worker is registered, and only trainer 0 offers the plan.
Eligible(j) ==
  /\ j.slot \in (IF j.rank.role = "TRAINER" THEN TrainerSlot ELSE GeneratorSlot)
  /\ j.worker \in live
  /\ j.source => j.rank = [role |-> "TRAINER", index |-> 0]

\* MUTANT of Admission: the record lacks the epoch it acknowledges.
UnstampedAdmission(j, e) == [worker |-> j.worker, rank |-> j.rank]

\* The participant record of j, acknowledging epoch e.
Admission(j, e) == [worker |-> j.worker, rank |-> j.rank, joined |-> e]

\* First contact: epoch 1, nothing of an earlier incarnation survives.
CreateByJoin(j) ==
  LET ps == [s \in Slot |-> IF s = j.slot THEN Admission(j, 1) ELSE None]
      ds == [s \in Slot |-> IF s = j.slot THEN j.digest ELSE None]
  IN  /\ epoch = 0
      /\ Eligible(j)
      /\ epoch' = 1
      /\ planDigest' = j.digest
      /\ planSource' = IF j.source THEN j.worker ELSE None
      /\ participants' = ps
      /\ digests' = ds
      /\ lanes' = NoLanes
      /\ state' = StateIf(Ready(ps, ds, NoLanes, 1, j.digest) /\ AllLive(ps))
      /\ ops' = AbortedOps
      /\ active' = {}
      /\ UNCHANGED <<live, reported, reservation, cohort>>

\* CONFLICTING_ASSIGNMENT, DUPLICATE_RANK or DUPLICATE_WORKER against the
\* participants that survive the sweep.
Conflicts(j) ==
  LET ps == Swept(participants)
  IN  \/ ps[j.slot] # None /\ ps[j.slot].rank # j.rank
      \/ \E s \in Slot \ {j.slot} :
           ps[s] # None /\ (ps[s].rank = j.rank \/ ps[s].worker = j.worker)

\* The join replaces an admitted worker of an earlier process generation.
Replaces(j) ==
  Swept(participants)[j.slot] # None /\ Swept(participants)[j.slot].worker # j.worker

\* The plan source after the sweep, and after the worker the join replaces under
\* the slot's own rank was found to be it.
JoinedSource(j) ==
  IF Replaces(j) /\ participants[j.slot].rank = j.rank /\ participants[j.slot].worker = planSource
  THEN None ELSE SweptSource

\* A refused join keeps the sweep it made before it was refused, and one refused
\* for another slot's participant also the clearing of the source it replaces.
RefuseJoin(j) ==
  /\ epoch # 0
  /\ Eligible(j)
  /\ Conflicts(j)
  /\ participants' = Swept(participants)
  /\ digests' = Swept(digests)
  /\ planSource' = JoinedSource(j)
  /\ UNCHANGED <<live, epoch, state, planDigest, lanes, opVars>>

\* MUTANT of JoinBumps: a replaced process generation does not move the epoch.
JoinBumpsOnLapse(j) ==
  \/ NeedsEpochBump /\ Lapsed # {}
  \/ planDigest # j.digest

\* `changed` in join_collective_group.lua.
JoinBumps(j) ==
  \/ NeedsEpochBump /\ (Lapsed # {} \/ Replaces(j))
  \/ planDigest # j.digest

\* Admit j at the present epoch, or at the next one when the join changes what
\* an existing communicator or plan was built for.
AdmitJoin(j) ==
  LET bump == JoinBumps(j)
      e == IF bump THEN epoch + 1 ELSE epoch
      ps == [Swept(participants) EXCEPT ![j.slot] = Admission(j, e)]
      ds == [Swept(digests) EXCEPT ![j.slot] = j.digest]
      ls == IF bump THEN NoLanes ELSE lanes
      source == IF bump THEN None ELSE JoinedSource(j)
  IN  /\ epoch # 0
      /\ Eligible(j)
      /\ ~Conflicts(j)
      /\ bump => epoch < MaxEpoch
      /\ epoch' = e
      /\ planDigest' = j.digest
      /\ planSource' = IF j.source THEN j.worker ELSE source
      /\ participants' = ps
      /\ digests' = ds
      /\ lanes' = ls
      /\ state' = StateIf(Ready(ps, ds, ls, e, j.digest) /\ AllLive(ps))
      /\ ops' = IF bump THEN AbortedOps ELSE ops
      /\ active' = IF bump THEN {} ELSE active
      /\ UNCHANGED <<live, reported, reservation, cohort>>

-----------------------------------------------------------------------------
(* GetCollectiveGroup and PublishGroupBootstrap                            *)

\* refresh_collective_group.lua: sweep, fence, re-evaluate.
Refresh ==
  LET bump == NeedsEpochBump /\ Lapsed # {}
      e == IF bump THEN epoch + 1 ELSE epoch
      ls == IF bump THEN NoLanes ELSE lanes
  IN  /\ epoch # 0
      /\ bump => epoch < MaxEpoch
      /\ epoch' = e
      /\ participants' = Swept(participants)
      /\ digests' = Swept(digests)
      /\ lanes' = ls
      /\ planSource' = IF bump THEN None ELSE SweptSource
      /\ state' = StateIf(Ready(participants', digests', ls, e, planDigest))
      /\ ops' = IF bump THEN AbortedOps ELSE ops
      /\ active' = IF bump THEN {} ELSE active
      /\ UNCHANGED <<live, planDigest, reported, reservation, cohort>>

\* publish_group_bootstrap.lua: the admitted, live rank 0 of the lane stamps its
\* identifier once per epoch; a different one is a CONFLICT.  A publication for
\* another epoch is STALE and changes nothing.
PublishBootstrap(l, w, id) ==
  LET leader == participants[LeaderSlot[l]]
      stamp == [epoch |-> epoch, by |-> w, id |-> id]
  IN  /\ epoch # 0
      /\ leader # None /\ leader.worker = w /\ leader.joined = epoch /\ w \in live
      /\ lanes[l] # None /\ lanes[l].epoch = epoch => lanes[l] = stamp
      /\ lanes' = [lanes EXCEPT ![l] = stamp]
      /\ state' = StateIf(Ready(participants, digests, lanes', epoch, planDigest)
                          /\ AllLive(participants))
      /\ UNCHANGED <<live, epoch, planDigest, planSource, participants, digests, opVars>>

-----------------------------------------------------------------------------
(* Collective transfers                                                    *)

\* MUTANT of Busy: operations that are RUNNING do not block a new one.
BusyWhenPending == \E o \in active : ops[o] # None /\ ops[o].state = "PENDING"

\* BUSY: an open operation of this epoch is in the active set.
Busy == \E o \in active : Open(o) /\ ops[o].epoch = epoch

\* create_collective_transfer.lua, CREATED: READY at the epoch the caller named.
CreateTransfer(o, k) ==
  /\ reservation[k] # None => ops[reservation[k]] = None
  /\ ops[o] = None
  /\ epoch # 0
  /\ state = "READY"
  /\ ~Busy
  /\ ops' = [ops EXCEPT ![o] = [epoch |-> epoch, state |-> "PENDING", key |-> k]]
  /\ reservation' = [reservation EXCEPT ![k] = o]
  /\ active' = active \cup {o}
  /\ cohort' = [cohort EXCEPT ![o] = {participants[s].worker : s \in {t \in Slot : participants[t] # None}}]
  /\ UNCHANGED <<live, groupVars, reported>>

\* The reservation's TTL runs out.
ExpireReservation(k) ==
  /\ reservation[k] # None
  /\ reservation' = [reservation EXCEPT ![k] = None]
  /\ UNCHANGED <<live, groupVars, ops, reported, active, cohort>>

\* MUTANT of ReportAdmitted: a terminal operation accepts reports.
ReportAdmittedLate(o, w) ==
  /\ ops[o] # None
  /\ epoch = ops[o].epoch
  /\ state = "READY"
  /\ \E s \in Slot : participants[s] # None /\ participants[s].worker = w

\* report_collective_transfer.lua: the operation is open, its epoch is the
\* group's, the group is READY, every participant is of this epoch and
\* registered, and the reporter is one of them.
ReportAdmitted(o, w) ==
  /\ Open(o)
  /\ epoch = ops[o].epoch
  /\ state = "READY"
  /\ \A s \in Slot : participants[s] # None =>
       participants[s].joined = epoch /\ participants[s].worker \in live
  /\ \E s \in Slot : participants[s] # None /\ participants[s].worker = w

\* Operation o moves to state st.
Moved(o, st) == [ops EXCEPT ![o] = [ops[o] EXCEPT !.state = st]]

\* A successful report; the last one completes the operation.
ReportSuccess(o, w) ==
  LET done == Cardinality(reported'[o]) = Cardinality(Slot)
  IN  /\ ReportAdmitted(o, w)
      /\ reported' = [reported EXCEPT ![o] = reported[o] \cup {w}]
      /\ ops' = Moved(o, IF done THEN "COMPLETE" ELSE "RUNNING")
      /\ active' = IF done THEN active \ {o} ELSE active
      /\ UNCHANGED <<live, groupVars, reservation, cohort>>

\* A failed report ends the operation and fences the communicators.
ReportFailure(o, w) ==
  /\ ReportAdmitted(o, w)
  /\ epoch < MaxEpoch
  /\ reported' = [reported EXCEPT ![o] = reported[o] \cup {w}]
  /\ ops' = Moved(o, "FAILED")
  /\ active' = active \ {o}
  /\ epoch' = epoch + 1
  /\ state' = "FORMING"
  /\ planSource' = None
  /\ lanes' = NoLanes
  /\ UNCHANGED <<live, planDigest, participants, digests, reservation, cohort>>

\* delete_collective_transfer.lua: only a terminal operation.
DeleteTransfer(o) ==
  /\ ops[o] # None /\ ~Open(o)
  /\ reservation' = IF reservation[ops[o].key] = o
                    THEN [reservation EXCEPT ![ops[o].key] = None] ELSE reservation
  /\ ops' = [ops EXCEPT ![o] = None]
  /\ reported' = [reported EXCEPT ![o] = {}]
  /\ active' = active \ {o}
  /\ cohort' = [cohort EXCEPT ![o] = {}]
  /\ UNCHANGED <<live, groupVars>>

-----------------------------------------------------------------------------
Init ==
  /\ live = {}
  /\ epoch = 0
  /\ state = "FORMING"
  /\ planDigest = None
  /\ planSource = None
  /\ participants = [s \in Slot |-> None]
  /\ digests = [s \in Slot |-> None]
  /\ lanes = NoLanes
  /\ ops = [o \in Op |-> None]
  /\ reported = [o \in Op |-> {}]
  /\ active = {}
  /\ reservation = [k \in Key |-> None]
  /\ cohort = [o \in Op |-> {}]

WorkerNext == \E w \in Worker : RegisterWorker(w) \/ ExpireWorker(w)
JoinNext == \E j \in Joins : CreateByJoin(j) \/ RefuseJoin(j) \/ AdmitJoin(j)
BootstrapNext ==
  \E l \in Lane, w \in Worker, id \in BootstrapId : PublishBootstrap(l, w, id)
OpNext ==
  \/ \E o \in Op : \/ DeleteTransfer(o)
                   \/ \E k \in Key : CreateTransfer(o, k)
                   \/ \E w \in Worker : ReportSuccess(o, w) \/ ReportFailure(o, w)
  \/ \E k \in Key : ExpireReservation(k)

Next == WorkerNext \/ LoseGroup \/ JoinNext \/ Refresh \/ BootstrapNext \/ OpNext

Spec == Init /\ [][Next]_vars

-----------------------------------------------------------------------------
(* Properties                                                              *)

\* Type correctness of the group's keyspace.
TypeOK ==
  /\ live \subseteq Worker
  /\ epoch \in Nat
  /\ state \in {"FORMING", "READY"}
  /\ planDigest \in Digest \cup {None}
  /\ planSource \in Worker \cup {None}
  /\ participants \in [Slot -> Participant \cup {None}]
  /\ digests \in [Slot -> Digest \cup {None}]
  /\ lanes \in [Lane -> Bootstrap \cup {None}]
  /\ ops \in [Op -> Operation \cup {None}]
  /\ reported \in [Op -> SUBSET Worker]
  /\ active \subseteq Op
  /\ reservation \in [Key -> Op \cup {None}]
  /\ cohort \in [Op -> SUBSET Worker]

Members == {participants[s].worker : s \in {t \in Slot : participants[t] # None}}

\* While the group exists, every open operation belongs to the present epoch and
\* is in the active set: no epoch move, failure or recreation of the group
\* leaves a PENDING or RUNNING operation behind that nothing will ever end.
OpenOpsCurrent ==
  \A o \in Op : Open(o) => o \in active /\ (epoch # 0 => ops[o].epoch = epoch)

\* At most one operation is open: two would share the lane communicators.
OneOpenOp == \A o, q \in Op : Open(o) /\ Open(q) => o = q

\* A terminal operation keeps its state until it is deleted: a late report does
\* not turn FAILED or ABORTED into COMPLETE, nor an abort COMPLETE into ABORTED.
TerminalIsFinal ==
  [][\A o \in Op : ops[o] # None /\ ~Open(o) => ops'[o] \in {ops[o], None}]_vars

\* The advertised plan source is an admitted participant: no removal or
\* replacement leaves the endpoint of a departed one behind.
PlanSourceIsMember == planSource # None => planSource \in Members

\* A bootstrap stamped for the present epoch was published by the worker that
\* holds the lane's rank 0 in this epoch.
BootstrapByLeader ==
  \A l \in Lane :
    epoch # 0 /\ lanes[l] # None /\ lanes[l].epoch = epoch =>
      LET leader == participants[LeaderSlot[l]]
      IN  leader # None /\ leader.worker = lanes[l].by /\ leader.joined = epoch

\* A READY group is complete and consistent for as long as it is READY: every
\* slot holds a different worker at a different rank, all of them acknowledged
\* the present epoch and hold the group's plan digest, and every lane's
\* communicator identifier is of that epoch.
ReadyIsConsistent ==
  state = "READY" =>
    /\ epoch # 0
    /\ \A s \in Slot : /\ participants[s] # None
                       /\ participants[s].joined = epoch
                       /\ digests[s] = planDigest
    /\ \A s, t \in Slot : s # t => /\ participants[s].worker # participants[t].worker
                                   /\ participants[s].rank # participants[t].rank
    /\ \A l \in Lane : lanes[l] # None /\ lanes[l].epoch = epoch

\* Removing or replacing a participant moves the epoch whenever the membership
\* may already have communicator state: the group is READY or some lane has a
\* bootstrap of this epoch (common.lua and the sweeps of join and refresh).
RemovalAdvancesEpoch ==
  [][\A s \in Slot :
       /\ epoch # 0
       /\ state = "READY" \/ \E l \in Lane : lanes[l] # None /\ lanes[l].epoch = epoch
       /\ participants[s] # None
       /\ participants'[s] = None \/ participants'[s].worker # participants[s].worker
       => epoch' # epoch]_vars

\* An open operation runs over the cohort it was opened for.
OpenCohortIntact == \A o \in Op : Open(o) /\ epoch # 0 => Members \subseteq cohort[o]

\* A COMPLETE operation was reported successful by every worker admitted when it
\* was opened.
CompleteMeansWholeCohort ==
  \A o \in Op : ops[o] # None /\ ops[o].state = "COMPLETE" => reported[o] = cohort[o]
=============================================================================
