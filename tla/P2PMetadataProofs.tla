-------------------------- MODULE P2PMetadataProofs --------------------------
(***************************************************************************)
(* Proofs about P2PMetadata, for every set of workers and replicas, every  *)
(* timeout and every sequence of faults.  The inductive invariant relates, *)
(* for each worker, the command its publisher waits for, the late command  *)
(* its publisher gave up on, and what Redis stores.                        *)
(***************************************************************************)
EXTENDS P2PMetadata, TLAPS

IsStatus(c) == c # None /\ c.kind = "status"
IsReady(c) == IsStatus(c) /\ c.status = "READY"

\* The program counter says which request a publisher waits for.
RequestInv(w) ==
  /\ rpc[w] = None <=> pc[w] \in {"idle", "ended"}
  /\ pc[w] = "stale" => IsStatus(rpc[w]) /\ rpc[w].status = "STALE"
  /\ rpc[w] # None /\ rpc[w].kind = "publish" => w \notin sourceId

\* A registered publisher's record is in the index.
IndexInv(w) ==
  w \in sourceId /\ w \in records => w \in index \/ PublishingAt(late[w], 2 .. 4)

\* READY, stored or late, is older than the status update a publisher waits
\* for; the late one strictly, as a deadline had to pass first.
OrderInv(w) ==
  /\ IsReady(late[w]) /\ ~Ended(w) => late[w].age > 0
  /\ IsStatus(rpc[w]) => /\ status[w] = "READY" => age[w] >= rpc[w].age
                         /\ IsReady(late[w]) => late[w].age > rpc[w].age

\* READY, stored or late, is at least as old as the end of its sender.
GoneInv(w) ==
  /\ ~Ended(w) => goneFor[w] = 0
  /\ status[w] = "READY" => age[w] >= goneFor[w]
  /\ IsReady(late[w]) => late[w].age >= goneFor[w]

\* After a worker's final STALE a late READY finds no record, or a newer status.
RetiredInv(w) ==
  w \in retired => /\ Ended(w)
                   /\ status[w] # "READY"
                   /\ IsReady(late[w]) /\ w \in records =>
                        status[w] # None /\ age[w] < late[w].age

WorkerInv(w) ==
  RequestInv(w) /\ IndexInv(w) /\ OrderInv(w) /\ GoneInv(w) /\ RetiredInv(w)

Inv == TypeOK /\ \A w \in Worker : WorkerInv(w)

-----------------------------------------------------------------------------
(* Commands                                                                *)

\* The fields of a command.
LEMMA CommandFields ==
  ASSUME NEW c \in Command
  PROVE  /\ c.kind \in {"publish", "status"} /\ c.step \in 1 .. 4
         /\ c.status \in Status /\ c.age \in Age /\ c # None
BY ConstantAssumption, Zenon DEF Command

\* The fields of a status update.
LEMMA StatusCommandFields ==
  ASSUME NEW s \in Status
  PROVE  /\ StatusCommand(s) \in Command /\ StatusCommand(s).kind = "status"
         /\ StatusCommand(s).status = s /\ StatusCommand(s).age = 0
<1>1. 0 \in Age /\ 1 \in 1 .. 4
  BY ConstantAssumption DEF Age
<1> QED
  BY <1>1, Zenon DEF StatusCommand, Command

\* The fields of a publication.
LEMMA PublishCommandFields ==
  PublishCommand \in Command /\ PublishCommand.kind = "publish"
<1>1. 0 \in Age /\ 1 \in 1 .. 4 /\ "UNKNOWN" \in Status
  BY ConstantAssumption DEF Age, Status
<1> QED
  BY <1>1, Zenon DEF PublishCommand, Command

\* The fields of a command after one of its steps.
LEMMA NextStepFields ==
  ASSUME NEW c \in Command, c.step < 4
  PROVE  LET d == [c EXCEPT !.step = c.step + 1]
         IN  /\ d \in Command /\ d.kind = c.kind /\ d.status = c.status
             /\ d.age = c.age /\ d.step = c.step + 1
<1>1. c.step + 1 \in 1 .. 4
  BY CommandFields
<1> QED
  BY <1>1, Zenon DEF Command

\* Ages are capped and keep their order as time passes.
LEMMA OlderFacts ==
  ASSUME NEW a \in Age
  PROVE  /\ Older(a) \in Age /\ Older(a) >= a
         /\ \A b \in Age : b <= a => Older(b) <= Older(a)
         /\ a < MaxDelay => Older(a) = a + 1
BY ConstantAssumption DEF Older, Age

\* A command that waits only gets older.
LEMMA OlderCommandFields ==
  ASSUME NEW c \in Command
  PROVE  /\ OlderCommand(c) \in Command /\ OlderCommand(c).kind = c.kind
         /\ OlderCommand(c).status = c.status /\ OlderCommand(c).step = c.step
         /\ OlderCommand(c).age = Older(c.age) /\ OlderCommand(c) # None
<1>1. c.age \in Age /\ c # None
  BY CommandFields, Zenon
<1>2. Older(c.age) \in Age
  BY <1>1, OlderFacts, Zenon
<1>3. OlderCommand(c) = [c EXCEPT !.age = Older(c.age)]
  BY <1>1, Zenon DEF OlderCommand
<1>4. OlderCommand(c) \in Command
  BY <1>2, <1>3, Zenon DEF Command
<1> QED
  BY <1>3, <1>4, CommandFields, Zenon DEF Command

-----------------------------------------------------------------------------
(* What the Redis commands do                                              *)

RedisType ==
  /\ records \subseteq Worker /\ index \subseteq Worker /\ attrs \in BOOLEAN
  /\ status \in [Worker -> Status \cup {None}]
  /\ age \in [Worker -> Age]

\* Redis holds the same for worker v after the step.
SameRedis(v) ==
  /\ v \in records' <=> v \in records
  /\ v \in index' <=> v \in index
  /\ status'[v] = status[v] /\ age'[v] = age[v]

\* What a status update does to the record.
LEMMA ApplyStatusEffect ==
  ASSUME RedisType, NEW w \in Worker, NEW s \in Status, NEW a \in Age, ApplyStatus(w, s, a)
  PROVE  /\ RedisType'
         /\ \A v \in Worker : v # w => SameRedis(v)
         /\ \/ SameRedis(w) /\ ~(w \in records /\ Fresh(w, a))
            \/ /\ w \in records' /\ w \in index' /\ status'[w] = s /\ age'[w] = a
               /\ w \in records /\ Fresh(w, a)
<1>1. CASE Accepted(w) /\ Fresh(w, a)
  <2>1. /\ status' = [status EXCEPT ![w] = s] /\ age' = [age EXCEPT ![w] = a]
        /\ index' = index \cup {w} /\ records' = records /\ attrs' = attrs
    BY <1>1, Zenon DEF ApplyStatus
  <2> QED
    BY <1>1, <2>1, Zenon DEF RedisType, SameRedis, Accepted
<1>2. CASE ~(Accepted(w) /\ Fresh(w, a))
  <2>1. UNCHANGED <<records, status, age, index, attrs>>
    BY <1>2, Zenon DEF ApplyStatus, redisVars
  <2> QED
    BY <1>2, <2>1, Zenon DEF RedisType, SameRedis, Accepted
<1> QED
  BY <1>1, <1>2, Zenon

\* What a publication does to the record.
LEMMA ApplyWriteEffect ==
  ASSUME RedisType, NEW w \in Worker, NEW n \in 1 .. 4, ApplyWrite(w, n)
  PROVE  /\ RedisType'
         /\ \A v \in Worker : v # w => SameRedis(v)
         /\ w \in index => w \in index'
         /\ n = 4 => w \in index'
         /\ n # 1 => (w \in records' <=> w \in records)
         /\ w \in records => w \in records'
         /\ \/ status'[w] = status[w] /\ age'[w] = age[w]
            \/ status'[w] = "UNKNOWN"
<1>0. "UNKNOWN" \in Status /\ MaxAge \in Age
  BY ConstantAssumption DEF Status, Age
<1>1. CASE n = 1
  BY <1>1 DEF ApplyWrite, RedisType, SameRedis
<1>2. CASE n = 2
  BY <1>0, <1>2 DEF ApplyWrite, RedisType, SameRedis
<1>3. CASE n = 3
  BY <1>3 DEF ApplyWrite, RedisType, SameRedis
<1>4. CASE n = 4
  BY <1>4 DEF ApplyWrite, RedisType, SameRedis
<1> QED
  BY <1>1, <1>2, <1>3, <1>4

\* What a removal does to the record.
LEMMA ApplyRemoveEffect ==
  ASSUME RedisType, NEW w \in Worker, ApplyRemove(w)
  PROVE  /\ RedisType'
         /\ \A v \in Worker : v # w => SameRedis(v)
         /\ w \notin records' /\ w \notin index' /\ status'[w] = None
<1>1. 0 \in Age
  BY ConstantAssumption DEF Age
<1> QED
  BY <1>1, Zenon DEF ApplyRemove, RedisType, SameRedis

-----------------------------------------------------------------------------
(* Steps that leave a worker alone                                         *)

\* The invariant's variables of worker v outside Redis.
SameClient(v) ==
  /\ pc'[v] = pc[v] /\ rpc'[v] = rpc[v] /\ late'[v] = late[v] /\ goneFor'[v] = goneFor[v]
  /\ v \in sourceId' <=> v \in sourceId
  /\ v \in retired' <=> v \in retired

\* A worker whose state and record do not change keeps its invariant.
LEMMA Frame ==
  ASSUME NEW w \in Worker, WorkerInv(w), SameRedis(w), SameClient(w)
  PROVE  WorkerInv(w)'
<1>1. RequestInv(w)'
  BY Zenon DEF WorkerInv, SameClient, RequestInv, IsStatus
<1>2. IndexInv(w)'
  BY Zenon DEF WorkerInv, SameClient, SameRedis, IndexInv, PublishingAt
<1>3. OrderInv(w)'
  BY Zenon DEF WorkerInv, SameClient, SameRedis, OrderInv, IsStatus, IsReady, Ended
<1>4. GoneInv(w)'
  BY Zenon DEF WorkerInv, SameClient, SameRedis, GoneInv, IsStatus, IsReady, Ended
<1>5. RetiredInv(w)'
  BY Zenon DEF WorkerInv, SameClient, SameRedis, RetiredInv, IsStatus, IsReady, Ended
<1> QED
  BY <1>1, <1>2, <1>3, <1>4, <1>5, Zenon DEF WorkerInv

\* A step of one worker keeps the invariant when it keeps that worker's.
LEMMA OneWorker ==
  ASSUME Inv, TypeOK', NEW v \in Worker, WorkerInv(v)',
         \A w \in Worker : w # v => SameRedis(w) /\ SameClient(w)
  PROVE  Inv'
BY Frame, Zenon DEF Inv

\* A step that moves no worker keeps the invariant.
LEMMA NoWorker ==
  ASSUME Inv, TypeOK', \A w \in Worker : SameRedis(w) /\ SameClient(w)
  PROVE  Inv'
BY Frame, Zenon DEF Inv

\* A store that is not written is the same for every worker.
LEMMA SameRedisVars ==
  ASSUME UNCHANGED redisVars
  PROVE  \A w \in Worker : SameRedis(w)
BY Zenon DEF redisVars, SameRedis

-----------------------------------------------------------------------------
(* The publisher thread                                                    *)

\* The invariant holds initially.
LEMMA InitInv == Init => Inv
<1> SUFFICES ASSUME Init PROVE Inv
  BY Zenon
<1>1. 0 \in Age /\ 0 \in 0 .. ReregisterAfter - 1
  BY ConstantAssumption DEF Age, ReregisterAfter
<1>2. TypeOK
  BY <1>1, Zenon DEF Init, TypeOK, NoPlan
<1>3. ASSUME NEW w \in Worker PROVE WorkerInv(w)
  BY <1>2, ConstantAssumption, Zenon DEF Init, WorkerInv, RequestInv, IndexInv, OrderInv, GoneInv, RetiredInv,
     IsStatus, IsReady, Status
<1> QED
  BY <1>2, <1>3, Zenon DEF Inv

\* What a worker sends at a tick keeps the invariant.
LEMMA TickingInv ==
  ASSUME Inv, NEW v \in Worker, Ticking(v)
  PROVE  Inv'
<1>1. PICK c \in Command, p \in {"publish", "ready", "demote"} :
        /\ pc[v] = "idle"
        /\ pc' = [pc EXCEPT ![v] = p]
        /\ rpc' = [rpc EXCEPT ![v] = c]
        /\ c.kind = "publish" => v \notin sourceId
        /\ c.kind = "status" => c.age = 0
        /\ UNCHANGED <<redisVars, publisherVars, healthy, ready, late, reaperVars, goneFor, faults>>
  <2>1. CASE Publish(v)
    BY <2>1, PublishCommandFields, Zenon DEF Publish
  <2>2. CASE Beat(v)
    BY <2>2, StatusCommandFields, Zenon DEF Beat, Status
  <2>3. CASE Demote(v)
    BY <2>3, StatusCommandFields, Zenon DEF Demote, Status
  <2> QED
    BY <2>1, <2>2, <2>3, Zenon DEF Ticking
<1>2. TypeOK'
  BY <1>1, Zenon DEF Inv, TypeOK, redisVars, publisherVars, reaperVars
<1>3. \A w \in Worker : SameRedis(w) /\ (w # v => SameClient(w))
  BY <1>1, SameRedisVars, Zenon DEF Inv, TypeOK, SameClient, publisherVars
<1>4. WorkerInv(v)'
  <2>1. /\ pc'[v] = p /\ rpc'[v] = c /\ late'[v] = late[v] /\ goneFor'[v] = goneFor[v]
        /\ v \in sourceId' <=> v \in sourceId
        /\ v \in retired' <=> v \in retired
    BY <1>1, Zenon DEF Inv, TypeOK, publisherVars
  <2>2. WorkerInv(v) /\ SameRedis(v) /\ c # None /\ age[v] \in Age
    BY <1>3, CommandFields, Zenon DEF Inv, TypeOK
  <2>3. RequestInv(v)'
    BY <1>1, <2>1, <2>2, Zenon DEF RequestInv
  <2>4. IndexInv(v)'
    BY <1>1, <2>1, <2>2, Zenon DEF WorkerInv, IndexInv, PublishingAt, SameRedis
  <2>5. OrderInv(v)'
    BY <1>1, <2>1, <2>2 DEF WorkerInv, OrderInv, IsStatus, IsReady, SameRedis, Ended, Age
  <2>6. GoneInv(v)'
    BY <1>1, <2>1, <2>2, Zenon DEF WorkerInv, GoneInv, IsStatus, IsReady, SameRedis, Ended
  <2>7. RetiredInv(v)'
    BY <1>1, <2>1, <2>2, Zenon DEF WorkerInv, RetiredInv, Ended
  <2> QED
    BY <2>3, <2>4, <2>5, <2>6, <2>7, Zenon DEF WorkerInv
<1> QED
  BY <1>2, <1>3, <1>4, OneWorker, Zenon

\* A request is left to itself, and its sender ends or goes on.
LEMMA AbandonInv ==
  ASSUME Inv, NEW v \in Worker, NEW p \in {"idle", "ended"}, Abandon(v),
         pc' = [pc EXCEPT ![v] = p], ~Ended(v),
         p = "idle" => rpc[v] # None /\ rpc[v].age > 0,
         UNCHANGED <<redisVars, sourceId, retired, goneFor>>
  PROVE  /\ WorkerInv(v)'
         /\ \A w \in Worker : w # v => SameRedis(w) /\ SameClient(w)
         /\ rpc' \in [Worker -> Command \cup {None}] /\ late' \in [Worker -> Command \cup {None}]
<1>1. /\ rpc' = [rpc EXCEPT ![v] = None] /\ pc' = [pc EXCEPT ![v] = p]
      /\ \A w \in Worker : SameRedis(w)
      /\ sourceId' = sourceId /\ retired' = retired /\ goneFor' = goneFor
  BY SameRedisVars, Zenon DEF Abandon
<1>2. CASE rpc[v] = None
  <2>1. late' = late
    BY <1>2, Zenon DEF Abandon
  <2>2. pc[v] = "idle" /\ p = "ended"
    BY <1>2, Zenon DEF Inv, WorkerInv, RequestInv, Ended
  <2>3. /\ pc'[v] = "ended" /\ rpc'[v] = None /\ late'[v] = late[v] /\ goneFor'[v] = goneFor[v]
        /\ WorkerInv(v) /\ SameRedis(v)
    BY <1>1, <2>1, <2>2, Zenon DEF Inv, TypeOK
  <2>4. WorkerInv(v)'
    BY <1>1, <1>2, <2>2, <2>3, Zenon DEF WorkerInv, RequestInv, IndexInv, PublishingAt, OrderInv, GoneInv,
       RetiredInv, IsStatus, IsReady, SameRedis, Ended
  <2> QED
    BY <1>1, <2>1, <2>4, Zenon DEF Inv, TypeOK, SameClient
<1>3. CASE rpc[v] # None
  <2>1. late' = [late EXCEPT ![v] = rpc[v]] /\ late[v] = None
    BY <1>3, Zenon DEF Abandon
  <2>2. /\ pc'[v] = p /\ rpc'[v] = None /\ late'[v] = rpc[v] /\ goneFor'[v] = 0 /\ goneFor[v] = 0
        /\ rpc[v] \in Command /\ age[v] \in Age /\ WorkerInv(v) /\ SameRedis(v)
    BY <1>1, <1>3, <2>1, Zenon DEF Inv, TypeOK, WorkerInv, GoneInv
  <2>3. RequestInv(v)'
    BY <2>2, Zenon DEF RequestInv
  <2>4. IndexInv(v)'
    BY <1>1, <2>1, <2>2, Zenon DEF WorkerInv, IndexInv, PublishingAt, SameRedis
  <2>5. OrderInv(v)'
    BY <2>2, Zenon DEF OrderInv, IsStatus, IsReady, Ended
  <2>6. GoneInv(v)'
    BY <2>2, CommandFields DEF WorkerInv, GoneInv, IsStatus, IsReady, SameRedis, Ended, Age
  <2>7. RetiredInv(v)'
    BY <1>1, <2>2, Zenon DEF WorkerInv, RetiredInv
  <2>8. WorkerInv(v)'
    BY <2>3, <2>4, <2>5, <2>6, <2>7, Zenon DEF WorkerInv
  <2> QED
    BY <1>1, <2>1, <2>2, <2>8, Zenon DEF Inv, TypeOK, SameClient
<1> QED
  BY <1>2, <1>3, Zenon

\* A worker's exit keeps the invariant.
LEMMA LeavingInv ==
  ASSUME Inv, NEW v \in Worker, Leaving(v)
  PROVE  Inv'
<1>1. CASE MarkStale(v)
  <2> DEFINE c == StatusCommand("STALE")
  <2>1. c \in Command /\ c.kind = "status" /\ c.status = "STALE" /\ c.age = 0
    BY StatusCommandFields, Zenon DEF Status
  <2> HIDE DEF c
  <2>2. /\ pc[v] = "idle" /\ pc' = [pc EXCEPT ![v] = "stale"] /\ rpc' = [rpc EXCEPT ![v] = c]
        /\ UNCHANGED <<redisVars, publisherVars, healthy, ready, late, reaperVars, goneFor, faults>>
    BY <1>1, Zenon DEF MarkStale, c
  <2>3. TypeOK'
    BY <2>1, <2>2, Zenon DEF Inv, TypeOK, redisVars, publisherVars, reaperVars
  <2>4. \A w \in Worker : SameRedis(w) /\ (w # v => SameClient(w))
    BY <2>2, SameRedisVars, Zenon DEF Inv, TypeOK, SameClient, publisherVars
  <2>5. /\ pc'[v] = "stale" /\ rpc'[v] = c /\ late'[v] = late[v] /\ goneFor'[v] = goneFor[v]
        /\ sourceId' = sourceId /\ retired' = retired
        /\ WorkerInv(v) /\ SameRedis(v) /\ c # None /\ age[v] \in Age
    BY <2>1, <2>2, <2>4, CommandFields, Zenon DEF Inv, TypeOK, publisherVars
  <2>6. RequestInv(v)' /\ IndexInv(v)'
    BY <2>1, <2>2, <2>5, Zenon DEF WorkerInv, RequestInv, IndexInv, PublishingAt, IsStatus, SameRedis
  <2>7. OrderInv(v)'
    BY <2>1, <2>2, <2>5 DEF WorkerInv, OrderInv, IsStatus, IsReady, SameRedis, Ended, Age
  <2>8. GoneInv(v)' /\ RetiredInv(v)'
    BY <2>2, <2>5, Zenon DEF WorkerInv, GoneInv, RetiredInv, IsStatus, IsReady, SameRedis, Ended
  <2> QED
    BY <2>3, <2>4, <2>6, <2>7, <2>8, OneWorker, Zenon DEF WorkerInv
<1>2. CASE LeaveSilently(v)
  <2>1. /\ Abandon(v) /\ pc' = [pc EXCEPT ![v] = "ended"] /\ ~Ended(v)
        /\ UNCHANGED <<redisVars, publisherVars, healthy, ready, reaperVars, goneFor, faults>>
    BY <1>2, Zenon DEF LeaveSilently, Ended
  <2>2. /\ WorkerInv(v)'
        /\ \A w \in Worker : w # v => SameRedis(w) /\ SameClient(w)
        /\ rpc' \in [Worker -> Command \cup {None}] /\ late' \in [Worker -> Command \cup {None}]
    BY <2>1, AbandonInv, Zenon DEF publisherVars
  <2>3. TypeOK'
    BY <2>1, <2>2, Zenon DEF Inv, TypeOK, redisVars, publisherVars, reaperVars
  <2> QED
    BY <2>2, <2>3, OneWorker, Zenon
<1> QED
  BY <1>1, <1>2, Zenon DEF Leaving

-----------------------------------------------------------------------------
(* Requests                                                                *)

\* The script of a status request has run and its sender goes on.
LEMMA StatusAppliedInv ==
  ASSUME Inv, NEW v \in Worker, NEW p \in {"idle", "ended"},
         IsStatus(rpc[v]), ApplyStatus(v, rpc[v].status, rpc[v].age),
         rpc' = [rpc EXCEPT ![v] = None], pc' = [pc EXCEPT ![v] = p],
         late' = late, goneFor' = goneFor,
         sourceId' = sourceId \/ sourceId' = sourceId \ {v},
         \/ retired' = retired
         \/ retired' = retired \cup {v} /\ pc[v] = "stale" /\ p = "ended" /\ v \in records
  PROVE  /\ WorkerInv(v)' /\ RedisType' /\ rpc' \in [Worker -> Command \cup {None}]
         /\ \A w \in Worker : w # v => SameRedis(w) /\ SameClient(w)
<1> DEFINE s == rpc[v].status
           a == rpc[v].age
<1>1. rpc[v] \in Command /\ rpc[v] # None /\ s \in Status /\ a \in Age /\ RedisType
  BY CommandFields, Zenon DEF Inv, TypeOK, RedisType, IsStatus
<1>2. /\ RedisType'
      /\ \A w \in Worker : w # v => SameRedis(w)
      /\ \/ SameRedis(v) /\ ~(v \in records /\ Fresh(v, a))
         \/ /\ v \in records' /\ v \in index' /\ status'[v] = s /\ age'[v] = a
            /\ v \in records /\ Fresh(v, a)
  BY <1>1, ApplyStatusEffect, Zenon
<1>3. /\ rpc'[v] = None /\ pc'[v] = p /\ late'[v] = late[v] /\ goneFor'[v] = 0
      /\ ~Ended(v) /\ WorkerInv(v) /\ v \notin retired
      /\ age[v] \in Age /\ age'[v] \in Age
      /\ late[v] \in Command \cup {None}
  BY <1>1, <1>2, Zenon DEF Inv, TypeOK, RedisType, WorkerInv, RequestInv, GoneInv, RetiredInv, Ended
<1>4. RequestInv(v)'
  BY <1>3, Zenon DEF RequestInv
<1>5. IndexInv(v)'
  BY <1>2, <1>3, Zenon DEF WorkerInv, IndexInv, PublishingAt, SameRedis
<1>6. OrderInv(v)'
  BY <1>3, Zenon DEF WorkerInv, OrderInv, IsStatus, IsReady, Ended
<1>7. GoneInv(v)'
  BY <1>3, CommandFields DEF GoneInv, IsStatus, IsReady, Age
<1>8. RetiredInv(v)'
  <2>1. CASE v \notin retired'
    BY <2>1, Zenon DEF RetiredInv
  <2>2. CASE v \in retired'
    <3>1. pc[v] = "stale" /\ p = "ended" /\ v \in records /\ s = "STALE"
      BY <1>3, <2>2, Zenon DEF WorkerInv, RequestInv
    <3>2. IsReady(late[v]) => late[v].age > a
      BY <1>3, Zenon DEF WorkerInv, OrderInv
    <3>3. CASE Fresh(v, a)
      <4>1. status'[v] = "STALE" /\ status'[v] # None /\ age'[v] = a
        BY <1>1, <1>2, <3>1, <3>3, ConstantAssumption, Zenon DEF Status
      <4> QED
        BY <1>3, <3>1, <3>2, <4>1, Zenon DEF RetiredInv, Ended, IsReady, IsStatus
    <3>4. CASE ~Fresh(v, a)
      <4>1. status[v] # None /\ age[v] < a /\ SameRedis(v)
        BY <1>1, <1>2, <1>3, <3>4 DEF Fresh, Age
      <4>2. status[v] # "READY"
        BY <1>1, <1>3, <4>1 DEF WorkerInv, OrderInv, Age
      <4>3. IsReady(late[v]) => age[v] < late[v].age
        BY <1>1, <1>3, <3>2, <4>1, CommandFields DEF Age, IsReady, IsStatus
      <4> QED
        BY <1>3, <3>1, <4>1, <4>2, <4>3, Zenon DEF RetiredInv, Ended, IsReady, IsStatus, SameRedis
    <3> QED
      BY <3>3, <3>4, Zenon
  <2> QED
    BY <2>1, <2>2, Zenon
<1>9. WorkerInv(v)'
  BY <1>4, <1>5, <1>6, <1>7, <1>8, Zenon DEF WorkerInv
<1>10. \A w \in Worker : w # v => SameClient(w)
  BY Zenon DEF SameClient, Inv, TypeOK
<1> QED
  BY <1>2, <1>9, <1>10, Zenon DEF Inv, TypeOK

\* A step of a publication keeps the invariant.
LEMMA PublishStepInv ==
  ASSUME Inv, NEW v \in Worker, PublishStep(v)
  PROVE  Inv'
<1> DEFINE n == rpc[v].step
<1>1. /\ rpc[v] # None /\ rpc[v].kind = "publish" /\ ApplyWrite(v, n)
      /\ UNCHANGED <<started, demoted, rejected, stopping, retired, healthy, ready, late, reaperVars,
                     goneFor, faults>>
  BY Zenon DEF PublishStep
<1>2. rpc[v] \in Command /\ n \in 1 .. 4 /\ RedisType
  BY <1>1, CommandFields, Zenon DEF Inv, TypeOK, RedisType
<1>3. /\ RedisType'
      /\ \A w \in Worker : w # v => SameRedis(w)
      /\ n = 4 => v \in index'
      /\ \/ status'[v] = status[v] /\ age'[v] = age[v]
         \/ status'[v] = "UNKNOWN"
  BY <1>1, <1>2, ApplyWriteEffect, Zenon
<1>4. /\ WorkerInv(v) /\ ~Ended(v) /\ v \notin sourceId /\ v \notin retired
      /\ late'[v] = late[v] /\ goneFor'[v] = 0 /\ retired' = retired
      /\ late[v] \in Command \cup {None} /\ age'[v] \in Age
  BY <1>1, <1>3, Zenon DEF Inv, TypeOK, RedisType, WorkerInv, RequestInv, RetiredInv, GoneInv, Ended
<1>5. /\ GoneInv(v)' /\ RetiredInv(v)'
  BY <1>4, CommandFields DEF GoneInv, RetiredInv, IsStatus, IsReady, Age
<1>6. CASE n < 4
  <2> DEFINE d == [rpc[v] EXCEPT !.step = n + 1]
  <2>1. d \in Command /\ d.kind = "publish"
    BY <1>1, <1>2, <1>6, NextStepFields, Zenon
  <2> HIDE DEF d
  <2>2. rpc' = [rpc EXCEPT ![v] = d] /\ pc' = pc /\ sourceId' = sourceId
    BY <1>6, Zenon DEF PublishStep, d
  <2>3. rpc'[v] = d /\ d # None
    BY <2>1, <2>2, CommandFields, Zenon DEF Inv, TypeOK
  <2>4. RequestInv(v)'
    BY <1>1, <1>4, <2>1, <2>2, <2>3, Zenon DEF WorkerInv, RequestInv, IsStatus
  <2>5. IndexInv(v)' /\ OrderInv(v)'
    BY <1>4, <2>1, <2>2, <2>3, Zenon DEF WorkerInv, IndexInv, OrderInv, IsStatus, IsReady, Ended
  <2>6. TypeOK'
    BY <1>1, <1>3, <2>1, <2>2, Zenon DEF Inv, TypeOK, RedisType, reaperVars
  <2>7. \A w \in Worker : w # v => SameClient(w)
    BY <1>1, <2>2, Zenon DEF SameClient, Inv, TypeOK
  <2> QED
    BY <1>3, <1>5, <2>4, <2>5, <2>6, <2>7, OneWorker, Zenon DEF WorkerInv
<1>7. CASE ~(n < 4)
  <2>1. /\ rpc' = [rpc EXCEPT ![v] = None] /\ pc' = [pc EXCEPT ![v] = "idle"]
        /\ sourceId' = sourceId \cup {v} /\ n = 4
    BY <1>2, <1>7 DEF PublishStep
  <2>2. rpc'[v] = None /\ pc'[v] = "idle"
    BY <2>1, Zenon DEF Inv, TypeOK
  <2>3. RequestInv(v)' /\ IndexInv(v)' /\ OrderInv(v)'
    BY <1>3, <1>4, <2>1, <2>2, Zenon DEF WorkerInv, RequestInv, IndexInv, OrderInv, IsStatus, IsReady, Ended
  <2>4. TypeOK'
    BY <1>1, <1>3, <2>1, Zenon DEF Inv, TypeOK, RedisType, reaperVars
  <2>5. \A w \in Worker : w # v => SameClient(w)
    BY <1>1, <2>1, Zenon DEF SameClient, Inv, TypeOK
  <2> QED
    BY <1>3, <1>5, <2>3, <2>4, <2>5, OneWorker, Zenon DEF WorkerInv
<1> QED
  BY <1>6, <1>7, Zenon

\* A step of a publication that nobody waits for keeps it too.
LEMMA LatePublishStepInv ==
  ASSUME Inv, NEW v \in Worker, LatePublishStep(v)
  PROVE  Inv'
<1> DEFINE n == late[v].step
           d == IF n < 4 THEN [late[v] EXCEPT !.step = n + 1] ELSE None
<1>1. /\ late[v] # None /\ late[v].kind = "publish" /\ ApplyWrite(v, n)
      /\ late' = [late EXCEPT ![v] = d]
      /\ UNCHANGED <<pc, publisherVars, healthy, ready, rpc, reaperVars, goneFor, faults>>
  BY Zenon DEF LatePublishStep
<1>2. late[v] \in Command /\ n \in 1 .. 4 /\ RedisType
  BY <1>1, CommandFields, Zenon DEF Inv, TypeOK, RedisType
<1>3. /\ RedisType'
      /\ \A w \in Worker : w # v => SameRedis(w)
      /\ n = 4 => v \in index'
      /\ \/ status'[v] = status[v] /\ age'[v] = age[v]
         \/ status'[v] = "UNKNOWN"
  BY <1>1, <1>2, ApplyWriteEffect, Zenon
<1>4. d \in Command \cup {None} /\ ~IsStatus(d) /\ (n < 4 => PublishingAt(d, 2 .. 4))
  <2>1. CASE n < 4
    <3>1. d \in Command /\ d.kind = "publish" /\ d.step = n + 1
      BY <1>1, <1>2, <2>1, NextStepFields, Zenon
    <3> QED
      BY <1>2, <2>1, <3>1, CommandFields DEF IsStatus, PublishingAt
  <2>2. CASE ~(n < 4)
    BY <2>2, Zenon DEF IsStatus
  <2> QED
    BY <2>1, <2>2, Zenon
<1> HIDE DEF d
<1>5. /\ WorkerInv(v) /\ late'[v] = d
      /\ pc' = pc /\ rpc' = rpc /\ goneFor' = goneFor /\ sourceId' = sourceId /\ retired' = retired
  BY <1>1, Zenon DEF Inv, TypeOK, publisherVars
<1>6. RequestInv(v)' /\ IndexInv(v)'
  BY <1>2, <1>3, <1>4, <1>5 DEF WorkerInv, RequestInv, IndexInv, IsStatus
<1>7. OrderInv(v)' /\ GoneInv(v)' /\ RetiredInv(v)'
  BY <1>3, <1>4, <1>5, Zenon DEF WorkerInv, OrderInv, GoneInv, RetiredInv, IsReady, IsStatus, Ended
<1>8. TypeOK'
  BY <1>1, <1>3, <1>4, Zenon DEF Inv, TypeOK, RedisType, reaperVars, publisherVars
<1>9. \A w \in Worker : w # v => SameClient(w)
  BY <1>1, <1>5, Zenon DEF SameClient, Inv, TypeOK
<1> QED
  BY <1>3, <1>6, <1>7, <1>8, <1>9, OneWorker, Zenon DEF WorkerInv

\* The count of rejected heartbeats starts again at its limit.
LEMMA RejectionCounted ==
  ASSUME Inv, NEW v \in Worker, OnHeartbeatRejected(v)
  PROVE  rejected' \in [Worker -> 0 .. ReregisterAfter - 1]
<1>1. rejected[v] \in 0 .. 1
  BY DEF Inv, TypeOK, ReregisterAfter
<1>2. (IF rejected[v] + 1 >= 2 THEN 0 ELSE rejected[v] + 1) \in 0 .. 1
  BY <1>1
<1> QED
  BY <1>2 DEF OnHeartbeatRejected, Inv, TypeOK, ReregisterAfter

\* An answered command keeps the invariant.
LEMMA AnsweredInv ==
  ASSUME Inv, NEW v \in Worker, Answered(v)
  PROVE  Inv'
<1>1. CASE PublishStep(v)
  BY <1>1, PublishStepInv, Zenon
<1>2. CASE BeatAccepted(v)
  <2>1. /\ IsStatus(rpc[v]) /\ ApplyStatus(v, rpc[v].status, rpc[v].age)
        /\ rpc' = [rpc EXCEPT ![v] = None] /\ pc' = [pc EXCEPT ![v] = "idle"]
        /\ UNCHANGED <<stopping, healthy, ready, late, reaperVars, goneFor, faults, sourceId, retired>>
    BY <1>2, Zenon DEF BeatAccepted, StatusAnswered, IsStatus
  <2>2. /\ WorkerInv(v)' /\ RedisType' /\ rpc' \in [Worker -> Command \cup {None}]
        /\ \A w \in Worker : w # v => SameRedis(w) /\ SameClient(w)
    BY <2>1, StatusAppliedInv, Zenon
  <2>3. /\ rejected' \in [Worker -> 0 .. ReregisterAfter - 1]
        /\ demoted' \subseteq Worker /\ started' \subseteq Worker
    BY <1>2 DEF BeatAccepted, Inv, TypeOK, ReregisterAfter
  <2>4. TypeOK'
    BY <2>1, <2>2, <2>3, Zenon DEF Inv, TypeOK, RedisType, reaperVars
  <2> QED
    BY <2>2, <2>4, OneWorker, Zenon
<1>3. CASE BeatRejected(v)
  <2>1. /\ IsStatus(rpc[v]) /\ ApplyStatus(v, rpc[v].status, rpc[v].age)
        /\ rpc' = [rpc EXCEPT ![v] = None] /\ pc' = [pc EXCEPT ![v] = "idle"]
        /\ UNCHANGED <<stopping, healthy, ready, late, reaperVars, goneFor, faults, demoted, started,
                       retired>>
        /\ sourceId' = sourceId \/ sourceId' = sourceId \ {v}
    BY <1>3, Zenon DEF BeatRejected, OnHeartbeatRejected, StatusAnswered, IsStatus
  <2>2. /\ WorkerInv(v)' /\ RedisType' /\ rpc' \in [Worker -> Command \cup {None}]
        /\ \A w \in Worker : w # v => SameRedis(w) /\ SameClient(w)
    BY <2>1, StatusAppliedInv, Zenon
  <2>3. rejected' \in [Worker -> 0 .. ReregisterAfter - 1]
    BY <1>3, RejectionCounted, Zenon DEF BeatRejected
  <2>4. TypeOK'
    BY <2>1, <2>2, <2>3, Zenon DEF Inv, TypeOK, RedisType, reaperVars
  <2> QED
    BY <2>2, <2>4, OneWorker, Zenon
<1>4. CASE DemoteAnswered(v)
  <2>1. /\ IsStatus(rpc[v]) /\ ApplyStatus(v, rpc[v].status, rpc[v].age)
        /\ rpc' = [rpc EXCEPT ![v] = None] /\ pc' = [pc EXCEPT ![v] = "idle"]
        /\ demoted' = demoted \cup {v}
        /\ UNCHANGED <<stopping, healthy, ready, late, reaperVars, goneFor, faults, sourceId, started,
                       rejected, retired>>
    BY <1>4, Zenon DEF DemoteAnswered, Demoted, StatusAnswered, IsStatus
  <2>2. /\ WorkerInv(v)' /\ RedisType' /\ rpc' \in [Worker -> Command \cup {None}]
        /\ \A w \in Worker : w # v => SameRedis(w) /\ SameClient(w)
    BY <2>1, StatusAppliedInv, Zenon
  <2>3. TypeOK'
    BY <2>1, <2>2, Zenon DEF Inv, TypeOK, RedisType, reaperVars
  <2> QED
    BY <2>2, <2>3, OneWorker, Zenon
<1>5. CASE StaleAnswered(v)
  <2>1. /\ IsStatus(rpc[v]) /\ ApplyStatus(v, rpc[v].status, rpc[v].age) /\ pc[v] = "stale"
        /\ rpc' = [rpc EXCEPT ![v] = None] /\ pc' = [pc EXCEPT ![v] = "ended"]
        /\ started' = started \ {v}
        /\ retired' = retired \/ (retired' = retired \cup {v} /\ v \in records)
        /\ UNCHANGED <<stopping, healthy, ready, late, reaperVars, goneFor, faults, sourceId, demoted,
                       rejected>>
    <3>1. StatusAnswered(v, "stale")
      BY <1>5, Zenon DEF StaleAnswered
    <3>2. /\ pc' = [pc EXCEPT ![v] = "ended"] /\ started' = started \ {v}
          /\ UNCHANGED <<sourceId, demoted, rejected>>
      BY <1>5, Zenon DEF StaleAnswered
    <3>3. retired' = retired \/ (retired' = retired \cup {v} /\ v \in records)
      <4>1. CASE Accepted(v)
        BY <1>5, <4>1, Zenon DEF StaleAnswered, Accepted
      <4>2. CASE ~Accepted(v)
        BY <1>5, <4>2, Zenon DEF StaleAnswered
      <4> QED
        BY <4>1, <4>2, Zenon
    <3> QED
      BY <3>1, <3>2, <3>3, Zenon DEF StatusAnswered, IsStatus
  <2>2. /\ WorkerInv(v)' /\ RedisType' /\ rpc' \in [Worker -> Command \cup {None}]
        /\ \A w \in Worker : w # v => SameRedis(w) /\ SameClient(w)
    BY <2>1, StatusAppliedInv, Zenon
  <2>3. TypeOK'
    BY <2>1, <2>2, Zenon DEF Inv, TypeOK, RedisType, reaperVars
  <2> QED
    BY <2>2, <2>3, OneWorker, Zenon
<1> QED
  BY <1>1, <1>2, <1>3, <1>4, <1>5, Zenon DEF Answered

\* A status update that nobody waits for keeps it too.
LEMMA LateStatusInv ==
  ASSUME Inv, NEW v \in Worker, LateStatus(v)
  PROVE  Inv'
<1> DEFINE s == late[v].status
           a == late[v].age
<1>1. /\ IsStatus(late[v]) /\ ApplyStatus(v, s, a) /\ late' = [late EXCEPT ![v] = None]
      /\ UNCHANGED <<pc, publisherVars, healthy, ready, rpc, reaperVars, goneFor, faults>>
  BY Zenon DEF LateStatus, IsStatus
<1>2. late[v] \in Command /\ late[v] # None /\ s \in Status /\ a \in Age /\ RedisType
  BY <1>1, CommandFields, Zenon DEF Inv, TypeOK, RedisType, IsStatus
<1>3. /\ RedisType'
      /\ \A w \in Worker : w # v => SameRedis(w)
      /\ \/ SameRedis(v) /\ ~(v \in records /\ Fresh(v, a))
         \/ /\ v \in records' /\ v \in index' /\ status'[v] = s /\ age'[v] = a
            /\ v \in records /\ Fresh(v, a)
  BY <1>1, <1>2, ApplyStatusEffect, Zenon
<1>4. /\ WorkerInv(v) /\ late'[v] = None /\ age[v] \in Age
      /\ pc' = pc /\ rpc' = rpc /\ goneFor' = goneFor /\ sourceId' = sourceId /\ retired' = retired
      /\ rpc[v] \in Command \cup {None} /\ goneFor[v] \in Age
  BY <1>1, Zenon DEF Inv, TypeOK, publisherVars
<1>5. RequestInv(v)' /\ IndexInv(v)'
  BY <1>1, <1>3, <1>4, Zenon DEF WorkerInv, RequestInv, IndexInv, PublishingAt, IsStatus, SameRedis
<1>6. OrderInv(v)'
  <2>1. SUFFICES ASSUME IsStatus(rpc[v]), status'[v] = "READY"
                 PROVE  age'[v] >= rpc[v].age
    <3>1. ~IsReady(late[v])'
      BY <1>4, Zenon DEF IsStatus, IsReady
    <3>2. IsStatus(rpc[v])' <=> IsStatus(rpc[v])
      BY <1>4, Zenon DEF IsStatus
    <3> QED
      BY <1>4, <3>1, <3>2, Zenon DEF OrderInv
  <2>2. CASE SameRedis(v)
    BY <1>4, <2>1, <2>2, Zenon DEF WorkerInv, OrderInv, SameRedis
  <2>3. CASE status'[v] = s /\ age'[v] = a
    <3>1. a > rpc[v].age
      BY <1>1, <1>4, <2>1, <2>3, Zenon DEF WorkerInv, OrderInv, IsReady
    <3>2. rpc[v].age \in Age
      BY <1>4, <2>1, CommandFields, Zenon DEF IsStatus
    <3> QED
      BY <1>2, <2>3, <3>1, <3>2 DEF Age
  <2> QED
    BY <1>3, <2>2, <2>3, Zenon
<1>7. GoneInv(v)'
  BY <1>1, <1>3, <1>4, Zenon DEF WorkerInv, GoneInv, IsStatus, IsReady, SameRedis, Ended
<1>8. RetiredInv(v)'
  <2>1. SUFFICES ASSUME v \in retired PROVE Ended(v)' /\ status'[v] # "READY"
    BY <1>4, Zenon DEF RetiredInv, IsReady, IsStatus
  <2>2. Ended(v)' /\ status[v] # "READY"
    BY <1>4, <2>1, Zenon DEF WorkerInv, RetiredInv, Ended
  <2>3. CASE SameRedis(v)
    BY <2>2, <2>3, Zenon DEF SameRedis
  <2>4. CASE v \in records /\ Fresh(v, a) /\ status'[v] = s
    <3>1. SUFFICES ASSUME s = "READY" PROVE FALSE
      BY <2>2, <2>4, Zenon
    <3>2. status[v] # None /\ age[v] < a
      BY <1>1, <1>4, <2>1, <2>4, <3>1, Zenon DEF WorkerInv, RetiredInv, IsReady
    <3> QED
      BY <1>2, <1>4, <2>4, <3>2 DEF Fresh, Age
  <2> QED
    BY <1>3, <2>2, <2>3, <2>4, Zenon
<1>9. TypeOK'
  BY <1>1, <1>3, Zenon DEF Inv, TypeOK, RedisType, reaperVars, publisherVars
<1>10. \A w \in Worker : w # v => SameClient(w)
  BY <1>1, <1>4, Zenon DEF SameClient, Inv, TypeOK
<1> QED
  BY <1>3, <1>5, <1>6, <1>7, <1>8, <1>9, <1>10, OneWorker, Zenon DEF WorkerInv

-----------------------------------------------------------------------------
(* Mishaps                                                                 *)

\* A fault keeps the fault counts typed.
LEMMA FaultCounted ==
  ASSUME Inv, NEW k, FaultOf(k)
  PROVE  faults' \in [Fault -> Nat]
BY SMTT(30) DEF FaultOf, Inv, TypeOK

\* A request ends with nothing stored, and its sender goes on.
LEMMA RequestEndedInv ==
  ASSUME Inv, NEW v \in Worker, rpc[v] # None, rpc' = [rpc EXCEPT ![v] = None],
         \E p \in {"idle", "ended"} : pc' = [pc EXCEPT ![v] = p],
         sourceId' = sourceId \/ sourceId' = sourceId \ {v},
         started' \subseteq Worker, demoted' \subseteq Worker, faults' \in [Fault -> Nat],
         rejected' \in [Worker -> 0 .. ReregisterAfter - 1],
         UNCHANGED <<redisVars, late, stopping, retired, healthy, ready, reaperVars, goneFor>>
  PROVE  Inv'
<1>1. PICK p \in {"idle", "ended"} : pc' = [pc EXCEPT ![v] = p]
  BY Zenon
<1>2. TypeOK'
  BY <1>1, Zenon DEF Inv, TypeOK, redisVars, reaperVars
<1>3. \A w \in Worker : SameRedis(w) /\ (w # v => SameClient(w))
  BY <1>1, SameRedisVars, Zenon DEF Inv, TypeOK, SameClient
<1>4. /\ WorkerInv(v) /\ SameRedis(v) /\ ~Ended(v) /\ pc'[v] = p /\ rpc'[v] = None
      /\ v \in sourceId' => v \in sourceId
  BY <1>1, <1>3, Zenon DEF Inv, TypeOK, WorkerInv, RequestInv, Ended
<1>5. RequestInv(v)' /\ IndexInv(v)'
  BY <1>4, Zenon DEF WorkerInv, RequestInv, IndexInv, PublishingAt, SameRedis
<1>6. OrderInv(v)'
  BY <1>4, Zenon DEF WorkerInv, OrderInv, IsStatus, IsReady, Ended
<1>7. GoneInv(v)' /\ RetiredInv(v)'
  BY <1>4, Zenon DEF WorkerInv, GoneInv, RetiredInv, IsStatus, IsReady, SameRedis, Ended
<1> QED
  BY <1>2, <1>3, <1>5, <1>6, <1>7, OneWorker, Zenon DEF WorkerInv

\* Failed requests, lost answers, deadlines and crashes keep the invariant.
LEMMA MishapInv ==
  ASSUME Inv, NEW v \in Worker, Mishap(v)
  PROVE  Inv'
<1>1. faults' \in [Fault -> Nat]
  <2>1. CASE HealthChanges(v) \/ ReadinessChanges(v)
    BY <2>1, FaultCounted, Zenon DEF HealthChanges, ReadinessChanges, Inv, TypeOK
  <2>2. CASE ~(HealthChanges(v) \/ ReadinessChanges(v))
    BY <2>2, FaultCounted, Zenon DEF Mishap, RequestStop, GiveUp, RequestFails, ReplyLost, Deadline,
       PublishRetried, Crash, BeatNotStored, DemoteNotStored, StaleNotStored, StoreFails
  <2> QED
    BY <2>1, <2>2, Zenon
<1>2. CASE RequestStop(v) \/ GiveUp(v) \/ HealthChanges(v) \/ ReadinessChanges(v)
  <2>1. /\ UNCHANGED <<redisVars, pc, sourceId, started, demoted, rejected, retired, rpc, late,
                       reaperVars, goneFor>>
        /\ stopping' \subseteq Worker /\ healthy' \subseteq Worker /\ ready' \subseteq Worker
    <3>1. CASE RequestStop(v)
      BY <3>1, Zenon DEF RequestStop, Inv, TypeOK
    <3>2. CASE GiveUp(v)
      BY <3>2, Zenon DEF GiveUp, Inv, TypeOK
    <3>3. CASE HealthChanges(v)
      BY <3>3, Zenon DEF HealthChanges, publisherVars, Inv, TypeOK
    <3>4. CASE ReadinessChanges(v)
      BY <3>4, Zenon DEF ReadinessChanges, publisherVars, Inv, TypeOK
    <3> QED
      BY <1>2, <3>1, <3>2, <3>3, <3>4, Zenon
  <2>2. TypeOK'
    BY <1>1, <2>1, Zenon DEF Inv, TypeOK, redisVars, reaperVars
  <2> QED
    BY <2>1, <2>2, NoWorker, SameRedisVars, Zenon DEF SameClient
<1>3. CASE RequestFails(v)
  <2>1. /\ rpc[v] # None /\ rpc' = [rpc EXCEPT ![v] = None]
        /\ \E p \in {"idle", "ended"} : pc' = [pc EXCEPT ![v] = p]
        /\ started' \subseteq Worker
        /\ UNCHANGED <<redisVars, late, sourceId, demoted, rejected, stopping, retired, healthy, ready,
                       reaperVars, goneFor>>
    BY <1>3, Zenon DEF RequestFails, Raises, Inv, TypeOK
  <2> QED
    BY <1>1, <2>1, RequestEndedInv, Zenon DEF Inv, TypeOK
<1>4. CASE ReplyLost(v)
  <2> DEFINE p == IF pc[v] = "stale" THEN "ended" ELSE "idle"
  <2>1. /\ IsStatus(rpc[v]) /\ ApplyStatus(v, rpc[v].status, rpc[v].age)
        /\ rpc' = [rpc EXCEPT ![v] = None]
        /\ pc' = [pc EXCEPT ![v] = p] /\ p \in {"idle", "ended"}
        /\ started' \subseteq Worker
        /\ UNCHANGED <<late, sourceId, demoted, rejected, stopping, retired, healthy, ready, reaperVars,
                       goneFor>>
    BY <1>4, Zenon DEF ReplyLost, Raises, IsStatus, Inv, TypeOK
  <2> HIDE DEF p
  <2>2. /\ WorkerInv(v)' /\ RedisType' /\ rpc' \in [Worker -> Command \cup {None}]
        /\ \A w \in Worker : w # v => SameRedis(w) /\ SameClient(w)
    BY <2>1, StatusAppliedInv, Zenon
  <2>3. TypeOK'
    BY <1>1, <2>1, <2>2, Zenon DEF Inv, TypeOK, RedisType, reaperVars
  <2> QED
    BY <2>2, <2>3, OneWorker, Zenon
<1>5. CASE Deadline(v)
  <2>1. rpc[v] # None /\ rpc[v].age > 0 /\ Abandon(v) /\ Raises(v) /\ UNCHANGED redisVars
    BY <1>5, Zenon DEF Deadline
  <2>2. \E p \in {"idle", "ended"} : pc' = [pc EXCEPT ![v] = p]
    BY <2>1, Zenon DEF Raises
  <2>3. /\ ~Ended(v) /\ started' \subseteq Worker
        /\ UNCHANGED <<sourceId, demoted, rejected, stopping, retired, healthy, ready, reaperVars, goneFor>>
    BY <2>1, Zenon DEF Raises, Inv, TypeOK, WorkerInv, RequestInv, Ended
  <2>4. /\ WorkerInv(v)'
        /\ \A w \in Worker : w # v => SameRedis(w) /\ SameClient(w)
        /\ rpc' \in [Worker -> Command \cup {None}] /\ late' \in [Worker -> Command \cup {None}]
    BY <2>1, <2>2, <2>3, AbandonInv, Zenon
  <2>5. pc' \in [Worker -> {"idle", "publish", "ready", "demote", "stale", "ended"}]
    BY <2>2, Zenon DEF Inv, TypeOK
  <2>6. TypeOK'
    BY <1>1, <2>1, <2>3, <2>4, <2>5, Zenon DEF Inv, TypeOK, redisVars, reaperVars
  <2> QED
    BY <2>4, <2>6, OneWorker, Zenon
<1>6. CASE PublishRetried(v)
  <2>1. /\ rpc[v] # None /\ rpc[v].kind = "publish" /\ late[v] = None
        /\ late' = [late EXCEPT ![v] = rpc[v]] /\ rpc' = [rpc EXCEPT ![v] = PublishCommand]
        /\ UNCHANGED <<redisVars, pc, publisherVars, healthy, ready, reaperVars, goneFor>>
    BY <1>6, Zenon DEF PublishRetried
  <2>2. TypeOK'
    BY <1>1, <2>1, PublishCommandFields, Zenon DEF Inv, TypeOK, redisVars, reaperVars, publisherVars
  <2>3. \A w \in Worker : SameRedis(w) /\ (w # v => SameClient(w))
    BY <2>1, SameRedisVars, Zenon DEF Inv, TypeOK, SameClient, publisherVars
  <2>4. /\ WorkerInv(v) /\ SameRedis(v) /\ late'[v] = rpc[v] /\ rpc'[v] = PublishCommand
        /\ PublishCommand # None /\ PublishCommand.kind = "publish"
        /\ sourceId' = sourceId /\ retired' = retired
    BY <2>1, <2>3, PublishCommandFields, CommandFields, Zenon DEF Inv, TypeOK, publisherVars
  <2>5. RequestInv(v)' /\ IndexInv(v)'
    BY <2>1, <2>4, Zenon DEF WorkerInv, RequestInv, IndexInv, IsStatus
  <2>6. OrderInv(v)' /\ GoneInv(v)' /\ RetiredInv(v)'
    BY <2>1, <2>4, Zenon DEF WorkerInv, OrderInv, GoneInv, RetiredInv, IsStatus, IsReady, SameRedis, Ended
  <2> QED
    BY <2>2, <2>3, <2>5, <2>6, OneWorker, Zenon DEF WorkerInv
<1>7. CASE Crash(v)
  <2>1. /\ Abandon(v) /\ pc' = [pc EXCEPT ![v] = "ended"] /\ ~Ended(v)
        /\ UNCHANGED <<redisVars, publisherVars, healthy, ready, reaperVars, goneFor>>
    BY <1>7, Zenon DEF Crash
  <2>2. /\ WorkerInv(v)'
        /\ \A w \in Worker : w # v => SameRedis(w) /\ SameClient(w)
        /\ rpc' \in [Worker -> Command \cup {None}] /\ late' \in [Worker -> Command \cup {None}]
    BY <2>1, AbandonInv, Zenon DEF publisherVars
  <2>3. TypeOK'
    BY <1>1, <2>1, <2>2, Zenon DEF Inv, TypeOK, redisVars, publisherVars, reaperVars
  <2> QED
    BY <2>2, <2>3, OneWorker, Zenon
<1>8. CASE BeatNotStored(v)
  <2>1. /\ rpc[v] # None /\ rpc' = [rpc EXCEPT ![v] = None] /\ pc' = [pc EXCEPT ![v] = "idle"]
        /\ sourceId' = sourceId \/ sourceId' = sourceId \ {v}
        /\ UNCHANGED <<redisVars, late, started, demoted, stopping, retired, healthy, ready, reaperVars,
                       goneFor>>
    BY <1>8, Zenon DEF BeatNotStored, StoreFails, OnHeartbeatRejected
  <2>2. rejected' \in [Worker -> 0 .. ReregisterAfter - 1]
    BY <1>8, RejectionCounted, Zenon DEF BeatNotStored
  <2> QED
    BY <1>1, <2>1, <2>2, RequestEndedInv, Zenon DEF Inv, TypeOK
<1>9. CASE DemoteNotStored(v)
  <2>1. /\ rpc[v] # None /\ rpc' = [rpc EXCEPT ![v] = None] /\ pc' = [pc EXCEPT ![v] = "idle"]
        /\ demoted' \subseteq Worker
        /\ UNCHANGED <<redisVars, late, sourceId, started, rejected, stopping, retired, healthy, ready,
                       reaperVars, goneFor>>
    BY <1>9, Zenon DEF DemoteNotStored, StoreFails, Demoted, Inv, TypeOK
  <2> QED
    BY <1>1, <2>1, RequestEndedInv, Zenon DEF Inv, TypeOK
<1>10. CASE StaleNotStored(v)
  <2>1. /\ rpc[v] # None /\ rpc' = [rpc EXCEPT ![v] = None] /\ pc' = [pc EXCEPT ![v] = "ended"]
        /\ started' \subseteq Worker
        /\ UNCHANGED <<redisVars, late, sourceId, demoted, rejected, stopping, retired, healthy, ready,
                       reaperVars, goneFor>>
    BY <1>10, Zenon DEF StaleNotStored, StoreFails, Inv, TypeOK
  <2> QED
    BY <1>1, <2>1, RequestEndedInv, Zenon DEF Inv, TypeOK
<1> QED
  BY <1>2, <1>3, <1>4, <1>5, <1>6, <1>7, <1>8, <1>9, <1>10, Zenon DEF Mishap

-----------------------------------------------------------------------------
(* The reaper, the store and time                                          *)

\* What a reaper only plans, and a restart, keep the invariant.
LEMMA PlanningInv ==
  ASSUME Inv, NEW r \in Replica,
         ReaperScan(r) \/ ReplicaRestarts(r) \/ \E w \in Worker : ReaperStamp(r, w)
  PROVE  Inv'
<1>1. /\ UNCHANGED <<redisVars, pc, publisherVars, healthy, ready, rpc, late, goneFor>>
      /\ faults' \in [Fault -> Nat]
      /\ plan' \in [Replica -> [Worker -> {"keep", "mark", "remove"}]]
      /\ marking' \in [Replica -> (Worker \X Age) \cup {None}]
  <2>1. CASE ReaperScan(r)
    <3>1. \A w \in Worker : Decision(w) \in {"keep", "mark", "remove"}
      BY Zenon DEF Decision
    <3> QED
      BY <2>1, <3>1, Zenon DEF ReaperScan, Inv, TypeOK
  <2>2. CASE ReplicaRestarts(r)
    BY <2>2, FaultCounted, Zenon DEF ReplicaRestarts, NoPlan, Inv, TypeOK
  <2>3. ASSUME NEW w \in Worker, ReaperStamp(r, w)
        PROVE  <1>1!:
    <3>1. 0 \in Age
      BY ConstantAssumption DEF Age
    <3> QED
      BY <2>3, <3>1 DEF ReaperStamp, Inv, TypeOK
  <2> QED
    BY <2>1, <2>2, <2>3, Zenon
<1>2. TypeOK'
  BY <1>1, Zenon DEF Inv, TypeOK, redisVars, publisherVars
<1> QED
  BY <1>1, <1>2, NoWorker, SameRedisVars, Zenon DEF SameClient, publisherVars

\* Marking a worker STALE keeps the invariant.
LEMMA ReaperMarkInv ==
  ASSUME Inv, NEW r \in Replica, ReaperMark(r)
  PROVE  Inv'
<1>1. marking[r] \in Worker \X Age
  BY Zenon DEF ReaperMark, Inv, TypeOK
<1>2. PICK v \in Worker, a \in Age : marking[r] = <<v, a>>
  BY <1>1
<1>3. /\ ApplyStatus(v, "STALE", a) /\ marking' = [marking EXCEPT ![r] = None]
      /\ UNCHANGED <<pc, publisherVars, healthy, ready, rpc, late, plan, goneFor, faults>>
  BY <1>2 DEF ReaperMark
<1>4. "STALE" \in Status /\ "STALE" # None /\ RedisType
  BY ConstantAssumption, Zenon DEF Inv, TypeOK, RedisType, Status
<1>5. /\ RedisType'
      /\ \A w \in Worker : w # v => SameRedis(w)
      /\ \/ SameRedis(v)
         \/ /\ v \in records' /\ v \in index' /\ status'[v] = "STALE" /\ age'[v] = a
            /\ v \in records /\ Fresh(v, a)
  BY <1>3, <1>4, ApplyStatusEffect, Zenon
<1>6. \A w \in Worker : SameClient(w)
  BY <1>3, Zenon DEF SameClient, publisherVars
<1>7. TypeOK'
  BY <1>3, <1>5, Zenon DEF Inv, TypeOK, RedisType, publisherVars
<1>8. WorkerInv(v)'
  <2>1. WorkerInv(v) /\ SameClient(v) /\ age[v] \in Age /\ late[v] \in Command \cup {None}
    BY <1>6, Zenon DEF Inv, TypeOK
  <2>2. CASE SameRedis(v)
    BY <2>1, <2>2, Frame, Zenon
  <2>3. CASE /\ v \in index' /\ status'[v] = "STALE" /\ age'[v] = a
             /\ v \in records /\ Fresh(v, a)
    <3>1. RequestInv(v)' /\ IndexInv(v)'
      BY <2>1, <2>3, Zenon DEF WorkerInv, RequestInv, IndexInv, IsStatus, SameClient
    <3>2. OrderInv(v)' /\ GoneInv(v)'
      BY <2>1, <2>3, Zenon DEF WorkerInv, OrderInv, GoneInv, IsStatus, IsReady, SameClient, Ended
    <3>3. RetiredInv(v)'
      <4>1. SUFFICES ASSUME v \in retired, IsReady(late[v]) PROVE a < late[v].age
        BY <1>4, <2>1, <2>3, Zenon DEF WorkerInv, RetiredInv, SameClient, Ended, IsReady, IsStatus
      <4>2. status[v] # None /\ age[v] < late[v].age
        BY <2>1, <2>3, <4>1, Zenon DEF WorkerInv, RetiredInv
      <4>3. late[v].age \in Age /\ age[v] >= a
        BY <2>1, <2>3, <4>1, <4>2, CommandFields, Zenon DEF Fresh, IsReady, IsStatus
      <4> QED
        BY <2>1, <4>2, <4>3 DEF Age
    <3> QED
      BY <3>1, <3>2, <3>3, Zenon DEF WorkerInv
  <2> QED
    BY <1>5, <2>2, <2>3, Zenon
<1> QED
  BY <1>5, <1>6, <1>7, <1>8, OneWorker, Zenon

\* A worker whose record and index entry are deleted.
LEMMA DeletedInv ==
  ASSUME Inv, NEW v \in Worker, SameClient(v), v \notin records', status'[v] = None
  PROVE  WorkerInv(v)'
<1>1. WorkerInv(v) /\ None # "READY"
  BY ConstantAssumption, Zenon DEF Inv, Status
<1>2. RequestInv(v)' /\ IndexInv(v)'
  BY <1>1, Zenon DEF WorkerInv, RequestInv, IndexInv, IsStatus, SameClient
<1>3. OrderInv(v)' /\ GoneInv(v)' /\ RetiredInv(v)'
  BY <1>1, Zenon DEF WorkerInv, OrderInv, GoneInv, RetiredInv, IsStatus, IsReady, SameClient, Ended
<1> QED
  BY <1>2, <1>3, Zenon DEF WorkerInv

\* Removing a stale worker keeps the invariant.
LEMMA ReaperRemoveInv ==
  ASSUME Inv, NEW r \in Replica, NEW v \in Worker, ReaperRemove(r, v)
  PROVE  Inv'
<1>1. /\ ApplyRemove(v) /\ RedisType
      /\ plan' \in [Replica -> [Worker -> {"keep", "mark", "remove"}]]
      /\ UNCHANGED <<pc, publisherVars, healthy, ready, rpc, late, marking, goneFor, faults>>
  BY Zenon DEF ReaperRemove, Inv, TypeOK, RedisType
<1>2. /\ RedisType'
      /\ \A w \in Worker : w # v => SameRedis(w)
      /\ v \notin records' /\ status'[v] = None
  BY <1>1, ApplyRemoveEffect, Zenon
<1>3. \A w \in Worker : SameClient(w)
  BY <1>1, Zenon DEF SameClient, publisherVars
<1>4. TypeOK'
  BY <1>1, <1>2, Zenon DEF Inv, TypeOK, RedisType, publisherVars
<1> QED
  BY <1>2, <1>3, <1>4, DeletedInv, OneWorker, Zenon

\* A flush of the store keeps the invariant.
LEMMA FlushInv ==
  ASSUME Inv, Flush
  PROVE  Inv'
<1>1. 0 \in Age /\ faults' \in [Fault -> Nat]
  BY ConstantAssumption, FaultCounted DEF Age, Flush
<1>2. TypeOK'
  BY <1>1, Zenon DEF Flush, Inv, TypeOK, publisherVars, reaperVars
<1>3. \A w \in Worker : SameClient(w) /\ w \notin records' /\ status'[w] = None
  BY Zenon DEF Flush, SameClient, publisherVars
<1> QED
  BY <1>2, <1>3, DeletedInv, Zenon DEF Inv

\* The passing of time keeps the invariant.
LEMMA TickInv ==
  ASSUME Inv, Tick
  PROVE  Inv'
<1>1. TypeOK'
  <2>1. age' \in [Worker -> Age] /\ goneFor' \in [Worker -> Age]
    BY OlderFacts, ConstantAssumption DEF Tick, Inv, TypeOK, Age
  <2>2. rpc' \in [Worker -> Command \cup {None}] /\ late' \in [Worker -> Command \cup {None}]
    <3>1. \A c \in Command \cup {None} : OlderCommand(c) \in Command \cup {None}
      BY OlderCommandFields, Zenon DEF OlderCommand
    <3> QED
      BY <3>1, Zenon DEF Tick, Inv, TypeOK
  <2>3. marking' \in [Replica -> (Worker \X Age) \cup {None}]
    <3>1. \A m \in Worker \X Age : <<m[1], Older(m[2])>> \in Worker \X Age
      BY OlderFacts, Zenon
    <3> QED
      BY <3>1, Zenon DEF Tick, Inv, TypeOK
  <2> QED
    BY <2>1, <2>2, <2>3, Zenon DEF Tick, Inv, TypeOK, publisherVars
<1>2. ASSUME NEW v \in Worker
      PROVE  WorkerInv(v)'
  <2>1. /\ WorkerInv(v) /\ pc' = pc /\ sourceId' = sourceId /\ retired' = retired
        /\ records' = records /\ status' = status /\ index' = index
        /\ rpc'[v] = OlderCommand(rpc[v]) /\ late'[v] = OlderCommand(late[v])
        /\ status[v] # None => age'[v] = Older(age[v])
        /\ goneFor'[v] = IF Ended(v) THEN Older(goneFor[v]) ELSE 0
        /\ rpc[v] # None => rpc[v].age < MaxDelay
        /\ late[v] # None => late[v].age < MaxDelay
    BY <1>2, Zenon DEF Inv, Tick, publisherVars
  <2>2. /\ rpc[v] \in Command \cup {None} /\ late[v] \in Command \cup {None}
        /\ age[v] \in Age /\ goneFor[v] \in Age
        /\ Older(age[v]) \in Age /\ Older(goneFor[v]) \in Age
    BY OlderFacts, Zenon DEF Inv, TypeOK
  <2>3. /\ rpc[v] = None => rpc'[v] = None
        /\ rpc[v] # None => /\ rpc'[v] # None /\ rpc'[v].kind = rpc[v].kind
                            /\ rpc'[v].status = rpc[v].status
                            /\ rpc[v].age \in Age /\ rpc'[v].age = rpc[v].age + 1
    BY <2>1, <2>2, CommandFields, OlderCommandFields, OlderFacts, Zenon DEF OlderCommand
  <2>4. /\ late[v] = None => late'[v] = None
        /\ late[v] # None => /\ late'[v] # None /\ late'[v].kind = late[v].kind
                             /\ late'[v].status = late[v].status /\ late'[v].step = late[v].step
                             /\ late[v].age \in Age /\ late'[v].age = Older(late[v].age)
                             /\ late'[v].age = late[v].age + 1
    BY <2>1, <2>2, CommandFields, OlderCommandFields, OlderFacts DEF OlderCommand
  <2>5. RequestInv(v)' /\ IndexInv(v)'
    BY <2>1, <2>3, <2>4, Zenon DEF WorkerInv, RequestInv, IndexInv, PublishingAt, IsStatus
  <2>6. "READY" # None
    BY ConstantAssumption, Zenon DEF Status
  <2>7. OrderInv(v)'
    <3>1. ASSUME IsReady(late[v])', ~Ended(v)' PROVE late'[v].age > 0
      BY <2>4, <3>1 DEF IsReady, IsStatus, Age
    <3>2. ASSUME IsStatus(rpc[v])', status'[v] = "READY" PROVE age'[v] >= rpc'[v].age
      <4>1. IsStatus(rpc[v]) /\ age[v] >= rpc[v].age /\ age'[v] = Older(age[v])
        BY <2>1, <2>3, <2>6, <3>2, Zenon DEF WorkerInv, OrderInv, IsStatus
      <4>2. Older(rpc[v].age) <= Older(age[v]) /\ Older(rpc[v].age) = rpc'[v].age
        BY <2>1, <2>2, <2>3, <4>1, OlderFacts, Zenon DEF IsStatus, Age
      <4> QED
        BY <2>2, <2>3, <4>1, <4>2, Zenon DEF IsStatus, Age
    <3>3. ASSUME IsStatus(rpc[v])', IsReady(late[v])' PROVE late'[v].age > rpc'[v].age
      <4>1. late[v].age > rpc[v].age
        BY <2>1, <2>3, <2>4, <3>3, Zenon DEF WorkerInv, OrderInv, IsStatus, IsReady
      <4> QED
        BY <2>3, <2>4, <3>3, <4>1 DEF IsStatus, IsReady, Age
    <3> QED
      BY <3>1, <3>2, <3>3, Zenon DEF OrderInv
  <2>8. GoneInv(v)'
    <3>1. CASE ~Ended(v)
      BY <1>1, <2>1, <2>4, <3>1 DEF GoneInv, IsReady, IsStatus, Ended, TypeOK, Age
    <3>2. CASE Ended(v)
      <4>1. ASSUME status[v] = "READY" PROVE Older(goneFor[v]) <= Older(age[v])
        BY <2>1, <2>2, <4>1, OlderFacts, Zenon DEF WorkerInv, GoneInv, Age
      <4>2. ASSUME IsReady(late[v]) PROVE Older(goneFor[v]) <= Older(late[v].age)
        BY <2>1, <2>2, <2>4, <4>2, OlderFacts, Zenon DEF WorkerInv, GoneInv, IsReady, IsStatus, Age
      <4>3. goneFor'[v] = Older(goneFor[v])
        BY <2>1, <3>2, Zenon
      <4>4. status'[v] = "READY" => age'[v] >= goneFor'[v]
        BY <2>1, <2>2, <2>6, <4>1, <4>3, Zenon DEF Age
      <4>5. IsReady(late[v])' => late'[v].age >= goneFor'[v]
        BY <2>2, <2>4, <4>2, <4>3, Zenon DEF IsReady, IsStatus, Age
      <4> QED
        BY <2>1, <3>2, <4>4, <4>5, Zenon DEF GoneInv, Ended
    <3> QED
      BY <3>1, <3>2, Zenon
  <2>9. RetiredInv(v)'
    <3>1. SUFFICES ASSUME v \in retired PROVE RetiredInv(v)'
      BY <2>1, Zenon DEF RetiredInv
    <3>2. Ended(v)' /\ status'[v] # "READY"
      BY <2>1, <3>1, Zenon DEF WorkerInv, RetiredInv, Ended
    <3>3. ASSUME IsReady(late[v])', v \in records'
          PROVE  status'[v] # None /\ age'[v] < late'[v].age
      <4>1. status[v] # None /\ age[v] < late[v].age /\ late[v] # None
        BY <2>1, <2>4, <3>1, <3>3, ZenonT(30) DEF WorkerInv, RetiredInv, IsReady, IsStatus
      <4>2. age[v] < MaxDelay
        BY <2>1, <2>2, <2>4, <4>1, ConstantAssumption DEF Age
      <4>3. age'[v] = age[v] + 1
        BY <2>1, <2>2, <4>1, <4>2, OlderFacts, Zenon
      <4> QED
        BY <2>1, <2>2, <2>4, <4>1, <4>3 DEF Age
    <3> QED
      BY <3>2, <3>3, Zenon DEF RetiredInv
  <2> QED
    BY <2>5, <2>7, <2>8, <2>9, Zenon DEF WorkerInv
<1> QED
  BY <1>1, <1>2, Zenon DEF Inv

-----------------------------------------------------------------------------
(* Theorems                                                                *)

\* Every step keeps the invariant.
LEMMA NextInv == Inv /\ [Next]_vars => Inv'
<1> SUFFICES ASSUME Inv, [Next]_vars PROVE Inv'
  BY Zenon
<1>1. ASSUME NEW w \in Worker,
             Ticking(w) \/ Leaving(w) \/ Answered(w) \/ LateStep(w) \/ Mishap(w)
      PROVE  Inv'
  BY <1>1, TickingInv, LeavingInv, AnsweredInv, LatePublishStepInv, LateStatusInv, MishapInv, Zenon
     DEF LateStep
<1>2. ASSUME NEW r \in Replica, ReaperScan(r) \/ Reaping(r) \/ ReplicaRestarts(r)
      PROVE  Inv'
  BY <1>2, PlanningInv, ReaperMarkInv, ReaperRemoveInv, Zenon DEF Reaping
<1>3. CASE UNCHANGED vars
  <2>1. TypeOK'
    BY <1>3, Zenon DEF vars, redisVars, publisherVars, reaperVars, Inv, TypeOK
  <2>2. \A w \in Worker : SameRedis(w) /\ SameClient(w)
    BY <1>3, SameRedisVars, Zenon DEF vars, publisherVars, SameClient
  <2> QED
    BY <2>1, <2>2, NoWorker, Zenon
<1> QED
  BY <1>1, <1>2, <1>3, FlushInv, TickInv, Zenon DEF Next

\* It is an invariant of registration.
LEMMA Invariance == Spec => []Inv
BY InitInv, NextInv, PTL DEF Spec

\* The types of the registration state, whatever happens to publishers,
\* replicas, requests and the store (redis.rs, publisher.py, reaper.rs).
THEOREM TypeCorrect == Spec => []TypeOK
<1>1. Inv => TypeOK
  BY Zenon DEF Inv
<1> QED
  BY <1>1, Invariance, PTL

\* The record of a registered publisher can be discovered and reaped: it is in
\* the source's index, or a late publication still owes the entry
\* (publish_metadata, UPDATE_STATUS_IF_FRESH_LUA and REMOVE_WORKER_LUA).
THEOREM RegisteredAlwaysIndexed == Spec => []RegisteredIsIndexed
<1>1. Inv => RegisteredIsIndexed
  BY Zenon DEF Inv, TypeOK, WorkerInv, IndexInv, RegisteredIsIndexed
<1> QED
  BY <1>1, Invariance, PTL

\* A heartbeat that its client gave up on never brings back a worker whose
\* final STALE was accepted: the timestamps of UPDATE_STATUS_IF_FRESH_LUA
\* order the two although Redis may see them in the other order.
THEOREM RetiredForever == Spec => []RetiredStaysDown
<1>1. Inv => RetiredStaysDown
  BY Zenon DEF Inv, TypeOK, WorkerInv, RetiredInv, RetiredStaysDown
<1> QED
  BY <1>1, Invariance, PTL

\* ListSources(READY) is right about ended workers up to the heartbeat timeout
\* (ready_source_is_fresh), with no help from the reaper and with late
\* heartbeats still on their way.
THEOREM GoneNeverListed == Spec => []GoneIsNotListed
<1>1. Inv => GoneIsNotListed
  <2> SUFFICES ASSUME Inv, NEW w \in Worker, Ended(w), Listed(w)
               PROVE  goneFor[w] <= HeartbeatTimeout
    BY Zenon DEF GoneIsNotListed
  <2>1. age[w] >= goneFor[w] /\ age[w] <= HeartbeatTimeout
    BY Zenon DEF Inv, WorkerInv, GoneInv, Listed
  <2>2. age[w] \in Age /\ goneFor[w] \in Age
    BY Zenon DEF Inv, TypeOK
  <2> QED
    BY <2>1, <2>2, ConstantAssumption DEF Age
<1> QED
  BY <1>1, Invariance, PTL
-----------------------------------------------------------------------------
(* Workers that are down                                                   *)

\* Every status was stored and every answer has arrived so far.
Calm == \A k \in Fault \cap {"store", "reply", "deadline"} : faults[k] = 0

\* While that is so, a running worker has no late command, and one that said it
\* is down is not READY, whether or not its agent has recovered meanwhile; what
\* it says in between is STALE, and READY is only stored with a record.
DownInv(w) ==
  /\ w \notin records => status[w] # "READY"
  /\ pc[w] = "demote" => rpc[w].kind = "status" /\ rpc[w].status = "STALE"
  /\ Calm /\ ~Ended(w) => late[w] = None /\ (w \in demoted => status[w] # "READY")

\* Faults are only ever counted up.
LEMMA CalmBefore ==
  ASSUME Inv, NEW k, FaultOf(k)
  PROVE  /\ Calm' => Calm
         /\ k \in {"store", "reply", "deadline"} => ~Calm'
<1>1. k \in Fault /\ faults' = [faults EXCEPT ![k] = faults[k] + 1] /\ faults \in [Fault -> Nat]
  BY Zenon DEF FaultOf, Inv, TypeOK
<1>2. faults'[k] # 0 /\ \A j \in Fault : j # k => faults'[j] = faults[j]
  BY <1>1
<1>3. Calm' => k \notin {"store", "reply", "deadline"}
  BY <1>1, <1>2, Zenon DEF Calm
<1> QED
  BY <1>1, <1>2, <1>3, Zenon DEF Calm

\* A worker that a step leaves alone, or whose status it lowers.
LEMMA DownFrame ==
  ASSUME NEW w \in Worker, DownInv(w), Calm' => Calm,
         pc'[w] = pc[w], rpc'[w] = rpc[w], late'[w] = late[w] \/ late'[w] = None,
         w \in demoted' => w \in demoted,
         \/ status'[w] = status[w] /\ (w \in records => w \in records')
         \/ status'[w] # "READY"
  PROVE  DownInv(w)'
BY Zenon DEF DownInv, Ended

\* A step of worker v leaves the others alone.
Others(v) ==
  \A w \in Worker : w # v => /\ pc'[w] = pc[w] /\ rpc'[w] = rpc[w] /\ late'[w] = late[w]
                             /\ w \in demoted' => w \in demoted
                             /\ status'[w] = status[w] /\ (w \in records => w \in records')

\* A step of one worker keeps DownInv when it keeps that worker's.
LEMMA DownOthers ==
  ASSUME \A w \in Worker : DownInv(w), Calm' => Calm, NEW v \in Worker, Others(v), DownInv(v)'
  PROVE  \A w \in Worker : DownInv(w)'
BY DownFrame, Zenon DEF Others

\* A step of v that sends, drops or ends a request and stores nothing.
LEMMA DownUnstored ==
  ASSUME Inv, \A w \in Worker : DownInv(w), Calm' => Calm, NEW v \in Worker,
         UNCHANGED <<records, status, late, demoted>>,
         \E p \in {"idle", "publish", "ready", "demote", "stale", "ended"} :
            /\ pc' = [pc EXCEPT ![v] = p]
            /\ (p = "demote" => rpc'[v].kind = "status" /\ rpc'[v].status = "STALE"),
         \E c : rpc' = [rpc EXCEPT ![v] = c],
         ~Ended(v)
  PROVE  \A w \in Worker : DownInv(w)'
<1>1. PICK p : /\ pc' = [pc EXCEPT ![v] = p]
               /\ (p = "demote" => rpc'[v].kind = "status" /\ rpc'[v].status = "STALE")
  BY Zenon
<1>2. Others(v) /\ pc'[v] = p
  BY <1>1, Zenon DEF Others, Inv, TypeOK
<1>3. DownInv(v)'
  BY <1>1, <1>2, Zenon DEF DownInv, Ended
<1> QED
  BY <1>2, <1>3, DownOthers, Zenon

\* Requests are sent.
LEMMA TickingDown ==
  ASSUME Inv, \A w \in Worker : DownInv(w), NEW v \in Worker, Ticking(v) \/ MarkStale(v)
  PROVE  \A w \in Worker : DownInv(w)'
<1>1. Calm' => Calm
  BY Zenon DEF Calm, Ticking, Publish, Beat, Demote, MarkStale
<1>2. /\ UNCHANGED <<records, status, late, demoted>> /\ ~Ended(v)
      /\ \E c : rpc' = [rpc EXCEPT ![v] = c]
  BY Zenon DEF Ticking, Publish, Beat, Demote, MarkStale, redisVars, publisherVars, Ended
<1>3. "STALE" \in Status
  BY Zenon DEF Status
<1>4. \E p \in {"idle", "publish", "ready", "demote", "stale", "ended"} :
        /\ pc' = [pc EXCEPT ![v] = p]
        /\ (p = "demote" => rpc'[v].kind = "status" /\ rpc'[v].status = "STALE")
  <2>1. CASE Publish(v) \/ Beat(v) \/ MarkStale(v)
    BY <2>1, Zenon DEF Publish, Beat, MarkStale
  <2>2. CASE Demote(v)
    <3>1. rpc'[v] = StatusCommand("STALE") /\ pc' = [pc EXCEPT ![v] = "demote"]
      BY <2>2, Zenon DEF Demote, Inv, TypeOK
    <3> QED
      BY <1>3, <3>1, StatusCommandFields, Zenon
  <2> QED
    BY <2>1, <2>2, Zenon DEF Ticking
<1> QED
  BY <1>1, <1>2, <1>4, DownUnstored, ZenonT(30)

\* A request ends in its sender, with what it stored.
LEMMA StatusAppliedDown ==
  ASSUME Inv, \A w \in Worker : DownInv(w), Calm' => Calm, NEW v \in Worker,
         IsStatus(rpc[v]), ApplyStatus(v, rpc[v].status, rpc[v].age),
         \E p \in {"idle", "ended"} : pc' = [pc EXCEPT ![v] = p],
         \E c : rpc' = [rpc EXCEPT ![v] = c], late' = late,
         \A w \in Worker : w # v /\ w \in demoted' => w \in demoted,
         \/ Calm' => Ended(v)'
         \/ v \notin demoted'
         \/ v \notin records /\ (v \in demoted' => v \in demoted \/ pc[v] = "demote")
         \/ pc[v] = "demote"
  PROVE  \A w \in Worker : DownInv(w)'
<1>1. PICK p \in {"idle", "ended"} : pc' = [pc EXCEPT ![v] = p]
  BY Zenon
<1>2. rpc[v] \in Command /\ rpc[v].status \in Status /\ rpc[v].age \in Age /\ RedisType /\ ~Ended(v)
  BY CommandFields, Zenon DEF Inv, TypeOK, RedisType, IsStatus, WorkerInv, RequestInv, Ended
<1>3. /\ \A w \in Worker : w # v => SameRedis(w)
      /\ \/ SameRedis(v) /\ ~(v \in records /\ Fresh(v, rpc[v].age))
         \/ /\ v \in records' /\ v \in index' /\ status'[v] = rpc[v].status /\ age'[v] = rpc[v].age
            /\ v \in records /\ Fresh(v, rpc[v].age)
  BY <1>2, ApplyStatusEffect, ZenonT(30)
<1>4. Others(v) /\ pc'[v] = p
  BY <1>1, <1>3, Zenon DEF Others, Inv, TypeOK, SameRedis
<1>5. v \notin records' => status'[v] # "READY"
  BY <1>3, Zenon DEF DownInv, SameRedis
<1>6. pc[v] = "demote" => status'[v] # "READY"
  <2>1. SUFFICES ASSUME pc[v] = "demote", status'[v] = "READY" PROVE FALSE
    BY Zenon
  <2>2. rpc[v].status = "STALE"
    BY <2>1, Zenon DEF DownInv
  <2>3. SameRedis(v) /\ ~(v \in records /\ Fresh(v, rpc[v].age))
    BY <1>3, <2>1, <2>2, Zenon
  <2>4. status[v] = "READY" /\ v \in records
    BY <1>5, <2>1, <2>3, Zenon DEF SameRedis
  <2>5. age[v] >= rpc[v].age
    BY <2>4, Zenon DEF Inv, WorkerInv, OrderInv
  <2> QED
    BY <2>3, <2>4, <2>5, Zenon DEF Fresh
<1>7. ASSUME v \notin records
      PROVE  status'[v] # "READY"
  BY <1>3, <1>7, Zenon DEF DownInv, SameRedis
<1>8. ASSUME Calm', ~Ended(v)'
      PROVE  late'[v] = None /\ (v \in demoted' => status'[v] # "READY")
  BY <1>2, <1>6, <1>7, <1>8, Zenon DEF DownInv
<1>9. DownInv(v)'
  BY <1>4, <1>5, <1>8, Zenon DEF DownInv
<1> QED
  BY <1>4, <1>9, DownOthers, Zenon

\* The answers of the server.
LEMMA AnsweredDown ==
  ASSUME Inv, \A w \in Worker : DownInv(w), NEW v \in Worker, Answered(v)
  PROVE  \A w \in Worker : DownInv(w)'
<1>1. Calm' => Calm
  BY Zenon DEF Calm, Answered, PublishStep, BeatAccepted, BeatRejected, DemoteAnswered,
       StaleAnswered, StatusAnswered
<1>2. CASE PublishStep(v)
  <2>0. rpc[v] # None /\ ApplyWrite(v, rpc[v].step) /\ late' = late /\ demoted' = demoted
    BY <1>2, Zenon DEF PublishStep
  <2>1. /\ rpc[v] \in Command /\ rpc[v] # None /\ rpc[v].step \in 1 .. 4 /\ RedisType /\ ~Ended(v)
        /\ ApplyWrite(v, rpc[v].step) /\ late' = late /\ demoted' = demoted
    BY <2>0, CommandFields, ZenonT(40) DEF Inv, TypeOK, RedisType, WorkerInv, RequestInv, Ended
  <2>2. /\ \A w \in Worker : w # v => SameRedis(w)
        /\ status'[v] = status[v] \/ status'[v] = "UNKNOWN"
        /\ v \in records => v \in records'
    BY <2>1, ApplyWriteEffect, ZenonT(30)
  <2>3. /\ \A w \in Worker : w # v => pc'[w] = pc[w] /\ rpc'[w] = rpc[w]
        /\ pc'[v] # "demote"
    <3>1. pc[v] # "demote"
      BY <1>2, Zenon DEF PublishStep, DownInv
    <3>2. /\ \E c : rpc' = [rpc EXCEPT ![v] = c]
          /\ pc' = pc \/ pc' = [pc EXCEPT ![v] = "idle"]
      BY <1>2, Zenon DEF PublishStep
    <3> QED
      BY <3>1, <3>2, Zenon DEF Inv, TypeOK
  <2>4. Others(v)
    BY <2>1, <2>2, <2>3, Zenon DEF Others, SameRedis
  <2>5. DownInv(v)'
    BY <1>1, <2>1, <2>2, <2>3, Zenon DEF DownInv, Ended
  <2> QED
    BY <1>1, <2>4, <2>5, DownOthers, Zenon
<1>3. ASSUME NEW when, StatusAnswered(v, when)
      PROVE  /\ IsStatus(rpc[v]) /\ ApplyStatus(v, rpc[v].status, rpc[v].age) /\ late' = late
             /\ \E c : rpc' = [rpc EXCEPT ![v] = c]
             /\ pc[v] = when
  BY <1>3, Zenon DEF StatusAnswered, IsStatus
<1>4. CASE BeatAccepted(v)
  <2>1. /\ StatusAnswered(v, "ready") /\ pc' = [pc EXCEPT ![v] = "idle"] /\ demoted' = demoted \ {v}
    BY <1>4, Zenon DEF BeatAccepted
  <2> QED
    BY <1>1, <1>3, <2>1, StatusAppliedDown, ZenonT(30)
<1>5. CASE BeatRejected(v)
  <2>1. /\ StatusAnswered(v, "ready") /\ pc' = [pc EXCEPT ![v] = "idle"] /\ demoted' = demoted
        /\ v \notin records
    BY <1>5, Zenon DEF BeatRejected, OnHeartbeatRejected, Accepted
  <2> QED
    BY <1>1, <1>3, <2>1, StatusAppliedDown, ZenonT(30)
<1>6. CASE DemoteAnswered(v)
  <2>1. /\ StatusAnswered(v, "demote") /\ pc' = [pc EXCEPT ![v] = "idle"]
        /\ demoted' = demoted \cup {v}
    BY <1>6, Zenon DEF DemoteAnswered, Demoted
  <2> QED
    BY <1>1, <1>3, <2>1, StatusAppliedDown, ZenonT(30)
<1>7. CASE StaleAnswered(v)
  <2>1. /\ StatusAnswered(v, "stale") /\ pc' = [pc EXCEPT ![v] = "ended"] /\ demoted' = demoted
    BY <1>7, Zenon DEF StaleAnswered
  <2>2. Ended(v)'
    BY <2>1, Zenon DEF Ended, Inv, TypeOK
  <2> QED
    BY <1>1, <1>3, <2>1, <2>2, StatusAppliedDown, ZenonT(30)
<1> QED
  BY <1>2, <1>4, <1>5, <1>6, <1>7, Zenon DEF Answered

\* Late commands, which a running worker has only after a deadline.
LEMMA LateDown ==
  ASSUME Inv, \A w \in Worker : DownInv(w), NEW v \in Worker, LateStep(v)
  PROVE  \A w \in Worker : DownInv(w)'
<1>1. /\ UNCHANGED <<pc, rpc, demoted, faults>> /\ late[v] # None
      /\ \A w \in Worker : w # v => late'[w] = late[w]
  BY Zenon DEF LateStep, LatePublishStep, LateStatus, publisherVars, Inv, TypeOK
<1>2. late[v] \in Command /\ late[v].step \in 1 .. 4 /\ late[v].status \in Status /\ late[v].age \in Age
      /\ RedisType
  BY <1>1, CommandFields, Zenon DEF Inv, TypeOK, RedisType
<1>3. /\ \A w \in Worker : w # v => SameRedis(w)
      /\ v \notin records' => status'[v] # "READY"
  <2>1. CASE LatePublishStep(v)
    <3>1. ApplyWrite(v, late[v].step)
      BY <2>1, Zenon DEF LatePublishStep
    <3>2. /\ \A w \in Worker : w # v => SameRedis(w)
          /\ status'[v] = status[v] \/ status'[v] = "UNKNOWN"
          /\ v \in records => v \in records'
      BY <1>2, <3>1, ApplyWriteEffect, ZenonT(30)
    <3> QED
      BY <3>2, Zenon DEF DownInv
  <2>2. CASE LateStatus(v)
    <3>1. ApplyStatus(v, late[v].status, late[v].age)
      BY <2>2, Zenon DEF LateStatus
    <3>2. /\ \A w \in Worker : w # v => SameRedis(w)
          /\ SameRedis(v) \/ v \in records'
      BY <1>2, <3>1, ApplyStatusEffect, Zenon
    <3> QED
      BY <3>2, Zenon DEF DownInv, SameRedis
  <2> QED
    BY <2>1, <2>2, Zenon DEF LateStep
<1>4. Calm' <=> Calm
  BY <1>1, Zenon DEF Calm
<1>5. Others(v)
  BY <1>1, <1>3, Zenon DEF Others, SameRedis
<1>6. DownInv(v)'
  BY <1>1, <1>3, <1>4, Zenon DEF DownInv, Ended
<1> QED
  BY <1>4, <1>5, <1>6, DownOthers, Zenon

\* Its sender gives up on a request: because it ends, or because of a deadline.
LEMMA AbandonedDown ==
  ASSUME Inv, \A w \in Worker : DownInv(w), Calm' => Calm, NEW v \in Worker,
         UNCHANGED <<records, status, demoted>>,
         \E p : pc' = [pc EXCEPT ![v] = p] /\ p # "demote",
         \E c : rpc' = [rpc EXCEPT ![v] = c],
         late' = late \/ \E c : late' = [late EXCEPT ![v] = c],
         Ended(v)' \/ ~Calm'
  PROVE  \A w \in Worker : DownInv(w)'
<1>1. Others(v) /\ pc'[v] # "demote"
  BY ZenonT(40) DEF Others, Inv, TypeOK
<1>2. DownInv(v)'
  BY <1>1, Zenon DEF DownInv
<1> QED
  BY <1>1, <1>2, DownOthers, Zenon

\* Mishaps and departures.
LEMMA MishapDown ==
  ASSUME Inv, \A w \in Worker : DownInv(w), NEW v \in Worker, Mishap(v) \/ LeaveSilently(v)
  PROVE  \A w \in Worker : DownInv(w)'
<1>1. ASSUME NEW k, FaultOf(k) \/ UNCHANGED faults
      PROVE  Calm' => Calm
  BY <1>1, CalmBefore, Zenon DEF Calm
<1>2. CASE RequestStop(v) \/ GiveUp(v) \/ HealthChanges(v) \/ ReadinessChanges(v)
  <2>1. \E k : FaultOf(k) \/ UNCHANGED faults
    BY <1>2, Zenon DEF RequestStop, GiveUp, HealthChanges, ReadinessChanges
  <2>2. UNCHANGED <<records, status, late, demoted, pc, rpc>>
    BY <1>2, Zenon DEF RequestStop, GiveUp, HealthChanges, ReadinessChanges, redisVars, publisherVars
  <2> QED
    BY <1>1, <2>1, <2>2, DownFrame, Zenon
<1>3. ASSUME rpc[v] # None PROVE ~Ended(v)
  BY <1>3, Zenon DEF Inv, WorkerInv, RequestInv, Ended
<1>4. CASE RequestFails(v) \/ BeatNotStored(v) \/ StaleNotStored(v)
  <2>1. \E k : FaultOf(k)
    BY <1>4, Zenon DEF RequestFails, BeatNotStored, StaleNotStored, StoreFails
  <2>2. /\ UNCHANGED <<records, status, late, demoted>> /\ rpc[v] # None
        /\ rpc' = [rpc EXCEPT ![v] = None]
    BY <1>4, Zenon DEF RequestFails, BeatNotStored, StaleNotStored, StoreFails, Raises,
         OnHeartbeatRejected, redisVars
  <2>3. \E p \in {"idle", "ended"} : pc' = [pc EXCEPT ![v] = p]
    BY <1>4, Zenon DEF RequestFails, BeatNotStored, StaleNotStored, StoreFails, Raises,
         OnHeartbeatRejected
  <2>4. \E p \in {"idle", "publish", "ready", "demote", "stale", "ended"} :
          /\ pc' = [pc EXCEPT ![v] = p]
          /\ (p = "demote" => rpc'[v].kind = "status" /\ rpc'[v].status = "STALE")
    <3>1. "idle" # "demote" /\ "ended" # "demote"
      BY Zenon
    <3> QED
      BY <2>3, <3>1, Zenon
  <2> QED
    BY <1>1, <1>3, <2>1, <2>2, <2>4, DownUnstored, ZenonT(30)
<1>5. CASE ReplyLost(v)
  <2>1. FaultOf("reply") /\ IsStatus(rpc[v]) /\ ApplyStatus(v, rpc[v].status, rpc[v].age)
        /\ rpc' = [rpc EXCEPT ![v] = None] /\ late' = late /\ demoted' = demoted
    BY <1>5, Zenon DEF ReplyLost, Raises, IsStatus
  <2>2. \E p \in {"idle", "ended"} : pc' = [pc EXCEPT ![v] = p]
    BY <1>5, Zenon DEF ReplyLost, Raises
  <2>3. ~Calm' /\ (Calm' => Calm)
    BY <2>1, CalmBefore, Zenon
  <2> QED
    BY <2>1, <2>2, <2>3, StatusAppliedDown, ZenonT(30)
<1>6. CASE DemoteNotStored(v)
  <2>1. /\ FaultOf("store") /\ UNCHANGED <<records, status, late>>
        /\ demoted' = demoted \cup {v}
        /\ rpc' = [rpc EXCEPT ![v] = None] /\ pc' = [pc EXCEPT ![v] = "idle"]
    BY <1>6, Zenon DEF DemoteNotStored, StoreFails, Demoted, redisVars
  <2>2. ~Calm' /\ (Calm' => Calm)
    BY <2>1, CalmBefore, Zenon
  <2>3. Others(v) /\ pc'[v] = "idle"
    BY <2>1, Zenon DEF Others, Inv, TypeOK
  <2>4. DownInv(v)'
    BY <2>1, <2>2, <2>3, Zenon DEF DownInv
  <2> QED
    BY <2>2, <2>3, <2>4, DownOthers, Zenon
<1>7. ASSUME Abandon(v)
      PROVE  /\ \E c : rpc' = [rpc EXCEPT ![v] = c]
             /\ late' = late \/ \E c : late' = [late EXCEPT ![v] = c]
  BY <1>7, Zenon DEF Abandon
<1>8. CASE Crash(v) \/ LeaveSilently(v)
  <2>1. /\ Abandon(v) /\ UNCHANGED <<records, status, demoted>>
        /\ pc' = [pc EXCEPT ![v] = "ended"]
    BY <1>8, Zenon DEF Crash, LeaveSilently, redisVars, publisherVars
  <2>2. Ended(v)'
    BY <2>1, Zenon DEF Ended, Inv, TypeOK
  <2>3. \E k : FaultOf(k) \/ UNCHANGED faults
    BY <1>8, Zenon DEF Crash, LeaveSilently
  <2>4. \E p : pc' = [pc EXCEPT ![v] = p] /\ p # "demote"
    <3>1. "ended" # "demote"
      BY Zenon
    <3> QED
      BY <2>1, <3>1, Zenon
  <2> QED
    BY <1>1, <1>7, <2>1, <2>2, <2>3, <2>4, AbandonedDown, ZenonT(30)
<1>9. CASE Deadline(v)
  <2>1. /\ Abandon(v) /\ UNCHANGED <<records, status, demoted>> /\ FaultOf("deadline")
        /\ \E p \in {"idle", "ended"} : pc' = [pc EXCEPT ![v] = p]
    BY <1>9, Zenon DEF Deadline, Raises, redisVars
  <2>2. ~Calm' /\ (Calm' => Calm)
    BY <2>1, CalmBefore, Zenon
  <2>3. \E p : pc' = [pc EXCEPT ![v] = p] /\ p # "demote"
    <3>1. "idle" # "demote" /\ "ended" # "demote"
      BY Zenon
    <3> QED
      BY <2>1, <3>1, Zenon
  <2> QED
    BY <1>7, <2>1, <2>2, <2>3, AbandonedDown, ZenonT(30)
<1>10. CASE PublishRetried(v)
  <2>1. /\ UNCHANGED <<records, status, demoted, pc>> /\ FaultOf("deadline")
        /\ rpc[v] # None /\ rpc[v].kind = "publish"
        /\ rpc' = [rpc EXCEPT ![v] = PublishCommand] /\ late' = [late EXCEPT ![v] = rpc[v]]
    BY <1>10, Zenon DEF PublishRetried, redisVars, publisherVars
  <2>2. ~Calm' /\ (Calm' => Calm)
    BY <2>1, CalmBefore, Zenon
  <2>3. Others(v)
    BY <2>1, Zenon DEF Others, Inv, TypeOK
  <2>4. pc[v] # "demote"
    BY <2>1, Zenon DEF DownInv
  <2>5. DownInv(v)'
    BY <2>1, <2>2, <2>4, Zenon DEF DownInv
  <2> QED
    BY <2>2, <2>3, <2>5, DownOthers, Zenon
<1> QED
  BY <1>2, <1>4, <1>5, <1>6, <1>8, <1>9, <1>10, Zenon DEF Mishap

\* The reaper, the store and time.
LEMMA EnvironmentDown ==
  ASSUME Inv, \A w \in Worker : DownInv(w),
         \/ \E r \in Replica : ReaperScan(r) \/ Reaping(r) \/ ReplicaRestarts(r)
         \/ Flush \/ Tick \/ UNCHANGED vars
  PROVE  \A w \in Worker : DownInv(w)'
<1>1. ASSUME NEW k, FaultOf(k) \/ UNCHANGED faults
      PROVE  Calm' => Calm
  BY <1>1, CalmBefore, Zenon DEF Calm
<1>2. CASE \E r \in Replica : ReaperScan(r) \/ ReplicaRestarts(r) \/ \E w \in Worker : ReaperStamp(r, w)
  <2>1. \E k : FaultOf(k) \/ UNCHANGED faults
    BY <1>2, Zenon DEF ReaperScan, ReplicaRestarts, ReaperStamp
  <2>2. UNCHANGED <<records, status, late, demoted, pc, rpc>>
    BY <1>2, Zenon DEF ReaperScan, ReplicaRestarts, ReaperStamp, redisVars, publisherVars
  <2> QED
    BY <1>1, <2>1, <2>2, DownFrame, Zenon
<1>3. ASSUME NEW r \in Replica, ReaperMark(r)
      PROVE  \A w \in Worker : DownInv(w)'
  <2>1. marking[r] \in Worker \X Age
    BY <1>3, Zenon DEF ReaperMark, Inv, TypeOK
  <2>2. PICK v \in Worker, a \in Age : marking[r] = <<v, a>>
    BY <2>1, SMTT(30)
  <2>3. ApplyStatus(v, "STALE", a) /\ UNCHANGED <<pc, rpc, late, demoted, faults>>
    BY <1>3, <2>2 DEF ReaperMark, publisherVars
  <2>4. "STALE" \in Status /\ RedisType
    BY Zenon DEF Inv, TypeOK, RedisType, Status
  <2>5. \A w \in Worker : \/ status'[w] = status[w] /\ (w \in records => w \in records')
                          \/ status'[w] # "READY"
    <3>1. /\ \A w \in Worker : w # v => SameRedis(w)
          /\ SameRedis(v) \/ status'[v] = "STALE"
      BY <2>3, <2>4, ApplyStatusEffect, Zenon
    <3> QED
      BY <3>1, Zenon DEF SameRedis
  <2> QED
    BY <1>1, <2>3, <2>5, DownFrame, Zenon
<1>4. ASSUME NEW r \in Replica, NEW v \in Worker, ReaperRemove(r, v)
      PROVE  \A w \in Worker : DownInv(w)'
  <2>1. ApplyRemove(v) /\ RedisType /\ UNCHANGED <<pc, rpc, late, demoted, faults>>
    BY <1>4, Zenon DEF ReaperRemove, publisherVars, Inv, TypeOK, RedisType
  <2>2. (\A w \in Worker : w # v => SameRedis(w)) /\ status'[v] = None
    BY <2>1, ApplyRemoveEffect, Zenon
  <2>3. \A w \in Worker : \/ status'[w] = status[w] /\ (w \in records => w \in records')
                          \/ status'[w] # "READY"
    BY <2>2, ConstantAssumption, Zenon DEF SameRedis, Status
  <2> QED
    BY <1>1, <2>1, <2>3, DownFrame, Zenon
<1>5. CASE Flush
  <2>1. /\ \A w \in Worker : status'[w] # "READY"
        /\ UNCHANGED <<pc, rpc, late, demoted>> /\ FaultOf("flush")
    BY <1>5, ConstantAssumption, Zenon DEF Flush, publisherVars, Status
  <2> QED
    BY <1>1, <2>1, DownFrame, Zenon
<1>6. CASE Tick
  <2>1. UNCHANGED <<records, status, pc, demoted, faults>>
    BY <1>6, Zenon DEF Tick, publisherVars
  <2>2. \A w \in Worker : rpc'[w] = OlderCommand(rpc[w]) /\ late'[w] = OlderCommand(late[w])
    BY <1>6, Zenon DEF Tick
  <2>3. ASSUME NEW w \in Worker
        PROVE  DownInv(w)'
    <3>1. late[w] = None => late'[w] = None
      BY <2>2, Zenon DEF OlderCommand
    <3>2. pc[w] = "demote" => rpc[w] \in Command /\ rpc'[w].kind = rpc[w].kind /\ rpc'[w].status = rpc[w].status
      <4>1. pc[w] = "demote" => rpc[w] \in Command
        BY Zenon DEF Inv, TypeOK, WorkerInv, RequestInv
      <4> QED
        BY <2>2, <4>1, OlderCommandFields, Zenon
    <3>3. Calm' => Calm
      BY <1>1, <2>1, Zenon
    <3> QED
      BY <2>1, <3>1, <3>2, <3>3, Zenon DEF DownInv, Ended
  <2> QED
    BY <2>3, Zenon
<1>7. CASE UNCHANGED vars
  <2>1. UNCHANGED <<records, status, late, demoted, pc, rpc, faults>>
    BY <1>7, Zenon DEF vars, redisVars, publisherVars
  <2> QED
    BY <1>1, <2>1, DownFrame, Zenon
<1> QED
  BY <1>2, <1>3, <1>4, <1>5, <1>6, <1>7, Zenon DEF Reaping

\* As long as every status a worker sends is stored and every answer arrives, a
\* worker that has demoted itself and whose agent is still down is not READY,
\* through rejected heartbeats, reaper passes, an emptied store and a repeated
\* registration (publisher.py, _tick and _mark_unhealthy).
THEOREM DownUntilRecovered == Spec => []DownWhileAnswered
<1> DEFINE DInv == \A w \in Worker : DownInv(w)
<1>1. Init => DInv
  <2>1. None # "READY" /\ "idle" # "demote"
    BY ConstantAssumption, Zenon DEF Status
  <2> QED
    BY <2>1, ZenonT(40) DEF Init, DownInv
<1>2. Inv /\ DInv /\ [Next]_vars => DInv'
  BY TickingDown, AnsweredDown, LateDown, MishapDown, EnvironmentDown, ZenonT(60) DEF Next, Leaving
<1>3. Inv /\ DInv => DownWhileAnswered
  BY Zenon DEF DownWhileAnswered, DownIsNotReady, DownInv, Calm, Ended, Inv, TypeOK
<1> HIDE DEF DInv
<1> QED
  BY <1>1, <1>2, <1>3, Invariance, PTL DEF Spec

=============================================================================
