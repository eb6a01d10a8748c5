--------------------------- MODULE DownloadRegistry ---------------------------
(***************************************************************************)
(* Downloading one model entry through several server replicas that share  *)
(* a Redis registry.                                                       *)
(*                                                                         *)
(* record is the entry's Redis hash; the scripts of registry/backend/      *)
(* redis.rs act on it atomically.  A request is one EnsureModelDownloaded  *)
(* stream: it runs the claim loop and the poll loop of                     *)
(* ModelDownloadTracker::ensure_model_downloaded on its replica, one       *)
(* registry call or cache check per step.  A claim that is won starts a    *)
(* download task (spawn_download_task).  Replicas may share a cache volume *)
(* or have one each, and each replica may run the cache eviction service.  *)
(*                                                                         *)
(* Everything the environment does to the system (a crash, a registry call *)
(* that fails or whose reply is lost, a heartbeat that comes too late, an  *)
(* explicit deletion, files lost, an eviction and its failures) is taken   *)
(* from a budget.                                                          *)
(***************************************************************************)
EXTENDS Naturals, FiniteSets

CONSTANTS
  Replica, Request, Cache,
  Home,      \* the replica that serves a request
  CacheOf,   \* the cache volume a replica mounts
  Fault,     \* the kinds of faults of this instance
  MaxFaults, \* bound: how many of them happen
  MaxClaims, \* bound: claim ids a request may use
  None

Claim == Request \X (1 .. MaxClaims)
Status == {"DOWNLOADING", "DOWNLOADED", "ERROR"}
Record == [status: Status, claim: Claim \cup {None}, lapsed: BOOLEAN]
FaultCount == [Fault -> Nat]

ASSUME ConstantAssumption ==
  /\ None \notin Record \cup Claim \cup Status \cup Replica
  /\ Home \in [Request -> Replica]
  /\ CacheOf \in [Replica -> Cache]
  /\ MaxFaults \in Nat /\ MaxClaims \in Nat
  /\ Fault \subseteq {"crash", "error", "reply", "late", "delete", "files", "evict",
                "disk"}

VARIABLES
  record,    \* the entry's hash, or None
  pc,        \* where each request is in ensure_model_downloaded
  attempt,   \* claim attempts of its first loop
  seq,       \* its current claim id is <<q, seq[q]>>
  told,      \* terminal statuses its stream has carried
  waiting,   \* waiting_channels of each replica
  task,      \* the download task started under each claim
  files,     \* the caches that hold every file of the entry's manifest
  held,      \* history: the caches that ever held them
  publisher, \* history: the replica whose download was published last
  evictor,   \* the eviction cycle of each replica
  faults     \* how many faults of each kind there have been

requestVars == <<pc, attempt, seq, told>>
cacheVars == <<files, held, evictor>>
vars == <<record, requestVars, waiting, task, cacheVars, publisher, faults>>

\* MAX_CLAIM_ATTEMPTS
MaxClaimAttempts == 2

MyClaim(q) == <<q, seq[q]>>
ReplicaOf(c) == Home[c[1]]
CacheAt(q) == CacheOf[Home[q]]

CanFail(kind) ==
  /\ kind \in Fault
  /\ Cardinality({f \in Fault \X (1 .. MaxFaults) : f[2] <= faults[f[1]]}) < MaxFaults
Fail(kind) == CanFail(kind) /\ faults' = [faults EXCEPT ![kind] = faults[kind] + 1]

-----------------------------------------------------------------------------
(* The registry scripts                                                    *)

\* MUTANT of Claimable: a claim does not look at the lease.
ClaimableAnyway == record # None => record.status = "DOWNLOADING"

\* MUTANT of Claimable: an expired lease is not taken over.
ClaimableFresh == record = None

\* CLAIM_LUA: the entry is absent or its download lease has expired.
Claimable == record # None => record.status = "DOWNLOADING" /\ record.lapsed

Claimed(c) == [status |-> "DOWNLOADING", claim |-> c, lapsed |-> FALSE]

\* MUTANT of Owns: a completion is not checked against the owner.
OwnsAny(c) == record # None /\ record.status = "DOWNLOADING"

\* REFRESH_CLAIM_LUA and FINISH_CLAIM_LUA: c owns the download.
Owns(c) == record # None /\ record.status = "DOWNLOADING" /\ record.claim = c

Finished(s) == [status |-> s, claim |-> None, lapsed |-> FALSE]

-----------------------------------------------------------------------------
(* ensure_model_downloaded                                                 *)

Answer(q, s) ==
  /\ pc' = [pc EXCEPT ![q] = "done"]
  /\ told' = [told EXCEPT ![q] = @ \cup {s}]

\* add_waiting_channel
Subscribe(q) == waiting' = [waiting EXCEPT ![Home[q]] = @ \cup {q}]

\* The record is q's.
TakeOwnership(q) ==
  /\ seq[q] <= MaxClaims
  /\ record' = Claimed(MyClaim(q))

\* The download task starts under q's claim id, and q takes a new one.
StartTask(q) ==
  /\ task' = [task EXCEPT ![MyClaim(q)] = "fetching"]
  /\ seq' = [seq EXCEPT ![q] = @ + 1]

\* The claim loop: claimed or taken over.
FirstClaimWon(q) ==
  /\ pc[q] = "claim"
  /\ Claimable
  /\ TakeOwnership(q)
  /\ pc' = [pc EXCEPT ![q] = "won"]
  /\ UNCHANGED <<attempt, seq, told, waiting, task, cacheVars, publisher, faults>>

\* Where an AlreadyExists answer leads.
Observed(s) ==
  [DOWNLOADING |-> "observed", DOWNLOADED |-> "check", ERROR |-> "retry"][s]

\* The claim loop: AlreadyExists.
FirstClaimObserved(q) ==
  /\ pc[q] = "claim"
  /\ ~Claimable
  /\ pc' = [pc EXCEPT ![q] = Observed(record.status)]
  /\ UNCHANGED <<record, attempt, seq, told, waiting, task, cacheVars, publisher, faults>>

\* Every caller becomes a waiter; only an owner starts the download.
EnterWaitLoop(q) ==
  /\ pc[q] \in {"won", "observed"}
  /\ pc' = [pc EXCEPT ![q] = "waiting"]
  /\ Subscribe(q)
  /\ \/ pc[q] = "won" /\ StartTask(q)
     \/ pc[q] = "observed" /\ UNCHANGED <<task, seq>>
  /\ UNCHANGED <<record, attempt, told, cacheVars, publisher, faults>>

\* MUTANT of FilesPresent: the registry is trusted about this replica's cache.
FilesTrusted(q) == TRUE

\* recorded_files_present: the replica's cache satisfies the entry's manifest.
FilesPresent(q) == CacheAt(q) \in files

\* The claim loop: DOWNLOADED, and the files are here, or are not and the record
\* has to be cleared, or are still not after it was.
FirstCheck(q) ==
  /\ pc[q] = "check"
  /\ IF FilesPresent(q) THEN Answer(q, "DOWNLOADED")
     ELSE IF attempt[q] >= MaxClaimAttempts THEN Answer(q, "ERROR")
     ELSE pc' = [pc EXCEPT ![q] = "clear"] /\ UNCHANGED told
  /\ UNCHANGED <<record, attempt, seq, waiting, task, cacheVars, publisher, faults>>

\* clear_stale_record: delete_status removes whatever record there is by now and
\* forgets the replica's waiting channels.
Clear(q) ==
  /\ record' = None
  /\ waiting' = [waiting EXCEPT ![Home[q]] = {}]

FirstClear(q) ==
  /\ pc[q] = "clear"
  /\ Clear(q)
  /\ attempt' = [attempt EXCEPT ![q] = @ + 1]
  /\ pc' = [pc EXCEPT ![q] = "claim"]
  /\ UNCHANGED <<seq, told, task, cacheVars, publisher, faults>>

\* The registry delete fails, or only its reply is lost; the waiting channels are
\* forgotten all the same.
ClearFails(q) ==
  /\ Fail("error")
  /\ record' \in {record, None}
  /\ waiting' = [waiting EXCEPT ![Home[q]] = {}]

FirstClearFails(q) ==
  /\ pc[q] = "clear"
  /\ ClearFails(q)
  /\ attempt' = [attempt EXCEPT ![q] = @ + 1]
  /\ pc' = [pc EXCEPT ![q] = "claim"]
  /\ UNCHANGED <<seq, told, task, cacheVars, publisher>>

\* RETRY_CAS_LUA: the entry is still ERROR.
RetryWins == record # None /\ record.status = "ERROR"

\* try_reset_error_for_retry: the winner downloads, the others wait.
Retry(q) ==
  /\ pc[q] = "retry"
  /\ \/ /\ RetryWins
        /\ TakeOwnership(q)
        /\ pc' = [pc EXCEPT ![q] = "won"]
     \/ /\ ~RetryWins
        /\ UNCHANGED record
        /\ pc' = [pc EXCEPT ![q] = "observed"]
  /\ UNCHANGED <<attempt, seq, told, waiting, task, cacheVars, publisher, faults>>

\* The poll loop: a claim won is driven like the first one.
PollWon(q) ==
  /\ pc[q] = "waiting"
  /\ Claimable
  /\ TakeOwnership(q)
  /\ StartTask(q)
  /\ UNCHANGED <<pc, attempt, told, waiting, cacheVars, publisher, faults>>

\* The poll loop: a terminal status.
PollObserved(q) ==
  /\ pc[q] = "waiting"
  /\ record # None
  /\ \/ /\ record.status = "DOWNLOADED"
        /\ pc' = [pc EXCEPT ![q] = "recheck"]
        /\ UNCHANGED told
     \/ record.status = "ERROR" /\ Answer(q, "ERROR")
  /\ UNCHANGED <<record, attempt, seq, waiting, task, cacheVars, publisher, faults>>

Recheck(q) ==
  /\ pc[q] = "recheck"
  /\ IF FilesPresent(q) THEN Answer(q, "DOWNLOADED")
                        ELSE pc' = [pc EXCEPT ![q] = "reclear"] /\ UNCHANGED told
  /\ UNCHANGED <<record, attempt, seq, waiting, task, cacheVars, publisher, faults>>

Reclear(q) ==
  /\ pc[q] = "reclear"
  /\ Clear(q)
  /\ pc' = [pc EXCEPT ![q] = "waiting"]
  /\ UNCHANGED <<attempt, seq, told, task, cacheVars, publisher, faults>>

\* The delete fails, and report_missing_files ends the request.
ReclearFails(q) ==
  /\ pc[q] = "reclear"
  /\ ClearFails(q)
  /\ Answer(q, "ERROR")
  /\ UNCHANGED <<attempt, seq, task, cacheVars, publisher>>

\* A claim or a reset that fails, or takes effect and only its reply is lost.  A
\* request in its poll loop keeps polling under the same id, an earlier one
\* answers ERROR; neither starts the download.
CallFails(q) ==
  /\ pc[q] \in {"claim", "retry", "waiting"}
  /\ Fail("reply")
  /\ \/ UNCHANGED record
     \/ /\ IF pc[q] = "retry" THEN RetryWins ELSE Claimable
        /\ TakeOwnership(q)
  /\ IF pc[q] = "waiting" THEN UNCHANGED <<pc, told>> ELSE Answer(q, "ERROR")
  /\ UNCHANGED <<attempt, seq, waiting, task, cacheVars, publisher>>

-----------------------------------------------------------------------------
(* spawn_download_task                                                     *)

\* The provider returns; on success the files and their manifest are in the
\* replica's cache (record_download).
Fetch(c) ==
  /\ task[c] = "fetching"
  /\ \/ /\ task' = [task EXCEPT ![c] = "fetched"]
        /\ files' = files \cup {CacheOf[ReplicaOf(c)]}
        /\ held' = held \cup {CacheOf[ReplicaOf(c)]}
     \/ /\ task' = [task EXCEPT ![c] = "failed"]
        /\ UNCHANGED <<files, held>>
  /\ UNCHANGED <<record, requestVars, waiting, evictor, publisher, faults>>

\* refresh_download_claim: the lease is renewed, or the download stops because
\* its claim no longer owns the entry.
Heartbeat(c) ==
  /\ task[c] = "fetching"
  /\ \/ /\ Owns(c) /\ record.lapsed
        /\ record' = Claimed(c)
        /\ UNCHANGED task
     \/ /\ ~Owns(c)
        /\ task' = [task EXCEPT ![c] = "ended"]
        /\ UNCHANGED record
  /\ UNCHANGED <<requestVars, waiting, cacheVars, publisher, faults>>

\* MUTANT of Outcome: the task's own state is written instead of a status.
OutcomeOfTask(c) == task[c]

\* The status a download ends with.
Outcome(c) == IF task[c] = "fetched" THEN "DOWNLOADED" ELSE "ERROR"

\* notify_waiters: every channel of the replica gets the terminal status, and
\* the replica forgets them.
Notify(r, s) ==
  /\ told' = [q \in Request |-> IF q \in waiting[r] THEN told[q] \cup {s} ELSE told[q]]
  /\ waiting' = [waiting EXCEPT ![r] = {}]

\* finish_download_claim: published and notified, or fenced off.
Finish(c) ==
  /\ task[c] \in {"fetched", "failed"}
  /\ task' = [task EXCEPT ![c] = "ended"]
  /\ \/ /\ Owns(c)
        /\ record' = Finished(Outcome(c))
        /\ publisher' = ReplicaOf(c)
        /\ Notify(ReplicaOf(c), Outcome(c))
     \/ /\ ~Owns(c)
        /\ UNCHANGED <<record, publisher, told, waiting>>
  /\ UNCHANGED <<pc, attempt, seq, cacheVars, faults>>

\* The call fails, with or without effect: nobody is notified and the task ends.
FinishFails(c) ==
  /\ task[c] \in {"fetched", "failed"}
  /\ Fail("error")
  /\ task' = [task EXCEPT ![c] = "ended"]
  /\ \/ /\ Owns(c)
        /\ record' = Finished(Outcome(c))
        /\ publisher' = ReplicaOf(c)
     \/ UNCHANGED <<record, publisher>>
  /\ UNCHANGED <<requestVars, waiting, cacheVars>>

-----------------------------------------------------------------------------
(* Time, crashes and operators                                             *)

\* Somebody is there to renew or to finish the current claim.
Working ==
  \/ \E c \in Claim : Owns(c) /\ task[c] \in {"fetching", "fetched", "failed"}
  \/ \E q \in Request : Owns(MyClaim(q)) /\ pc[q] = "won"

\* The lease runs out because nobody renews it.
Lapse ==
  /\ record # None /\ record.status = "DOWNLOADING" /\ ~record.lapsed
  /\ ~Working
  /\ record' = [record EXCEPT !.lapsed = TRUE]
  /\ UNCHANGED <<requestVars, waiting, task, cacheVars, publisher, faults>>

\* The lease runs out under a task that is alive but late.
LapseEarly ==
  /\ record # None /\ record.status = "DOWNLOADING" /\ ~record.lapsed
  /\ Working
  /\ Fail("late")
  /\ record' = [record EXCEPT !.lapsed = TRUE]
  /\ UNCHANGED <<requestVars, waiting, task, cacheVars, publisher>>

\* A replica stops: its requests, downloads and eviction cycle are gone.
Crash(r) ==
  /\ Fail("crash")
  /\ pc' = [q \in Request |-> IF Home[q] = r /\ pc[q] # "idle" THEN "done" ELSE pc[q]]
  /\ task' = [c \in Claim |-> IF ReplicaOf(c) = r /\ task[c] # "none" THEN "ended" ELSE task[c]]
  /\ waiting' = [waiting EXCEPT ![r] = {}]
  /\ evictor' = [evictor EXCEPT ![r] = "idle"]
  /\ UNCHANGED <<record, attempt, seq, told, files, held, publisher>>

\* DeleteModel, handled by replica r.  The registry delete may fail; the replica's
\* waiting channels are forgotten all the same.
DeleteModel(r) ==
  /\ Fail("delete")
  /\ record' \in {None, record}
  /\ waiting' = [waiting EXCEPT ![r] = {}]
  /\ UNCHANGED <<requestVars, task, cacheVars, publisher>>

\* Files disappear behind the server's back (a client's `model clear`).
LoseFiles(k) ==
  /\ k \in files
  /\ Fail("files")
  /\ files' = files \ {k}
  /\ UNCHANGED <<record, requestVars, waiting, task, held, evictor, publisher>>

-----------------------------------------------------------------------------
(* CacheEvictionService of a replica, for this entry                       *)

\* run_eviction_cycle lists the records and selects this DOWNLOADED one.
EvictSelect(r) ==
  /\ evictor[r] = "idle"
  /\ record # None /\ record.status = "DOWNLOADED"
  /\ Fail("evict")
  /\ evictor' = [evictor EXCEPT ![r] = "selected"]
  /\ UNCHANGED <<record, requestVars, waiting, task, files, held, publisher>>

\* evict_model looks the record up again, whatever its status; without one there
\* is nothing to do.
EvictLookup(r) ==
  /\ evictor[r] = "selected"
  /\ evictor' = [evictor EXCEPT ![r] = IF record = None THEN "idle" ELSE "found"]
  /\ UNCHANGED <<record, requestVars, waiting, task, files, held, publisher, faults>>

\* The files and the manifest are removed.
EvictFiles(r) ==
  /\ evictor[r] = "found"
  /\ files' = files \ {CacheOf[r]}
  /\ evictor' = [evictor EXCEPT ![r] = "deleted"]
  /\ UNCHANGED <<record, requestVars, waiting, task, held, publisher, faults>>

\* MUTANT of EvictRecord: the record is not removed with its files.
EvictRecordForgotten(r) ==
  /\ evictor[r] = "deleted"
  /\ evictor' = [evictor EXCEPT ![r] = "idle"]
  /\ UNCHANGED <<record, requestVars, waiting, task, files, held, publisher, faults>>

\* Only then the registry record goes.
EvictRecord(r) ==
  /\ evictor[r] = "deleted"
  /\ record' = None
  /\ evictor' = [evictor EXCEPT ![r] = "idle"]
  /\ UNCHANGED <<requestVars, waiting, task, files, held, publisher, faults>>

\* The lookup fails, the removal of the files fails half way, or the one of the
\* record fails: the record stays for the next cycle.
EvictFails(r) ==
  /\ Fail("disk")
  /\ \/ evictor[r] = "found" /\ files' \in {files, files \ {CacheOf[r]}}
     \/ evictor[r] \in {"selected", "deleted"} /\ UNCHANGED files
  /\ evictor' = [evictor EXCEPT ![r] = "idle"]
  /\ UNCHANGED <<record, requestVars, waiting, task, held, publisher>>

-----------------------------------------------------------------------------
Init ==
  /\ record = None
  /\ pc = [q \in Request |-> "idle"]
  /\ attempt = [q \in Request |-> 1]
  /\ seq = [q \in Request |-> 1]
  /\ told = [q \in Request |-> {}]
  /\ waiting = [r \in Replica |-> {}]
  /\ task = [c \in Claim |-> "none"]
  /\ files = {}
  /\ held = {}
  /\ publisher = None
  /\ evictor = [r \in Replica |-> "idle"]
  /\ faults = [k \in Fault |-> 0]

\* The RPC arrives.
Arrive(q) ==
  /\ pc[q] = "idle"
  /\ pc' = [pc EXCEPT ![q] = "claim"]
  /\ UNCHANGED <<record, attempt, seq, told, waiting, task, cacheVars, publisher, faults>>

RequestStep(q) ==
  \/ FirstClaimWon(q) \/ FirstClaimObserved(q) \/ FirstCheck(q) \/ FirstClear(q)
  \/ Retry(q) \/ EnterWaitLoop(q) \/ PollWon(q) \/ PollObserved(q) \/ Recheck(q) \/ Reclear(q)
RequestFault(q) == FirstClearFails(q) \/ ReclearFails(q) \/ CallFails(q)
TaskStep(c) == Fetch(c) \/ Heartbeat(c) \/ Finish(c)
ReplicaFault(r) == Crash(r) \/ DeleteModel(r) \/ EvictSelect(r) \/ EvictFails(r)
EvictStep(r) == EvictLookup(r) \/ EvictFiles(r) \/ EvictRecord(r)

Next ==
  \/ \E q \in Request : Arrive(q) \/ RequestStep(q) \/ RequestFault(q)
  \/ \E c \in Claim : TaskStep(c) \/ FinishFails(c)
  \/ \E r \in Replica : ReplicaFault(r) \/ EvictStep(r)
  \/ \E k \in Cache : LoseFiles(k)
  \/ Lapse \/ LapseEarly

Spec == Init /\ [][Next]_vars

\* Every request, download and eviction that can take a step takes one (they are
\* tasks of the server's runtime, the poll loop wakes every 500 ms, and a
\* provider call returns); a lease nobody renews runs out.
Fairness ==
  /\ \A q \in Request : WF_vars(RequestStep(q))
  /\ \A c \in Claim : WF_vars(Fetch(c)) /\ WF_vars(Finish(c))
  /\ \A r \in Replica : WF_vars(EvictStep(r))
  /\ WF_vars(Lapse)

FairSpec == Spec /\ Fairness

-----------------------------------------------------------------------------
(* Properties                                                              *)

\* Type correctness.
TypeOK ==
  /\ record \in Record \cup {None}
  /\ pc \in [Request -> {"idle", "claim", "check", "clear", "retry", "won",
                          "observed", "waiting", "recheck", "reclear", "done"}]
  /\ attempt \in [Request -> Nat]
  /\ seq \in [Request -> Nat \ {0}]
  /\ told \in [Request -> SUBSET Status]
  /\ waiting \in [Replica -> SUBSET Request]
  /\ task \in [Claim -> {"none", "fetching", "fetched", "failed", "ended"}]
  /\ files \subseteq Cache /\ held \subseteq Cache
  /\ publisher \in Replica \cup {None}
  /\ evictor \in [Replica -> {"idle", "selected", "found", "deleted"}]
  /\ faults \in FaultCount

\* The entry as the registry trait describes it: a claim is spent once its
\* download task has started.
Entry == INSTANCE DownloadClaim WITH
  status <- IF record = None THEN "ABSENT" ELSE record.status,
  holder <- IF record = None THEN None ELSE record.claim,
  lapsed <- record # None /\ record.lapsed,
  spent <- {c \in Claim : task[c] # "none"}

\* Replicas, requests, downloads and evictions together never do to the entry
\* what the fenced claim protocol forbids: a download whose claim was taken over,
\* cleared or evicted publishes nothing, and its claim never owns again.
ClaimProtocol == Entry!Spec

\* A stream is told DOWNLOADED only by a replica whose own cache has held the
\* files, whichever replica and cache they were first downloaded to.
ServedFromCache ==
  \A q \in Request : "DOWNLOADED" \in told[q] => CacheAt(q) \in held

Without(kinds) == \A k \in Fault \cap kinds : faults[k] = 0

\* Unless an eviction fails, its replica crashes or files are lost by other means,
\* a DOWNLOADED record whose files are gone from the cache they were published
\* from exists only while an eviction is between the files and the record.
StaleOnlyWhileEvicting ==
  record # None /\ record.status = "DOWNLOADED" /\ Without({"files", "disk", "crash"}) =>
    \/ CacheOf[publisher] \in files
    \/ \E r \in Replica : CacheOf[r] = CacheOf[publisher] /\ evictor[r] = "deleted"

\* On a shared cache, while files are neither lost, evicted nor deleted and no
\* heartbeat came too late, at most one task downloads the entry at any time.
SingleFetcher ==
  Without({"late", "delete", "evict", "files"}) =>
    Cardinality({c \in Claim : task[c] = "fetching"}) <= 1

\* Every request is answered, whatever happens to the download it waits for: the
\* owner crashed, lost its lease, could not publish, or its record was removed.
Asks(q) == pc[q] = "claim"
Told(q) == pc[q] = "done"

\* clear_stale_record removes the DOWNLOADED record its caller found without
\* files, and no other.
ClearsOnlyDownloaded ==
  [][\A q \in Request :
       pc[q] \in {"clear", "reclear"} /\ pc'[q] # pc[q] /\ record # None /\ record' = None
         => record.status = "DOWNLOADED"]_vars
=============================================================================
