---------------------------- MODULE CacheEviction ----------------------------
(***************************************************************************)
(* The server's cache eviction (modelexpress_server/src/cache.rs): the LRU  *)
(* policy, the background cycle of every replica, and evict_model, which    *)
(* decides from the entries that survive which snapshots may go.            *)
(*                                                                         *)
(* An entry key (registry/entry_key.rs) names a tenant, a model, a revision *)
(* (None: unpinned, or written before revisions existed) and a weight mode. *)
(* Entries of one tenant and model form a group and share one directory.    *)
(* Replicas share the registry and the cache directory.                     *)
(***************************************************************************)
EXTENDS Integers, FiniteSets

CONSTANTS
  None,
  Entry,      \* the entry keys, [tenant, model, revision, metadata]
  Resolved,   \* Resolved[e]: the snapshot a download of e installs
  Evictor,    \* the replicas that run the service
  MaxModels,  \* max_models, None when not configured
  Threshold,  \* unused_threshold, in ticks
  Horizon,    \* the longest span chrono subtracts from now
  MaxClock,   \* bound on the clock
  MaxClaims,  \* bound on the downloads started
  Fault,      \* the calls that may fail: "list", "files", "record"
  MaxFaults   \* bound on the failures

VARIABLES
  clock,
  record,     \* registry: None, or the status and last use of the entry
  snapshots,  \* the cache directory: group -> snapshots on disk
  tasks,      \* the entries whose download runs
  claims,     \* downloads started so far
  cycle,      \* per replica, the eviction cycle in progress
  raced,      \* groups an entry of which was claimed or selected under a cycle
  late,       \* entries claimed between a cycle's listing and its deletion
  cleared,    \* groups forgotten by delete_model_entries, files left
  torn,       \* entries whose files went and whose record could not
  faults

vars == <<clock, record, snapshots, tasks, claims, cycle, raced, late, cleared,
          torn, faults>>

\* A download of a pinned entry installs the revision the entry names.
WellFormed ==
  /\ None \notin Entry
  /\ None \notin [status : {"DOWNLOADING", "DOWNLOADED"}, used : Nat]
  /\ \A e \in Entry : e.revision # None => Resolved[e] = e.revision

Group(e) == <<e.tenant, e.model>>
Groups == {Group(e) : e \in Entry}
Downloaded(rec) == {e \in Entry : rec[e] # None /\ rec[e].status = "DOWNLOADED"}

Idle == [pc |-> "idle", todo |-> {}, entry |-> None, survivors |-> {}]

Init ==
  /\ clock = 0
  /\ record = [e \in Entry |-> None]
  /\ snapshots = [g \in Groups |-> {}]
  /\ tasks = {} /\ claims = 0
  /\ cycle = [v \in Evictor |-> Idle]
  /\ raced = {} /\ late = {} /\ cleared = {} /\ torn = {}
  /\ faults = 0

Fail(k) == k \in Fault /\ faults < MaxFaults /\ faults' = faults + 1
NoFault == UNCHANGED faults

-----------------------------------------------------------------------------
(* The policy.                                                               *)

\* MUTANT of cutoff: the age limit is counted twice.
CutoffDoubled(now) == now - 2 * Threshold

\* checked_sub_signed: a threshold beyond the calendar falls back to now.
cutoff(now) == IF Threshold > Horizon THEN now ELSE now - Threshold

is_time_expired(rec, now, e) == rec[e].used < cutoff(now)

\* MUTANT of Oldest: one entry more than the excess goes.
OldestAndOne(rec, over) ==
  {s \in SUBSET Downloaded(rec) :
     /\ Cardinality(s) = IF over < 0 THEN 0 ELSE over + 1
     /\ \A e \in s, k \in Downloaded(rec) \ s : rec[e].used <= rec[k].used}

\* sort_by_key(last_used_at).take(n): the ways to take the oldest entries.
Oldest(rec, over) ==
  {s \in SUBSET Downloaded(rec) :
     /\ Cardinality(s) = IF over < 0 THEN 0 ELSE over
     /\ \A e \in s, k \in Downloaded(rec) \ s : rec[e].used <= rec[k].used}

\* The candidate sets select_for_eviction may return; the disk-space rule is
\* not implemented in the code.
select_for_eviction(rec, now) ==
  LET expired == {e \in Downloaded(rec) : is_time_expired(rec, now, e)} IN
  IF MaxModels = None THEN {expired}
  ELSE {expired \cup s : s \in Oldest(rec, Cardinality(Downloaded(rec)) - MaxModels)}

-----------------------------------------------------------------------------
(* One entry.                                                                *)

\* MUTANT of Survivors: only finished downloads count.
SurvivorsDownloaded(e) ==
  {k \in Downloaded(record) : k # e /\ Group(k) = Group(e)}

\* The other entries of the model in the partition, whatever their status.
Survivors(e) == {k \in Entry : record[k] # None /\ k # e /\ Group(k) = Group(e)}

\* MUTANT of snapshot_still_referenced: an unpinned entry covers no snapshot.
ReferencedExactly(e, others) == \E k \in others : k.revision = e.revision

snapshot_still_referenced(e, others) ==
  \E k \in others : k.revision = e.revision \/ k.revision = None \/ e.revision = None

\* MUTANT of delete_revision: the last entry only takes its own snapshot.
DeleteOwn(e, others) ==
  IF others # {} /\ snapshot_still_referenced(e, others) THEN {} ELSE {Resolved[e]}

\* What evict_model deletes: the whole model, nothing, or one snapshot.
delete_revision(e, others) ==
  IF others = {} THEN snapshots[Group(e)]
  ELSE IF snapshot_still_referenced(e, others) THEN {} ELSE {e.revision}

-----------------------------------------------------------------------------
(* The cycle of replica v.                                                   *)

Busy(v) == {Group(e) : e \in cycle[v].todo} \cup
           (IF cycle[v].entry = None THEN {} ELSE {Group(cycle[v].entry)})

\* interval tick, run_eviction_cycle: the listing and the policy.
run_eviction_cycle(v) ==
  /\ cycle[v].pc = "idle"
  /\ \/ /\ NoFault
        /\ \E todo \in select_for_eviction(record, clock) \ {{}} :
             /\ cycle' = [cycle EXCEPT ![v] = [@ EXCEPT !.pc = "next", !.todo = todo]]
             /\ raced' = raced \cup ({Group(e) : e \in todo} \cap
                                      UNION {Busy(w) : w \in Evictor \ {v}})
     \/ Fail("list") /\ UNCHANGED <<cycle, raced>>
  /\ UNCHANGED <<clock, tasks, claims, record, snapshots, late, cleared, torn>>

\* The next candidate; a record that is gone is an error and is skipped.
LookUp(v) ==
  /\ cycle[v].pc = "next"
  /\ IF cycle[v].todo = {}
     THEN NoFault /\ cycle' = [cycle EXCEPT ![v] = Idle]
     ELSE \E e \in cycle[v].todo :
            \/ /\ NoFault /\ record[e] # None
               /\ cycle' = [cycle EXCEPT ![v] =
                    [@ EXCEPT !.pc = "siblings", !.entry = e, !.todo = cycle[v].todo \ {e}]]
            \/ /\ NoFault /\ record[e] = None
               /\ cycle' = [cycle EXCEPT ![v] = [@ EXCEPT !.todo = cycle[v].todo \ {e}]]
            \/ Fail("list") /\ cycle' = [cycle EXCEPT ![v] = [@ EXCEPT !.todo = cycle[v].todo \ {e}]]
  /\ UNCHANGED <<clock, tasks, claims, record, snapshots, raced, late, cleared, torn>>

Skip(v) == cycle' = [cycle EXCEPT ![v] = [@ EXCEPT !.pc = "next", !.entry = None, !.survivors = {}]]

ListSiblings(v) ==
  /\ cycle[v].pc = "siblings"
  /\ \/ /\ NoFault
        /\ cycle' = [cycle EXCEPT ![v] =
             [@ EXCEPT !.pc = "files", !.survivors = Survivors(cycle[v].entry)]]
     \/ Fail("list") /\ Skip(v)
  /\ UNCHANGED <<clock, tasks, claims, record, snapshots, raced, late, cleared, torn>>

\* MUTANT of DeleteFiles: a failed deletion goes on to the record.
DeleteFilesAnyway(v) ==
  /\ cycle[v].pc = "files"
  /\ \/ /\ NoFault
        /\ LET e == cycle[v].entry IN
             snapshots' = [snapshots EXCEPT ![Group(e)] =
                             @ \ delete_revision(e, cycle[v].survivors)]
     \/ Fail("files") /\ UNCHANGED snapshots
  /\ cycle' = [cycle EXCEPT ![v] = [@ EXCEPT !.pc = "record"]]
  /\ UNCHANGED <<clock, tasks, claims, record, raced, late, cleared, torn>>

\* A failed deletion keeps the record, and the next cycle retries.
DeleteFiles(v) ==
  /\ cycle[v].pc = "files"
  /\ LET e == cycle[v].entry IN
     \/ /\ NoFault
        /\ snapshots' = [snapshots EXCEPT ![Group(e)] =
                           @ \ delete_revision(e, cycle[v].survivors)]
        /\ cleared' = IF cycle[v].survivors = {} THEN cleared \ {Group(e)} ELSE cleared
        /\ cycle' = [cycle EXCEPT ![v] = [@ EXCEPT !.pc = "record"]]
     \/ /\ Fail("files")
        /\ Skip(v)
        /\ UNCHANGED <<snapshots, cleared>>
  /\ UNCHANGED <<clock, tasks, claims, record, raced, late, torn>>

\* The record, last. The entry's download manifest goes just before; its removal
\* may fail, with a warning, and every reader checks a manifest against the files.
DeleteRecord(v) ==
  /\ cycle[v].pc = "record"
  /\ LET e == cycle[v].entry IN
     \/ /\ NoFault
        /\ record' = [record EXCEPT ![e] = None]
        /\ torn' = torn \ {e}
     \/ /\ Fail("record")
        /\ torn' = torn \cup {e}
        /\ UNCHANGED record
  /\ Skip(v)
  /\ UNCHANGED <<clock, tasks, claims, snapshots, raced, late, cleared>>

EvictStep(v) ==
  run_eviction_cycle(v) \/ LookUp(v) \/ ListSiblings(v) \/ DeleteFiles(v) \/ DeleteRecord(v)

-----------------------------------------------------------------------------
(* The requests, as DownloadRegistry models them in detail.                  *)

RacedBy(e) == raced' = raced \cup ({Group(e)} \cap UNION {Busy(v) : v \in Evictor})

\* A cycle is about to delete files of e's model and has not seen e.
Unseen(e) ==
  \E v \in Evictor : /\ cycle[v].pc = "files" /\ Group(cycle[v].entry) = Group(e)
                      /\ e \notin cycle[v].survivors

Claim(e) ==
  /\ record[e] = None /\ e \notin tasks
  /\ claims < MaxClaims /\ claims' = claims + 1
  /\ record' = [record EXCEPT ![e] = [status |-> "DOWNLOADING", used |-> clock]]
  /\ tasks' = tasks \cup {e}
  /\ RacedBy(e) /\ late' = IF Unseen(e) THEN late \cup {e} ELSE late \ {e}
  /\ UNCHANGED <<clock, snapshots, cycle, cleared, torn, faults>>

\* The download ends and records the status; a record
\* deleted meanwhile is not written again, and the files stay.
FinishDownload(e) ==
  /\ e \in tasks
  /\ tasks' = tasks \ {e}
  /\ snapshots' = [snapshots EXCEPT ![Group(e)] = @ \cup {Resolved[e]}]
  /\ IF record[e] = None
     THEN cleared' = cleared \cup {Group(e)} /\ UNCHANGED record
     ELSE /\ record' = [record EXCEPT ![e] = [status |-> "DOWNLOADED", used |-> clock]]
          /\ UNCHANGED cleared
  /\ late' = IF Unseen(e) THEN late ELSE late \ {e}
  /\ torn' = torn \ {e}
  /\ UNCHANGED <<clock, claims, cycle, raced, faults>>

\* touch_model, on a request for a downloaded entry.
Touch(e) ==
  /\ e \in Downloaded(record) /\ record[e].used < clock
  /\ record' = [record EXCEPT ![e].used = clock]
  /\ UNCHANGED <<clock, snapshots, tasks, claims, cycle, raced, late, cleared, torn, faults>>

\* MUTANT of belongs_to: the tenant is not compared.
BelongsToAny(e, tenant, model) == e.model = model

belongs_to(e, tenant, model) == e.tenant = tenant /\ e.model = model

\* delete_model_entries: the records of a model in one partition are forgotten,
\* one delete after the other, and their files are left.
DeleteModelEntries(tenant, model) ==
  LET gone == {e \in Entry : belongs_to(e, tenant, model) /\ record[e] # None} IN
  /\ gone # {}
  /\ record' = [e \in Entry |-> IF e \in gone THEN None ELSE record[e]]
  /\ cleared' = cleared \cup {<<tenant, model>>}
  /\ UNCHANGED <<clock, snapshots, tasks, claims, cycle, raced, late, torn, faults>>

Tick ==
  /\ clock < MaxClock
  /\ clock' = clock + 1
  /\ UNCHANGED <<record, snapshots, tasks, claims, cycle, raced, late, cleared, torn, faults>>

Next ==
  \/ \E v \in Evictor : EvictStep(v)
  \/ \E e \in Entry : Claim(e) \/ FinishDownload(e) \/ Touch(e)
  \/ \E g \in Groups : DeleteModelEntries(g[1], g[2])
  \/ Tick

Spec == Init /\ [][Next]_vars

-----------------------------------------------------------------------------
\* A downloaded entry has its snapshot, whatever entries of its model other
\* cycles, of this replica or of another, evict meanwhile. evict_model's race has
\* one victim: an entry claimed after the listing and finished before the
\* deletion (late). Apart from it an entry is only left without its files when
\* the last call of its own eviction fails.
SurvivorsWhole ==
  \A e \in Downloaded(record) \ (late \cup torn) :
    \/ \E v \in Evictor : cycle[v].entry = e
    \/ Resolved[e] \in snapshots[Group(e)]

\* Snapshots do not outlive the last record of their model: an eviction that
\* kept shared files leaves them to an entry that will take them, and a partition
\* whose model is forgotten is the only one that loses records without files.
NoOrphans ==
  \A g \in Groups \ (raced \cup cleared) :
    (\A e \in Entry : Group(e) = g => record[e] = None) => snapshots[g] = {}

\* A cycle evicts no entry while it keeps an older one, evicts every entry past
\* its age, and no younger one beyond the excess over max_models.
LeastRecentFirst ==
  \A todo \in select_for_eviction(record, clock) :
    LET kept == Downloaded(record) \ todo
        fresh == {e \in todo : record[e].used >= clock - Threshold} IN
    /\ \A e \in todo, k \in kept : record[e].used <= record[k].used
    /\ \A k \in kept : record[k].used >= clock - Threshold
    /\ MaxModels # None => Cardinality(kept) <= MaxModels
    /\ fresh # {} => Cardinality(kept) = MaxModels
=============================================================================
