---------------------------- MODULE CacheProofs ----------------------------
(***************************************************************************)
(* Proofs about what the server's model cache holds: eviction              *)
(* (CacheEviction) and the Hugging Face cache (HuggingFaceCache).  Each    *)
(* has an inductive invariant of its own, and its theorems follow from it. *)
(***************************************************************************)
EXTENDS Naturals, Sequences, FiniteSets, TLAPS

CONSTANTS
  None, Fault, MaxFaults,
  Entry, Resolved, Evictor, MaxModels, Threshold, Horizon, MaxClock, MaxClaims,
  File, Commit, Branch, Slashed, BlobOf, Empty, Download, Wants, Deletion, Target, Default

VARIABLES
  faults,
  clock, record, snapshots, tasks, claims, cycle, raced, late, cleared, torn,
  head, budget, refs, snapshot, blobs, made, order, dl, del, offline, overlap

Evict == INSTANCE CacheEviction

-----------------------------------------------------------------------------
(* Eviction: snapshots live as long as the entries that need them.         *)

EvictRecords == {None} \cup [status : {"DOWNLOADING", "DOWNLOADED"}, used : Nat]
EvictCycle ==
  [pc : {"idle", "next", "siblings", "files", "record"}, todo : SUBSET Entry,
   entry : Entry \cup {None}, survivors : SUBSET Entry]

EvictTypes ==
  /\ clock \in Nat
  /\ record \in [Entry -> EvictRecords] /\ tasks \subseteq Entry
  /\ DOMAIN snapshots = Evict!Groups
  /\ cycle \in [Evictor -> EvictCycle]
  /\ \A v \in Evictor : cycle[v].entry = None <=> cycle[v].pc \in {"idle", "next"}

\* A group two cycles work on is raced.
EvictApart ==
  \A v, w \in Evictor : v # w => Evict!Busy(v) \cap Evict!Busy(w) \subseteq raced

\* No entry a cycle works on is being downloaded again, unless its group is raced.
EvictSettled ==
  /\ \A e \in tasks : record[e] = None \/ record[e].status = "DOWNLOADING"
  /\ \A v \in Evictor : \A e \in cycle[v].todo \cup {cycle[v].entry} :
       e = None \/ Evict!Group(e) \in raced \/ record[e] = None \/ record[e].status = "DOWNLOADED"

\* A cycle has listed the siblings of its entry but those claimed since, and what
\* it has listed is still there.
EvictListed(v) ==
  cycle[v].pc = "files" => LET x == cycle[v].entry IN
    /\ \A k \in Entry : k # x /\ Evict!Group(k) = Evict!Group(x) /\ record[k] # None =>
         k \in cycle[v].survivors \/ k \in late
    /\ Evict!Group(x) \notin raced \cup cleared =>
         \A k \in cycle[v].survivors :
           k # x /\ Evict!Group(k) = Evict!Group(x) /\ record[k] # None

\* With the last record of a group about to go, its files are gone.
EvictLast(v) ==
  cycle[v].pc = "record" => LET x == cycle[v].entry IN
    Evict!Group(x) \notin raced \cup cleared
      /\ (\A k \in Entry : k # x /\ Evict!Group(k) = Evict!Group(x) => record[k] = None)
    => snapshots[Evict!Group(x)] = {}

\* The files of an entry stay until its own cycle has deleted them.
EvictWhole ==
  \A e \in Evict!Downloaded(record) :
    \/ e \in late \/ e \in torn
    \/ \E v \in Evictor : cycle[v].entry = e /\ cycle[v].pc = "record"
    \/ Resolved[e] \in snapshots[Evict!Group(e)]

EvictInv ==
  /\ EvictTypes /\ EvictApart /\ EvictSettled /\ EvictWhole /\ Evict!NoOrphans
  /\ \A v \in Evictor : EvictListed(v) /\ EvictLast(v)

\* The fields of a cycle.
LEMMA EvictFields ==
  ASSUME EvictTypes, NEW v \in Evictor
  PROVE  /\ cycle[v] \in EvictCycle
         /\ cycle[v].pc \in {"idle", "next", "siblings", "files", "record"}
         /\ cycle[v].todo \subseteq Entry /\ cycle[v].survivors \subseteq Entry
         /\ cycle[v].entry \in Entry \cup {None}
         /\ cycle[v].pc \in {"siblings", "files", "record"} => cycle[v].entry \in Entry
         /\ \A e \in Entry : record[e] \in EvictRecords /\ Evict!Group(e) \in Evict!Groups
<1>1. cycle[v] \in EvictCycle /\ \A e \in Entry : record[e] \in EvictRecords
  BY Zenon DEF EvictTypes
<1>2. /\ cycle[v].pc \in {"idle", "next", "siblings", "files", "record"}
      /\ cycle[v].todo \in SUBSET Entry /\ cycle[v].survivors \in SUBSET Entry
      /\ cycle[v].entry \in Entry \cup {None}
  BY <1>1, Zenon DEF EvictCycle
<1>3. cycle[v].pc \in {"siblings", "files", "record"} => cycle[v].entry \in Entry
  BY <1>2, Zenon DEF EvictTypes
<1>4. \A e \in Entry : Evict!Group(e) \in Evict!Groups
  BY Zenon DEF Evict!Groups
<1> QED
  BY <1>1, <1>2, <1>3, <1>4, Zenon

\* One cycle changes.
LEMMA EvictSet ==
  ASSUME EvictTypes, NEW v \in Evictor, NEW r \in EvictCycle, cycle' = [cycle EXCEPT ![v] = r]
  PROVE  /\ cycle' \in [Evictor -> EvictCycle] /\ cycle'[v] = r
         /\ \A w \in Evictor : w # v => cycle'[w] = cycle[w]
BY Zenon DEF EvictTypes

\* A cycle that only moves on among the entries it works on, and has listed nothing yet.
LEMMA EvictAdvances ==
  ASSUME Evict!WellFormed, EvictInv, NEW v \in Evictor, NEW r \in EvictCycle,
         cycle' = [cycle EXCEPT ![v] = r],
         UNCHANGED <<clock, record, snapshots, tasks, raced, late, cleared, torn>>,
         cycle[v].pc # "record",
         r.pc \in {"idle", "next", "siblings", "files"},
         r.entry = None <=> r.pc \in {"idle", "next"},
         r.pc = "files" => r.survivors = Evict!Survivors(r.entry),
         \A e \in r.todo \cup {r.entry} : e = None \/ e \in cycle[v].todo \cup {cycle[v].entry}
  PROVE  EvictInv'
<1>1. /\ cycle' \in [Evictor -> EvictCycle] /\ cycle'[v] = r
      /\ \A w \in Evictor : w # v => cycle'[w] = cycle[w]
  BY EvictSet, Zenon DEF EvictInv
<1>2. /\ record' = record /\ clock' = clock /\ snapshots' = snapshots /\ tasks' = tasks
      /\ raced' = raced /\ late' = late /\ cleared' = cleared /\ torn' = torn
  BY Zenon
<1>3. EvictTypes'
  BY <1>1, <1>2, Zenon DEF EvictInv, EvictTypes
<1>4. r.todo \subseteq Entry /\ r.entry \in Entry \cup {None}
  BY Zenon DEF EvictCycle
<1>5. \A w \in Evictor : Evict!Busy(w)' \subseteq Evict!Busy(w)
  <2>1. Evict!Busy(v)' \subseteq Evict!Busy(v)
    <3> SUFFICES ASSUME NEW g \in Evict!Busy(v)' PROVE g \in Evict!Busy(v)
      BY Zenon
    <3>1. PICK e \in r.todo \cup {r.entry} : e # None /\ g = Evict!Group(e)
      BY <1>1, <1>4, Zenon DEF Evict!Busy, Evict!WellFormed
    <3> QED
      BY <3>1, Zenon DEF Evict!Busy
  <2> QED
    BY <2>1, <1>1, ZenonT(40) DEF Evict!Busy
<1>6. EvictApart'
  BY <1>2, <1>5, Zenon DEF EvictInv, EvictApart
<1>7. EvictSettled'
  <2>1. \A e \in tasks' : record'[e] = None \/ record'[e].status = "DOWNLOADING"
    BY <1>2, Zenon DEF EvictInv, EvictSettled
  <2>2. ASSUME NEW w \in Evictor, NEW e \in cycle'[w].todo \cup {cycle'[w].entry}, e # None
        PROVE  e \in cycle[w].todo \cup {cycle[w].entry}
    BY <2>2, <1>1, Zenon
  <2> QED
    <3>1. \A w \in Evictor : \A e \in cycle'[w].todo \cup {cycle'[w].entry} :
            e = None \/ Evict!Group(e) \in raced \/ record[e] = None \/ record[e].status = "DOWNLOADED"
      BY <2>2, Zenon DEF EvictInv, EvictSettled
    <3> QED
      BY <2>1, <3>1, <1>2, ZenonT(40) DEF EvictSettled
<1>8. EvictWhole'
  <2>1. EvictWhole
    BY Zenon DEF EvictInv
  <2>2. Evict!Downloaded(record') = Evict!Downloaded(record)
    BY <1>2, Zenon
  <2>3. ASSUME NEW w \in Evictor, cycle[w].pc = "record" PROVE cycle'[w] = cycle[w]
    BY <2>3, <1>1, Zenon
  <2> QED
    BY <2>1, <2>2, <2>3, <1>2, Zenon DEF EvictWhole
<1>9. Evict!NoOrphans'
  BY <1>2, Zenon DEF EvictInv, Evict!NoOrphans
<1>10. ASSUME NEW w \in Evictor PROVE EvictListed(w)' /\ EvictLast(w)'
  <2>1. CASE w = v
    BY <2>1, <1>1, <1>2, ZenonT(40) DEF EvictInv, EvictListed, EvictLast, Evict!Survivors
  <2>2. CASE w # v
    <3>1. cycle'[w] = cycle[w] /\ EvictListed(w) /\ EvictLast(w)
      BY <2>2, <1>1, Zenon DEF EvictInv
    <3> QED
      BY <3>1, <1>2, ZenonT(40) DEF EvictListed, EvictLast
  <2> QED
    BY <2>1, <2>2, Zenon
<1> QED
  BY <1>3, <1>6, <1>7, <1>8, <1>9, <1>10, Zenon DEF EvictInv

\* A cycle begins with the entries the policy selected.
LEMMA EvictBegins ==
  ASSUME Evict!WellFormed, EvictInv, NEW v \in Evictor, Evict!run_eviction_cycle(v)
  PROVE  EvictInv'
<1>1. /\ record' = record /\ clock' = clock /\ snapshots' = snapshots /\ tasks' = tasks
      /\ cleared' = cleared /\ torn' = torn /\ late' = late /\ cycle[v].pc = "idle" /\ cycle[v].entry = None
  BY Zenon DEF Evict!run_eviction_cycle, EvictInv, EvictTypes
<1>2. CASE UNCHANGED <<cycle, raced>>
  <2>1. cycle' = cycle /\ raced' = raced
    BY <1>2, Zenon
  <2>2. /\ EvictTypes' /\ EvictApart' /\ EvictSettled' /\ EvictWhole' /\ Evict!NoOrphans'
    BY <1>1, <2>1, ZenonT(40) DEF EvictInv, EvictTypes, EvictApart, EvictSettled, EvictWhole, Evict!NoOrphans, Evict!Busy, Evict!Downloaded
  <2>3. ASSUME NEW w \in Evictor PROVE EvictListed(w)' /\ EvictLast(w)'
    BY <1>1, <2>1, Zenon DEF EvictInv, EvictListed, EvictLast
  <2> QED
    BY <2>2, <2>3, Zenon DEF EvictInv
<1>3. ASSUME NEW todo \in Evict!select_for_eviction(record, clock) \ {{}},
             cycle' = [cycle EXCEPT ![v] = [@ EXCEPT !.pc = "next", !.todo = todo]],
             raced' = raced \cup ({Evict!Group(e) : e \in todo} \cap
                                   UNION {Evict!Busy(w) : w \in Evictor \ {v}})
      PROVE  EvictInv'
  <2>1. todo \subseteq Evict!Downloaded(record)
    BY Zenon DEF Evict!select_for_eviction, Evict!Oldest
  <2> DEFINE r == [cycle[v] EXCEPT !.pc = "next", !.todo = todo]
  <2>2. r \in EvictCycle /\ r.pc = "next" /\ r.todo = todo /\ r.entry = None
    <3>1. cycle[v] \in EvictCycle /\ todo \in SUBSET Entry
      BY <2>1, EvictFields, Zenon DEF EvictInv, Evict!Downloaded
    <3> QED
      BY <3>1, <1>1, Zenon DEF EvictCycle
  <2>3. cycle' = [cycle EXCEPT ![v] = r]
    BY <1>3, Zenon DEF EvictInv, EvictTypes
  <2> HIDE DEF r
  <2>4. /\ cycle' \in [Evictor -> EvictCycle] /\ cycle'[v] = r
        /\ \A w \in Evictor : w # v => cycle'[w] = cycle[w]
    BY <2>2, <2>3, EvictSet, Zenon DEF EvictInv
  <2>5. raced \subseteq raced'
    BY <1>3, Zenon
  <2>6. EvictTypes'
    BY <1>1, <2>2, <2>4, Zenon DEF EvictInv, EvictTypes
  <2>7. EvictApart'
    <3>1. \A w \in Evictor : w # v => Evict!Busy(w)' = Evict!Busy(w)
      BY <2>4, Zenon DEF Evict!Busy
    <3>2. Evict!Busy(v)' = {Evict!Group(e) : e \in todo}
      BY <2>2, <2>4, Zenon DEF Evict!Busy
    <3>3. \A w \in Evictor : w # v => Evict!Busy(v)' \cap Evict!Busy(w)' \subseteq raced'
      BY <3>1, <3>2, <1>3, Zenon
    <3> QED
      BY <3>1, <3>3, <2>5, Zenon DEF EvictInv, EvictApart
  <2>8. EvictSettled'
    <3>1. \A e \in tasks' : record'[e] = None \/ record'[e].status = "DOWNLOADING"
      BY <1>1, Zenon DEF EvictInv, EvictSettled
    <3>2. ASSUME NEW w \in Evictor, NEW e \in cycle'[w].todo \cup {cycle'[w].entry}, e # None
          PROVE  Evict!Group(e) \in raced' \/ record'[e] = None \/ record'[e].status = "DOWNLOADED"
      <4>1. CASE w = v
        BY <4>1, <3>2, <1>1, <2>1, <2>2, <2>4, Zenon DEF Evict!Downloaded
      <4>2. CASE w # v
        BY <4>2, <3>2, <1>1, <2>4, <2>5, Zenon DEF EvictInv, EvictSettled
      <4> QED
        BY <4>1, <4>2, Zenon
    <3> QED
      BY <3>1, <3>2, Zenon DEF EvictSettled, Evict!Group
  <2>9. EvictWhole'
    BY <1>1, <2>4, <2>5, ZenonT(40) DEF EvictInv, EvictWhole, Evict!Downloaded
  <2>10. Evict!NoOrphans'
    BY <1>1, <2>5, Zenon DEF EvictInv, Evict!NoOrphans
  <2>11. ASSUME NEW w \in Evictor PROVE EvictListed(w)' /\ EvictLast(w)'
    <3>1. CASE w = v
      BY <3>1, <2>2, <2>4, Zenon DEF EvictListed, EvictLast
    <3>2. CASE w # v
      <4>1. cycle'[w] = cycle[w] /\ EvictListed(w) /\ EvictLast(w)
        BY <3>2, <2>4, Zenon DEF EvictInv
      <4> QED
        BY <4>1, <1>1, <2>5, Zenon DEF EvictListed, EvictLast
    <3> QED
      BY <3>1, <3>2, Zenon
  <2> QED
    BY <2>6, <2>7, <2>8, <2>9, <2>10, <2>11, Zenon DEF EvictInv
<1> QED
  BY <1>2, <1>3, Zenon DEF Evict!run_eviction_cycle

\* The steps of a cycle before it deletes anything.
LEMMA EvictLooks ==
  ASSUME Evict!WellFormed, EvictInv, NEW v \in Evictor, Evict!LookUp(v) \/ Evict!ListSiblings(v)
  PROVE  EvictInv'
<1>1. UNCHANGED <<clock, record, snapshots, tasks, raced, late, cleared, torn>>
  BY Zenon DEF Evict!LookUp, Evict!ListSiblings
<1>2. /\ cycle[v] \in EvictCycle /\ cycle[v].todo \subseteq Entry
      /\ cycle[v].entry \in Entry \cup {None} /\ cycle[v].pc \in {"next", "siblings"}
      /\ cycle[v].pc = "next" => cycle[v].entry = None
      /\ cycle[v].pc = "siblings" => cycle[v].entry \in Entry
  BY EvictFields, Zenon DEF Evict!LookUp, Evict!ListSiblings, EvictInv, EvictTypes
<1>3. CASE cycle' = [cycle EXCEPT ![v] = Evict!Idle]
  <2>1. /\ Evict!Idle \in EvictCycle /\ Evict!Idle.pc = "idle" /\ Evict!Idle.todo = {}
        /\ Evict!Idle.entry = None
    BY Zenon DEF Evict!Idle, EvictCycle
  <2> QED
    BY <2>1, <1>1, <1>2, <1>3, EvictAdvances, Zenon
<1>4. ASSUME NEW e \in cycle[v].todo, cycle[v].pc = "next",
             cycle' = [cycle EXCEPT ![v] =
                         [@ EXCEPT !.pc = "siblings", !.entry = e, !.todo = cycle[v].todo \ {e}]]
      PROVE  EvictInv'
  <2> DEFINE r == [cycle[v] EXCEPT !.pc = "siblings", !.entry = e, !.todo = cycle[v].todo \ {e}]
  <2>1. /\ r \in EvictCycle /\ r.pc = "siblings" /\ r.entry = e /\ r.todo = cycle[v].todo \ {e}
        /\ e # None
    BY <1>2, Zenon DEF EvictCycle, Evict!WellFormed
  <2>2. cycle' = [cycle EXCEPT ![v] = r]
    BY <1>4, Zenon DEF EvictInv, EvictTypes
  <2> HIDE DEF r
  <2> QED
    BY <2>1, <2>2, <1>1, <1>2, EvictAdvances, Zenon
<1>5. ASSUME NEW e \in cycle[v].todo, cycle[v].pc = "next",
             cycle' = [cycle EXCEPT ![v] = [@ EXCEPT !.todo = cycle[v].todo \ {e}]]
      PROVE  EvictInv'
  <2> DEFINE r == [cycle[v] EXCEPT !.todo = cycle[v].todo \ {e}]
  <2>1. /\ r \in EvictCycle /\ r.pc = "next" /\ r.entry = None /\ r.todo = cycle[v].todo \ {e}
    BY <1>2, <1>5, Zenon DEF EvictCycle
  <2>2. cycle' = [cycle EXCEPT ![v] = r]
    BY <1>5, Zenon DEF EvictInv, EvictTypes
  <2> HIDE DEF r
  <2> QED
    BY <2>1, <2>2, <1>1, <1>2, EvictAdvances, Zenon
<1>6. ASSUME cycle[v].pc = "siblings",
             cycle' = [cycle EXCEPT ![v] =
               [@ EXCEPT !.pc = "files", !.survivors = Evict!Survivors(cycle[v].entry)]]
      PROVE  EvictInv'
  <2> DEFINE x == cycle[v].entry
  <2> DEFINE r == [cycle[v] EXCEPT !.pc = "files", !.survivors = Evict!Survivors(x)]
  <2>0. Evict!Survivors(x) \in SUBSET Entry /\ x # None
    BY <1>2, <1>6, Zenon DEF Evict!Survivors, Evict!WellFormed
  <2>1. /\ r \in EvictCycle /\ r.pc = "files" /\ r.entry = x /\ r.todo = cycle[v].todo
        /\ r.survivors = Evict!Survivors(x)
    BY <2>0, <1>2, Zenon DEF EvictCycle
  <2>2. cycle' = [cycle EXCEPT ![v] = r]
    BY <1>6, Zenon DEF EvictInv, EvictTypes
  <2> HIDE DEF r
  <2> QED
    BY <2>0, <2>1, <2>2, <1>1, <1>2, <1>6, EvictAdvances, Zenon
<1>7. ASSUME cycle[v].pc = "siblings", Evict!Skip(v) PROVE EvictInv'
  <2> DEFINE r == [cycle[v] EXCEPT !.pc = "next", !.entry = None, !.survivors = {}]
  <2>1. r \in EvictCycle /\ r.pc = "next" /\ r.entry = None /\ r.todo = cycle[v].todo
    BY <1>2, Zenon DEF EvictCycle
  <2>2. cycle' = [cycle EXCEPT ![v] = r]
    BY <1>7, Zenon DEF EvictInv, EvictTypes, Evict!Skip
  <2> HIDE DEF r
  <2> QED
    BY <2>1, <2>2, <1>1, <1>2, <1>7, EvictAdvances, Zenon
<1>8. CASE Evict!LookUp(v)
  BY <1>3, <1>4, <1>5, <1>8, Zenon DEF Evict!LookUp
<1>9. CASE Evict!ListSiblings(v)
  BY <1>6, <1>7, <1>9, Zenon DEF Evict!ListSiblings
<1> QED
  BY <1>8, <1>9, Zenon

\* What a cycle deletes spares the snapshot of every entry of the group but its own.
LEMMA EvictSpares ==
  ASSUME Evict!WellFormed, EvictInv, NEW v \in Evictor, cycle[v].pc = "files",
         NEW k \in Entry, k # cycle[v].entry, record[k] # None,
         Evict!Group(k) = Evict!Group(cycle[v].entry), k \notin late
  PROVE  /\ cycle[v].survivors # {}
         /\ Resolved[k] \notin Evict!delete_revision(cycle[v].entry, cycle[v].survivors)
<1> DEFINE x == cycle[v].entry
<1> DEFINE others == cycle[v].survivors
<1>1. k \in others
  BY Zenon DEF EvictInv, EvictListed
<1>2. CASE Evict!snapshot_still_referenced(x, others)
  BY <1>1, <1>2, Zenon DEF Evict!delete_revision
<1>3. CASE ~Evict!snapshot_still_referenced(x, others)
  <2>1. k.revision # x.revision /\ k.revision # None
    BY <1>1, <1>3, Zenon DEF Evict!snapshot_still_referenced
  <2>2. Resolved[k] = k.revision /\ Evict!delete_revision(x, others) = {x.revision}
    BY <2>1, <1>1, <1>3, Zenon DEF Evict!WellFormed, Evict!delete_revision
  <2> QED
    BY <2>1, <2>2, <1>1, Zenon
<1> QED
  BY <1>2, <1>3, Zenon

\* A cycle deletes files.
LEMMA EvictDeletesFiles ==
  ASSUME Evict!WellFormed, EvictInv, NEW v \in Evictor, Evict!DeleteFiles(v)
  PROVE  EvictInv'
<1> DEFINE x == cycle[v].entry
<1> DEFINE g == Evict!Group(x)
<1>1. /\ record' = record /\ clock' = clock /\ tasks' = tasks /\ raced' = raced /\ late' = late /\ torn' = torn
      /\ cycle[v].pc = "files"
  BY Zenon DEF Evict!DeleteFiles
<1>2. /\ cycle[v] \in EvictCycle /\ x \in Entry /\ x # None /\ g \in Evict!Groups
  BY <1>1, EvictFields, Zenon DEF EvictInv, Evict!WellFormed
<1>3. ASSUME Evict!Skip(v), UNCHANGED <<snapshots, cleared>> PROVE EvictInv'
  <2> DEFINE r == [cycle[v] EXCEPT !.pc = "next", !.entry = None, !.survivors = {}]
  <2>1. r \in EvictCycle /\ r.pc = "next" /\ r.entry = None /\ r.todo = cycle[v].todo
    BY <1>2, Zenon DEF EvictCycle
  <2>2. cycle' = [cycle EXCEPT ![v] = r]
    BY <1>3, Zenon DEF EvictInv, EvictTypes, Evict!Skip
  <2> HIDE DEF r
  <2> QED
    BY <2>1, <2>2, <1>1, <1>2, <1>3, EvictAdvances, Zenon
<1>4. ASSUME snapshots' = [snapshots EXCEPT ![g] = @ \ Evict!delete_revision(x, cycle[v].survivors)],
             cleared' = IF cycle[v].survivors = {} THEN cleared \ {g} ELSE cleared,
             cycle' = [cycle EXCEPT ![v] = [@ EXCEPT !.pc = "record"]]
      PROVE  EvictInv'
  <2> DEFINE r == [cycle[v] EXCEPT !.pc = "record"]
  <2>1. /\ r \in EvictCycle /\ r.pc = "record" /\ r.entry = x /\ r.todo = cycle[v].todo
    BY <1>2, Zenon DEF EvictCycle
  <2>2. cycle' = [cycle EXCEPT ![v] = r]
    BY <1>4, Zenon DEF EvictInv, EvictTypes
  <2> HIDE DEF r
  <2>3. /\ cycle' \in [Evictor -> EvictCycle] /\ cycle'[v] = r
        /\ \A w \in Evictor : w # v => cycle'[w] = cycle[w]
    BY <2>1, <2>2, EvictSet, Zenon DEF EvictInv
  <2>4. /\ DOMAIN snapshots' = Evict!Groups
        /\ \A h \in Evict!Groups : h # g => snapshots'[h] = snapshots[h]
        /\ snapshots'[g] = snapshots[g] \ Evict!delete_revision(x, cycle[v].survivors)
    BY <1>2, <1>4, Zenon DEF EvictInv, EvictTypes
  <2>5. /\ \A h : h # g /\ h \notin cleared' => h \notin cleared
        /\ cycle[v].survivors # {} => cleared' = cleared
    BY <1>4, Zenon
  <2>6. cycle[v].survivors = {} => snapshots'[g] = {}
    BY <2>4, Zenon DEF Evict!delete_revision
  <2>7. \A w \in Evictor : Evict!Busy(w)' = Evict!Busy(w)
    BY <2>1, <2>3, Zenon DEF Evict!Busy
  <2>8. \A w \in Evictor : w # v /\ cycle[w].entry # None /\ Evict!Group(cycle[w].entry) = g => g \in raced
    BY <1>2, Zenon DEF EvictInv, EvictApart, Evict!Busy
  <2>9. EvictTypes'
    BY <1>1, <1>2, <2>1, <2>3, <2>4, Zenon DEF EvictInv, EvictTypes
  <2>10. EvictApart'
    BY <1>1, <2>7, Zenon DEF EvictInv, EvictApart
  <2>11. EvictSettled'
    <3>1. \A w \in Evictor : cycle'[w].todo = cycle[w].todo /\ cycle'[w].entry = cycle[w].entry
      BY <2>1, <2>3, Zenon
    <3> QED
      BY <3>1, <1>1, Zenon DEF EvictInv, EvictSettled
  <2>12. EvictWhole'
    <3> SUFFICES ASSUME NEW e \in Evict!Downloaded(record), e \notin late, e \notin torn,
                        ~\E w \in Evictor : cycle'[w].entry = e /\ cycle'[w].pc = "record"
                 PROVE  Resolved[e] \in snapshots'[Evict!Group(e)]
      BY <1>1, Zenon DEF EvictWhole, Evict!Downloaded
    <3>1. e # x /\ e \in Entry /\ record[e] # None /\ Evict!Group(e) \in Evict!Groups
      BY <2>1, <2>3, EvictFields, Zenon DEF Evict!Downloaded, EvictInv
    <3>2. ~\E w \in Evictor : cycle[w].entry = e /\ cycle[w].pc = "record"
      BY <2>3, <1>1, Zenon
    <3>3. Resolved[e] \in snapshots[Evict!Group(e)]
      BY <3>2, Zenon DEF EvictInv, EvictWhole
    <3>4. CASE Evict!Group(e) # g
      BY <3>1, <3>3, <3>4, <2>4, Zenon
    <3>5. CASE Evict!Group(e) = g
      BY <3>1, <3>3, <3>5, <2>4, <1>1, EvictSpares, Zenon
    <3> QED
      BY <3>4, <3>5, Zenon
  <2>13. Evict!NoOrphans'
    <3> SUFFICES ASSUME NEW h \in Evict!Groups, h \notin raced, h \notin cleared',
                        \A e \in Entry : Evict!Group(e) = h => record[e] = None
                 PROVE  snapshots'[h] = {}
      BY <1>1, Zenon DEF Evict!NoOrphans
    <3>1. CASE h \notin cleared
      <4>1. snapshots[h] = {}
        BY <3>1, Zenon DEF EvictInv, Evict!NoOrphans
      <4> QED
        BY <4>1, <2>4, Zenon
    <3>2. CASE h \in cleared
      BY <3>2, <2>5, <2>6, Zenon
    <3> QED
      BY <3>1, <3>2, Zenon
  <2>14. ASSUME NEW w \in Evictor PROVE EvictListed(w)' /\ EvictLast(w)'
    <3>1. CASE w = v
      <4>1. cycle'[w].pc = "record" /\ cycle'[w].entry = x
        BY <3>1, <2>1, <2>3, Zenon
      <4>2. ASSUME g \notin raced, g \notin cleared',
                   \A k \in Entry : k # x /\ Evict!Group(k) = g => record[k] = None
            PROVE  snapshots'[g] = {}
        <5>1. CASE cycle[v].survivors = {}
          BY <5>1, <2>6, Zenon
        <5>2. CASE cycle[v].survivors # {}
          <6>1. PICK k \in cycle[v].survivors : k \in Entry
            BY <5>2, EvictFields, Zenon DEF EvictInv
          <6>2. k # x /\ Evict!Group(k) = g /\ record[k] # None
            BY <6>1, <5>2, <4>2, <2>5, <1>1, Zenon DEF EvictInv, EvictListed
          <6> QED
            BY <6>1, <6>2, <4>2, Zenon
        <5> QED
          BY <5>1, <5>2, Zenon
      <4> QED
        BY <4>1, <4>2, <1>1, Zenon DEF EvictListed, EvictLast
    <3>2. CASE w # v
      <4>1. cycle'[w] = cycle[w] /\ EvictListed(w) /\ EvictLast(w)
        BY <3>2, <2>3, Zenon DEF EvictInv
      <4>2. ASSUME cycle[w].pc \in {"files", "record"}, Evict!Group(cycle[w].entry) \notin raced
            PROVE  /\ Evict!Group(cycle[w].entry) # g
                   /\ Evict!Group(cycle[w].entry) \in Evict!Groups
        BY <4>2, <3>2, <2>8, EvictFields, Zenon DEF EvictInv, EvictTypes, Evict!WellFormed
      <4>3. EvictListed(w)'
        BY <4>1, <4>2, <1>1, <2>5, Zenon DEF EvictListed
      <4>4. EvictLast(w)'
        BY <4>1, <4>2, <1>1, <2>4, <2>5, ZenonT(40) DEF EvictLast
      <4> QED
        BY <4>3, <4>4, Zenon
    <3> QED
      BY <3>1, <3>2, Zenon
  <2> QED
    BY <2>9, <2>10, <2>11, <2>12, <2>13, <2>14, Zenon DEF EvictInv
<1> QED
  BY <1>3, <1>4, Zenon DEF Evict!DeleteFiles

\* A cycle deletes the record of its entry, or fails to.
LEMMA EvictDeletesRecord ==
  ASSUME Evict!WellFormed, EvictInv, NEW v \in Evictor, Evict!DeleteRecord(v)
  PROVE  EvictInv'
<1> DEFINE x == cycle[v].entry
<1> DEFINE g == Evict!Group(x)
<1>1. /\ clock' = clock /\ tasks' = tasks /\ raced' = raced /\ snapshots' = snapshots
      /\ cleared' = cleared /\ late' = late /\ cycle[v].pc = "record" /\ Evict!Skip(v)
  BY Zenon DEF Evict!DeleteRecord
<1>2. /\ cycle[v] \in EvictCycle /\ x \in Entry /\ x # None /\ g \in Evict!Groups
  BY <1>1, EvictFields, Zenon DEF EvictInv, Evict!WellFormed
<1> DEFINE r == [cycle[v] EXCEPT !.pc = "next", !.entry = None, !.survivors = {}]
<1>3. r \in EvictCycle /\ r.pc = "next" /\ r.entry = None /\ r.todo = cycle[v].todo
  BY <1>2, Zenon DEF EvictCycle
<1>4. cycle' = [cycle EXCEPT ![v] = r]
  BY <1>1, Zenon DEF EvictInv, EvictTypes, Evict!Skip
<1> HIDE DEF r
<1>5. /\ cycle' \in [Evictor -> EvictCycle] /\ cycle'[v] = r
      /\ \A w \in Evictor : w # v => cycle'[w] = cycle[w]
  BY <1>3, <1>4, EvictSet, Zenon DEF EvictInv
<1>6. /\ record' \in [Entry -> EvictRecords]
      /\ \A e \in Entry : e # x => record'[e] = record[e]
      /\ \/ record'[x] = None /\ torn' = torn \ {x}
         \/ record'[x] = record[x] /\ torn' = torn \cup {x}
  <2>1. None \in EvictRecords /\ record \in [Entry -> EvictRecords]
    BY Zenon DEF EvictRecords, EvictInv, EvictTypes
  <2>2. CASE record' = [record EXCEPT ![x] = None] /\ torn' = torn \ {x}
    BY <2>1, <2>2, <1>2, Zenon
  <2>3. CASE record' = record /\ torn' = torn \cup {x}
    BY <2>1, <2>3, Zenon
  <2> QED
    BY <2>2, <2>3, Zenon DEF Evict!DeleteRecord
<1>7. \A e \in Entry : record'[e] = None \/ record'[e] = record[e]
  BY <1>6, Zenon
<1>8. \A w \in Evictor : Evict!Busy(w)' \subseteq Evict!Busy(w)
  BY <1>3, <1>5, Zenon DEF Evict!Busy
<1>9. \A w \in Evictor : w # v /\ cycle[w].entry # None /\ Evict!Group(cycle[w].entry) = g => g \in raced
  BY <1>2, Zenon DEF EvictInv, EvictApart, Evict!Busy
<1>10. EvictTypes'
  BY <1>1, <1>3, <1>5, <1>6, Zenon DEF EvictInv, EvictTypes
<1>11. EvictApart'
  BY <1>1, <1>8, Zenon DEF EvictInv, EvictApart
<1>12. EvictSettled'
  <2>1. \A e \in tasks' : record'[e] = None \/ record'[e].status = "DOWNLOADING"
    <3>1. tasks \subseteq Entry
      BY Zenon DEF EvictInv, EvictTypes
    <3> QED
      BY <3>1, <1>1, <1>7, Zenon DEF EvictInv, EvictSettled
  <2>2. ASSUME NEW w \in Evictor, NEW e \in cycle'[w].todo \cup {cycle'[w].entry}, e # None
        PROVE  Evict!Group(e) \in raced' \/ record'[e] = None \/ record'[e].status = "DOWNLOADED"
    <3>1. e \in cycle[w].todo \cup {cycle[w].entry}
      BY <2>2, <1>3, <1>5, Zenon
    <3>2. e \in Entry
      BY <3>1, <2>2, EvictFields, Zenon DEF EvictInv
    <3>3. Evict!Group(e) \in raced \/ record[e] = None \/ record[e].status = "DOWNLOADED"
      BY <3>1, <2>2, Zenon DEF EvictInv, EvictSettled
    <3> QED
      BY <3>2, <3>3, <1>1, <1>7, Zenon
  <2> QED
    BY <2>1, <2>2, Zenon DEF EvictSettled, Evict!Group
<1>13. EvictWhole'
  <2> SUFFICES ASSUME NEW e \in Evict!Downloaded(record'), e \notin late, e \notin torn',
                      ~\E w \in Evictor : cycle'[w].entry = e /\ cycle'[w].pc = "record"
               PROVE  Resolved[e] \in snapshots[Evict!Group(e)]
    BY <1>1, Zenon DEF EvictWhole, Evict!Downloaded
  <2>1. e \in Entry /\ e # x /\ record'[e] = record[e] /\ e \in Evict!Downloaded(record)
    BY <1>6, Zenon DEF Evict!Downloaded
  <2>2. e \notin torn /\ ~\E w \in Evictor : cycle[w].entry = e /\ cycle[w].pc = "record"
    BY <2>1, <1>5, <1>6, Zenon
  <2> QED
    BY <2>1, <2>2, Zenon DEF EvictInv, EvictWhole
<1>14. Evict!NoOrphans'
  <2> SUFFICES ASSUME NEW h \in Evict!Groups, h \notin raced, h \notin cleared,
                      \A e \in Entry : Evict!Group(e) = h => record'[e] = None
               PROVE  snapshots[h] = {}
    BY <1>1, Zenon DEF Evict!NoOrphans
  <2>1. CASE h = g
    <3>1. \A k \in Entry : k # x /\ Evict!Group(k) = g => record[k] = None
      BY <2>1, <1>6, Zenon
    <3>2. EvictLast(v)
      BY Zenon DEF EvictInv
    <3> QED
      BY <3>1, <3>2, <2>1, <1>1, Zenon DEF EvictLast
  <2>2. CASE h # g
    <3>1. \A e \in Entry : Evict!Group(e) = h => record[e] = None
      BY <2>2, <1>6, Zenon
    <3> QED
      BY <3>1, Zenon DEF EvictInv, Evict!NoOrphans
  <2> QED
    BY <2>1, <2>2, Zenon
<1>15. ASSUME NEW w \in Evictor PROVE EvictListed(w)' /\ EvictLast(w)'
  <2>1. CASE w = v
    BY <2>1, <1>3, <1>5, Zenon DEF EvictListed, EvictLast
  <2>2. CASE w # v
    <3>1. cycle'[w] = cycle[w] /\ EvictListed(w) /\ EvictLast(w)
      BY <2>2, <1>5, Zenon DEF EvictInv
    <3>2. ASSUME cycle[w].pc \in {"files", "record"}, Evict!Group(cycle[w].entry) \notin raced
          PROVE  Evict!Group(cycle[w].entry) # g /\ cycle[w].survivors \subseteq Entry
      BY <3>2, <2>2, <1>9, EvictFields, Zenon DEF EvictInv, EvictTypes, Evict!WellFormed
    <3>3. EvictListed(w)'
      BY <3>1, <3>2, <1>1, <1>6, <1>7, Zenon DEF EvictListed
    <3>4. EvictLast(w)'
      BY <3>1, <3>2, <1>1, <1>6, Zenon DEF EvictLast
    <3> QED
      BY <3>3, <3>4, Zenon
  <2> QED
    BY <2>1, <2>2, Zenon
<1> QED
  BY <1>10, <1>11, <1>12, <1>13, <1>14, <1>15, Zenon DEF EvictInv

\* A request claims an entry.
LEMMA EvictClaimed ==
  ASSUME Evict!WellFormed, EvictInv, NEW e \in Entry, Evict!Claim(e)
  PROVE  EvictInv'
<1>1. /\ clock' = clock /\ snapshots' = snapshots /\ cycle' = cycle /\ cleared' = cleared
      /\ torn' = torn /\ tasks' = tasks \cup {e} /\ record[e] = None
  BY Zenon DEF Evict!Claim
<1>2. /\ record' \in [Entry -> EvictRecords]
      /\ \A k \in Entry : k # e => record'[k] = record[k]
      /\ record'[e] # None /\ record'[e].status = "DOWNLOADING"
  <2> DEFINE r == [status |-> "DOWNLOADING", used |-> clock]
  <2>0. clock \in Nat
    BY Zenon DEF EvictInv, EvictTypes
  <2>1. r \in EvictRecords \ {None} /\ r.status = "DOWNLOADING"
    <3>1. r \in [status : {"DOWNLOADING", "DOWNLOADED"}, used : Nat] /\ r.status = "DOWNLOADING"
      BY <2>0, Zenon
    <3> HIDE DEF r
    <3> QED
      BY <3>1, Zenon DEF EvictRecords, Evict!WellFormed
  <2>2. record' = [record EXCEPT ![e] = r]
    BY Zenon DEF Evict!Claim
  <2> HIDE DEF r
  <2> QED
    BY <2>1, <2>2, Zenon DEF EvictInv, EvictTypes
<1>3. /\ raced \subseteq raced'
      /\ \A v \in Evictor : Evict!Group(e) \in Evict!Busy(v) => Evict!Group(e) \in raced'
  BY Zenon DEF Evict!Claim, Evict!RacedBy
<1>0. /\ \A k : k # e /\ k \in late => k \in late'
      /\ Evict!Unseen(e) => e \in late'
  BY Zenon DEF Evict!Claim
<1>4. ASSUME NEW v \in Evictor, NEW k \in cycle[v].todo \cup {cycle[v].entry}, k # None
      PROVE  k \in Entry /\ Evict!Group(k) \in Evict!Busy(v)
  BY <1>4, EvictFields, Zenon DEF EvictInv, Evict!Busy
<1>5. EvictTypes'
  BY <1>1, <1>2, Zenon DEF EvictInv, EvictTypes
<1>6. EvictApart'
  BY <1>1, <1>3, ZenonT(40) DEF EvictInv, EvictApart, Evict!Busy
<1>7. EvictSettled'
  <2>1. \A k \in tasks' : record'[k] = None \/ record'[k].status = "DOWNLOADING"
    BY <1>1, <1>2, ZenonT(40) DEF EvictInv, EvictSettled, EvictTypes
  <2>2. ASSUME NEW w \in Evictor, NEW k \in cycle[w].todo \cup {cycle[w].entry}, k # None
        PROVE  Evict!Group(k) \in raced' \/ record'[k] = None \/ record'[k].status = "DOWNLOADED"
    <3>1. k \in Entry /\ Evict!Group(k) \in Evict!Busy(w)
      BY <2>2, <1>4, Zenon
    <3>2. CASE k = e
      BY <3>1, <3>2, <1>3, Zenon
    <3>3. CASE k # e
      <4>1. Evict!Group(k) \in raced \/ record[k] = None \/ record[k].status = "DOWNLOADED"
        BY <2>2, Zenon DEF EvictInv, EvictSettled
      <4> QED
        BY <4>1, <3>1, <3>3, <1>2, <1>3, Zenon
    <3> QED
      BY <3>2, <3>3, Zenon
  <2> QED
    BY <2>1, <2>2, <1>1, Zenon DEF EvictSettled, Evict!Group
<1>8. EvictWhole'
  <2>1. EvictWhole
    BY Zenon DEF EvictInv
  <2>2. ASSUME NEW k \in Evict!Downloaded(record') PROVE k \in Evict!Downloaded(record)
    BY <2>2, <1>2, Zenon DEF Evict!Downloaded
  <2> QED
    <3>1. ASSUME NEW k \in Evict!Downloaded(record') PROVE k # e
      BY <3>1, <1>2, Zenon DEF Evict!Downloaded
    <3> QED
      BY <3>1, <2>1, <2>2, <1>0, <1>1, Zenon DEF EvictWhole
<1>9. Evict!NoOrphans'
  BY <1>1, <1>2, <1>3, ZenonT(40) DEF EvictInv, Evict!NoOrphans
<1>10. ASSUME NEW w \in Evictor PROVE EvictListed(w)' /\ EvictLast(w)'
  <2>1. EvictListed(w) /\ EvictLast(w) /\ cycle[w].survivors \subseteq Entry
    BY EvictFields, Zenon DEF EvictInv
  <2>2. cycle[w].pc \in {"files", "record"} =>
          Evict!Group(cycle[w].entry) \in Evict!Busy(w)
    BY <1>4, EvictFields, Zenon DEF EvictInv, Evict!WellFormed
  <2>3. EvictListed(w)'
    <3>1. ASSUME cycle[w].pc = "files", NEW k \in Entry, k # cycle[w].entry,
                 Evict!Group(k) = Evict!Group(cycle[w].entry), record'[k] # None
          PROVE  k \in cycle[w].survivors \/ k \in late'
      <4>1. CASE k = e
        BY <3>1, <4>1, <1>0, Zenon DEF Evict!Unseen
      <4>2. CASE k # e
        BY <3>1, <4>2, <2>1, <1>0, <1>2, Zenon DEF EvictListed
      <4> QED
        BY <4>1, <4>2, Zenon
    <3>2. cycle[w].pc = "files" /\ Evict!Group(cycle[w].entry) \notin raced' \cup cleared' =>
            \A k \in cycle[w].survivors :
              k # cycle[w].entry /\ Evict!Group(k) = Evict!Group(cycle[w].entry) /\ record'[k] # None
      BY <2>1, <2>2, <1>1, <1>2, <1>3, Zenon DEF EvictListed
    <3> QED
      BY <3>1, <3>2, <1>1, ZenonT(40) DEF EvictListed
  <2>4. EvictLast(w)'
    BY <2>1, <2>2, <1>1, <1>2, <1>3, Zenon DEF EvictLast
  <2> QED
    BY <2>3, <2>4, Zenon
<1> QED
  BY <1>5, <1>6, <1>7, <1>8, <1>9, <1>10, Zenon DEF EvictInv

\* A download ends: its snapshot is there, and its record says so if it still exists.
LEMMA EvictFinished ==
  ASSUME Evict!WellFormed, EvictInv, NEW e \in Entry, Evict!FinishDownload(e)
  PROVE  EvictInv'
<1> DEFINE g == Evict!Group(e)
<1>1. /\ clock' = clock /\ cycle' = cycle /\ raced' = raced
      /\ tasks' = tasks \ {e} /\ e \in tasks /\ g \in Evict!Groups
      /\ record[e] = None \/ record[e].status = "DOWNLOADING"
  BY Zenon DEF Evict!FinishDownload, Evict!Groups, EvictInv, EvictSettled
<1>0. /\ \A k : k # e /\ k \in late \cup torn => k \in late' \cup torn'
      /\ \A k : k # e /\ k \in late => k \in late'
      /\ e \in late /\ Evict!Unseen(e) => e \in late'
  BY Zenon DEF Evict!FinishDownload
<1>2. /\ DOMAIN snapshots' = Evict!Groups
      /\ \A h \in Evict!Groups : h # g => snapshots'[h] = snapshots[h]
      /\ snapshots'[g] = snapshots[g] \cup {Resolved[e]}
  BY <1>1, Zenon DEF Evict!FinishDownload, EvictInv, EvictTypes
<1>3. /\ record' \in [Entry -> EvictRecords] /\ cleared \subseteq cleared'
      /\ \A k \in Entry : k # e => record'[k] = record[k]
      /\ \/ record[e] = None /\ record'[e] = None /\ g \in cleared'
         \/ record[e] # None /\ record'[e] # None /\ record'[e].status = "DOWNLOADED"
  <2> DEFINE r == [status |-> "DOWNLOADED", used |-> clock]
  <2>0. clock \in Nat
    BY Zenon DEF EvictInv, EvictTypes
  <2>1. r \in EvictRecords \ {None} /\ r.status = "DOWNLOADED"
    <3>1. r \in [status : {"DOWNLOADING", "DOWNLOADED"}, used : Nat] /\ r.status = "DOWNLOADED"
      BY <2>0, Zenon
    <3> HIDE DEF r
    <3> QED
      BY <3>1, Zenon DEF EvictRecords, Evict!WellFormed
  <2>2. CASE record[e] = None
    BY <2>2, Zenon DEF Evict!FinishDownload, EvictInv, EvictTypes
  <2>3. CASE record[e] # None
    <3>1. record' = [record EXCEPT ![e] = r] /\ cleared' = cleared
      BY <2>3, Zenon DEF Evict!FinishDownload
    <3> HIDE DEF r
    <3> QED
      BY <3>1, <2>1, <2>3, Zenon DEF EvictInv, EvictTypes
  <2> QED
    BY <2>2, <2>3, Zenon
<1>4. EvictTypes' /\ EvictApart'
  BY <1>1, <1>2, <1>3, ZenonT(40) DEF EvictInv, EvictTypes, EvictApart, Evict!Busy
<1>5. EvictSettled'
  <2>1. \A k \in tasks' : record'[k] = None \/ record'[k].status = "DOWNLOADING"
    BY <1>1, <1>3, ZenonT(40) DEF EvictInv, EvictSettled, EvictTypes
  <2>2. ASSUME NEW w \in Evictor, NEW k \in cycle[w].todo \cup {cycle[w].entry}, k # None
        PROVE  Evict!Group(k) \in raced \/ record'[k] = None \/ record'[k].status = "DOWNLOADED"
    <3>1. k \in Entry
      BY <2>2, EvictFields, Zenon DEF EvictInv
    <3>2. Evict!Group(k) \in raced \/ record[k] = None \/ record[k].status = "DOWNLOADED"
      BY <2>2, Zenon DEF EvictInv, EvictSettled
    <3> QED
      BY <3>1, <3>2, <1>3, Zenon
  <2> QED
    BY <2>1, <2>2, <1>1, Zenon DEF EvictSettled
<1>6. EvictWhole'
  <2> SUFFICES ASSUME NEW k \in Evict!Downloaded(record'), k \notin late', k \notin torn',
                      ~\E w \in Evictor : cycle[w].entry = k /\ cycle[w].pc = "record"
               PROVE  Resolved[k] \in snapshots'[Evict!Group(k)]
    BY <1>1, Zenon DEF EvictWhole, Evict!Downloaded
  <2>1. CASE k = e
    BY <2>1, <1>2, Zenon
  <2>2. CASE k # e
    <3>1. k \in Entry /\ k \in Evict!Downloaded(record) /\ Evict!Group(k) \in Evict!Groups
      BY <2>2, <1>3, Zenon DEF Evict!Downloaded, Evict!Groups
    <3>2. Resolved[k] \in snapshots[Evict!Group(k)]
      BY <3>1, <2>2, <1>0, <1>1, Zenon DEF EvictInv, EvictWhole
    <3> QED
      BY <3>1, <3>2, <1>2, Zenon
  <2> QED
    BY <2>1, <2>2, Zenon
<1>7. Evict!NoOrphans'
  <2> SUFFICES ASSUME NEW h \in Evict!Groups, h \notin raced, h \notin cleared',
                      \A k \in Entry : Evict!Group(k) = h => record'[k] = None
               PROVE  snapshots'[h] = {}
    BY <1>1, Zenon DEF Evict!NoOrphans
  <2>1. h # g
    BY <1>3, Zenon
  <2>2. \A k \in Entry : Evict!Group(k) = h => record[k] = None
    BY <2>1, <1>3, Zenon
  <2>3. snapshots[h] = {}
    BY <2>2, <1>3, Zenon DEF EvictInv, Evict!NoOrphans
  <2> QED
    BY <2>1, <2>3, <1>2, Zenon
<1>8. ASSUME NEW w \in Evictor PROVE EvictListed(w)' /\ EvictLast(w)'
  <2>1. /\ EvictListed(w) /\ EvictLast(w) /\ cycle[w].survivors \subseteq Entry
        /\ cycle[w].pc \in {"files", "record"} =>
             /\ cycle[w].entry \in Entry /\ cycle[w].entry # None
             /\ Evict!Group(cycle[w].entry) \in Evict!Groups
    BY EvictFields, Zenon DEF EvictInv, Evict!WellFormed
  <2>2. \A k \in Entry : record'[k] # None <=> record[k] # None
    BY <1>3, Zenon
  <2>3. EvictListed(w)'
    <3>1. ASSUME cycle[w].pc = "files", NEW k \in Entry, k # cycle[w].entry,
                 Evict!Group(k) = Evict!Group(cycle[w].entry), record'[k] # None
          PROVE  k \in cycle[w].survivors \/ k \in late'
      <4>1. k \in cycle[w].survivors \/ k \in late
        BY <3>1, <2>1, <2>2, Zenon DEF EvictListed
      <4>2. CASE k = e
        BY <3>1, <4>1, <4>2, <1>0, Zenon DEF Evict!Unseen
      <4>3. CASE k # e
        BY <4>1, <4>3, <1>0, Zenon
      <4> QED
        BY <4>2, <4>3, Zenon
    <3>2. cycle[w].pc = "files" /\ Evict!Group(cycle[w].entry) \notin raced' \cup cleared' =>
            \A k \in cycle[w].survivors :
              k # cycle[w].entry /\ Evict!Group(k) = Evict!Group(cycle[w].entry) /\ record'[k] # None
      BY <2>1, <2>2, <1>1, <1>3, Zenon DEF EvictListed
    <3> QED
      BY <3>1, <3>2, <1>1, ZenonT(40) DEF EvictListed
  <2>4. ASSUME cycle[w].pc = "record", Evict!Group(cycle[w].entry) \notin raced \cup cleared',
               \A k \in Entry : k # cycle[w].entry /\ Evict!Group(k) = Evict!Group(cycle[w].entry)
                 => record'[k] = None
        PROVE  snapshots'[Evict!Group(cycle[w].entry)] = {}
    <3>1. snapshots[Evict!Group(cycle[w].entry)] = {}
      BY <2>1, <2>2, <2>4, <1>3, Zenon DEF EvictLast
    <3>2. Evict!Group(cycle[w].entry) # g
      <4>1. CASE e = cycle[w].entry
        <5>1. record[e] = None \/ record[e].status = "DOWNLOADED"
          BY <4>1, <2>1, <2>4, Zenon DEF EvictInv, EvictSettled
        <5> QED
          BY <5>1, <4>1, <2>4, <1>1, <1>3, Zenon
      <4>2. CASE e # cycle[w].entry
        BY <4>2, <2>4, <1>3, Zenon
      <4> QED
        BY <4>1, <4>2, Zenon
    <3> QED
      BY <3>1, <3>2, <2>1, <2>4, <1>2, Zenon
  <2>5. EvictLast(w)'
    BY <2>4, <1>1, Zenon DEF EvictLast
  <2> QED
    BY <2>3, <2>5, Zenon
<1> QED
  BY <1>4, <1>5, <1>6, <1>7, <1>8, Zenon DEF EvictInv

\* A request touches an entry, records are forgotten by hand, time passes.
LEMMA EvictWorldMoves ==
  ASSUME Evict!WellFormed, EvictInv,
         \/ \E e \in Entry : Evict!Touch(e)
         \/ \E g \in Evict!Groups : Evict!DeleteModelEntries(g[1], g[2])
         \/ Evict!Tick \/ UNCHANGED Evict!vars
  PROVE  EvictInv'
<1>1. /\ snapshots' = snapshots /\ cycle' = cycle /\ torn' = torn /\ raced' = raced /\ late' = late /\ tasks' = tasks
  BY Zenon DEF Evict!Touch, Evict!DeleteModelEntries, Evict!Tick, Evict!vars
<1>2. clock' \in Nat
  BY SMT DEF Evict!Touch, Evict!DeleteModelEntries, Evict!Tick, Evict!vars, EvictInv, EvictTypes
<1>3. /\ record' \in [Entry -> EvictRecords] /\ cleared \subseteq cleared'
      /\ \A k \in Entry : \/ record'[k] = None /\ record[k] = None
                          \/ record'[k] # None /\ record[k] # None /\ record'[k].status = record[k].status
                          \/ record'[k] = None /\ Evict!Group(k) \in cleared'
  <2>0. record \in [Entry -> EvictRecords] /\ clock \in Nat
    BY Zenon DEF EvictInv, EvictTypes
  <2>1. ASSUME NEW e \in Entry, Evict!Touch(e) PROVE <1>3!:
    <3> DEFINE r == [record[e] EXCEPT !.used = clock]
    <3>1. record[e] # None /\ record[e] \in [status : {"DOWNLOADING", "DOWNLOADED"}, used : Nat]
      BY <2>0, <2>1, Zenon DEF Evict!Touch, Evict!Downloaded, EvictRecords
    <3>2. r \in EvictRecords /\ r # None /\ r.status = record[e].status
      BY <3>1, <2>0, Zenon DEF EvictRecords, Evict!WellFormed
    <3>3. record' = [record EXCEPT ![e] = r] /\ cleared' = cleared
      BY <2>1, <2>0, Zenon DEF Evict!Touch
    <3> HIDE DEF r
    <3> QED
      BY <3>1, <3>2, <3>3, <2>0, Zenon
  <2>2. ASSUME NEW g \in Evict!Groups, Evict!DeleteModelEntries(g[1], g[2]) PROVE <1>3!:
    <3> DEFINE gone == {e \in Entry : Evict!belongs_to(e, g[1], g[2]) /\ record[e] # None}
    <3>1. /\ record' = [e \in Entry |-> IF e \in gone THEN None ELSE record[e]]
          /\ cleared' = cleared \cup {<<g[1], g[2]>>}
      BY <2>2, Zenon DEF Evict!DeleteModelEntries
    <3>2. \A k \in gone : Evict!Group(k) \in cleared'
      BY <3>1, Zenon DEF Evict!belongs_to, Evict!Group
    <3>3. None \in EvictRecords
      BY Zenon DEF EvictRecords
    <3> HIDE DEF gone
    <3> QED
      BY <3>1, <3>2, <3>3, <2>0, Zenon
  <2>3. CASE Evict!Tick \/ UNCHANGED Evict!vars
    <3>1. record' = record /\ cleared' = cleared
      BY <2>3, Zenon DEF Evict!Tick, Evict!vars
    <3> QED
      BY <3>1, <2>0, Zenon
  <2> QED
    BY <2>1, <2>2, <2>3, Zenon
<1>4. EvictTypes' /\ EvictApart'
  BY <1>1, <1>2, <1>3, ZenonT(40) DEF EvictInv, EvictTypes, EvictApart, Evict!Busy
<1>5. EvictSettled'
  <2>1. \A k \in tasks' : record'[k] = None \/ record'[k].status = "DOWNLOADING"
    BY <1>1, <1>3, Zenon DEF EvictInv, EvictSettled, EvictTypes
  <2>2. ASSUME NEW w \in Evictor, NEW k \in cycle[w].todo \cup {cycle[w].entry}, k # None
        PROVE  Evict!Group(k) \in raced \/ record'[k] = None \/ record'[k].status = "DOWNLOADED"
    <3>1. k \in Entry
      BY <2>2, EvictFields, Zenon DEF EvictInv
    <3>2. Evict!Group(k) \in raced \/ record[k] = None \/ record[k].status = "DOWNLOADED"
      BY <2>2, Zenon DEF EvictInv, EvictSettled
    <3> QED
      BY <3>1, <3>2, <1>3, Zenon
  <2> QED
    BY <2>1, <2>2, <1>1, Zenon DEF EvictSettled
<1>6. EvictWhole'
  BY <1>1, <1>3, Zenon DEF EvictInv, EvictWhole, Evict!Downloaded
<1>7. Evict!NoOrphans'
  <2> SUFFICES ASSUME NEW h \in Evict!Groups, h \notin raced, h \notin cleared',
                      \A k \in Entry : Evict!Group(k) = h => record'[k] = None
               PROVE  snapshots[h] = {}
    BY <1>1, Zenon DEF Evict!NoOrphans
  <2>1. \A k \in Entry : Evict!Group(k) = h => record[k] = None
    BY <1>3, Zenon
  <2> QED
    BY <2>1, <1>3, Zenon DEF EvictInv, Evict!NoOrphans
<1>8. ASSUME NEW w \in Evictor PROVE EvictListed(w)' /\ EvictLast(w)'
  <2>1. EvictListed(w) /\ EvictLast(w) /\ cycle[w].survivors \subseteq Entry
    BY EvictFields, Zenon DEF EvictInv
  <2>2. \A k \in Entry : record'[k] # None => record[k] # None
    BY <1>3, Zenon
  <2>3. \A k \in Entry : Evict!Group(k) \notin cleared' /\ record[k] # None => record'[k] # None
    BY <1>3, Zenon
  <2>4. EvictListed(w)'
    BY <2>1, <2>2, <2>3, <1>1, <1>3, Zenon DEF EvictListed
  <2>5. EvictLast(w)'
    <3> SUFFICES ASSUME cycle[w].pc = "record", Evict!Group(cycle[w].entry) \notin raced \cup cleared',
                        \A k \in Entry : k # cycle[w].entry /\ Evict!Group(k) = Evict!Group(cycle[w].entry)
                          => record'[k] = None
                 PROVE  snapshots[Evict!Group(cycle[w].entry)] = {}
      BY <1>1, Zenon DEF EvictLast
    <3>1. \A k \in Entry : k # cycle[w].entry /\ Evict!Group(k) = Evict!Group(cycle[w].entry)
            => record[k] = None
      BY <2>3, Zenon
    <3> QED
      BY <3>1, <2>1, <1>3, Zenon DEF EvictLast
  <2> QED
    BY <2>4, <2>5, Zenon
<1> QED
  BY <1>4, <1>5, <1>6, <1>7, <1>8, Zenon DEF EvictInv

\* Every state of the evictions has the invariant.
LEMMA EvictInvariance == ASSUME Evict!WellFormed PROVE Evict!Spec => []EvictInv
<1>1. Evict!Init => EvictInv
  <2> SUFFICES ASSUME Evict!Init PROVE EvictInv
    BY Zenon
  <2>1. /\ clock \in Nat /\ record = [e \in Entry |-> None] /\ snapshots = [g \in Evict!Groups |-> {}]
        /\ tasks = {} /\ cycle = [v \in Evictor |-> Evict!Idle]
    BY SMT DEF Evict!Init
  <2>2. /\ Evict!Idle \in EvictCycle /\ Evict!Idle.pc = "idle" /\ Evict!Idle.todo = {}
        /\ Evict!Idle.entry = None
    BY Zenon DEF Evict!Idle, EvictCycle
  <2>3. \A v \in Evictor : cycle[v] = Evict!Idle
    BY <2>1, Zenon
  <2>4. EvictTypes
    BY <2>1, <2>2, <2>3, Zenon DEF EvictTypes, EvictRecords
  <2>5. EvictApart
    BY <2>2, <2>3, Zenon DEF EvictApart, Evict!Busy
  <2>6. EvictSettled
    BY <2>1, <2>2, <2>3, Zenon DEF EvictSettled
  <2>7. EvictWhole /\ Evict!NoOrphans
    BY <2>1, Zenon DEF EvictWhole, Evict!NoOrphans, Evict!Downloaded
  <2>8. \A v \in Evictor : EvictListed(v) /\ EvictLast(v)
    BY <2>2, <2>3, Zenon DEF EvictListed, EvictLast
  <2> QED
    BY <2>4, <2>5, <2>6, <2>7, <2>8, Zenon DEF EvictInv
<1>2. EvictInv /\ [Evict!Next]_(Evict!vars) => EvictInv'
  <2> SUFFICES ASSUME EvictInv, [Evict!Next]_(Evict!vars) PROVE EvictInv'
    BY Zenon
  <2>1. ASSUME NEW v \in Evictor, Evict!EvictStep(v) PROVE EvictInv'
    BY <2>1, EvictBegins, EvictLooks, EvictDeletesFiles, EvictDeletesRecord, Zenon DEF Evict!EvictStep
  <2>2. ASSUME NEW e \in Entry, Evict!Claim(e) \/ Evict!FinishDownload(e) PROVE EvictInv'
    BY <2>2, EvictClaimed, EvictFinished, Zenon
  <2> QED
    BY <2>1, <2>2, EvictWorldMoves, Zenon DEF Evict!Next
<1> QED
  BY <1>1, <1>2, PTL DEF Evict!Spec

\* A downloaded entry has its snapshot whatever entries of its model any number of
\* replicas evict and whatever is claimed meanwhile, unless it was itself claimed after
\* the listing and finished before the deletion of a cycle, or the last call of its own
\* eviction failed (cache.rs, evict_model).
THEOREM EvictionSparesSurvivors == Evict!WellFormed /\ Evict!Spec => []Evict!SurvivorsWhole
<1> SUFFICES ASSUME Evict!WellFormed PROVE Evict!Spec => []Evict!SurvivorsWhole
  BY Zenon
<1>0. Evict!Spec => []EvictInv
  BY EvictInvariance, Zenon
<1>1. EvictInv => Evict!SurvivorsWhole
  BY Zenon DEF EvictInv, EvictWhole, Evict!SurvivorsWhole
<1> QED
  BY <1>0, <1>1, PTL

\* The snapshots of a model go with its last record: an eviction that keeps shared files
\* leaves them to an entry that takes them, unless records were forgotten by hand or two
\* parties met on the model (cache.rs, snapshot_still_referenced).
THEOREM EvictionLeavesNoOrphans == Evict!WellFormed /\ Evict!Spec => []Evict!NoOrphans
<1> SUFFICES ASSUME Evict!WellFormed PROVE Evict!Spec => []Evict!NoOrphans
  BY Zenon
<1>0. Evict!Spec => []EvictInv
  BY EvictInvariance, Zenon
<1>1. EvictInv => Evict!NoOrphans
  BY Zenon DEF EvictInv
<1> QED
  BY <1>0, <1>1, PTL
-----------------------------------------------------------------------------
(* The Hugging Face cache: snapshots are of one commit, and a deletion that *)
(* nothing overlaps spares the others.                                      *)

Hub == INSTANCE HuggingFaceCache

HubDownload ==
  [pc : {"start", "files", "link", "ok", "failed"}, sha : Commit \cup {None}, todo : SUBSET File,
   file : File \cup {None}, got : BOOLEAN, local : BOOLEAN]
HubDeletion ==
  [pc : {"start", "refs", "look", "repo", "scan", "sweep", "done"}, commit : Commit \cup Branch \cup {None},
   seen : SUBSET Hub!Content, keep : SUBSET Hub!Content]

HubTypes ==
  /\ head \in [Branch -> Commit]
  /\ refs \in [Branch \cup Commit -> Commit \cup {None}]
  /\ snapshot \in [Commit -> [File -> Hub!Slot] \cup {None}]
  /\ blobs \subseteq Hub!Content
  /\ dl \in [Download -> HubDownload] /\ del \in [Deletion -> HubDeletion]
  /\ \A d \in Download :
       /\ dl[d].pc \in {"files", "link", "ok"} => dl[d].sha \in Commit
       /\ dl[d].pc = "link" => dl[d].file \in File
       /\ dl[d].pc \in {"files", "link"} => dl[d].local = FALSE

\* A snapshot holds files of its commit, and there is none without the directory.
HubOwn ==
  /\ \A c \in Commit, f \in File :
       snapshot[c] # None /\ snapshot[c][f] # None => snapshot[c][f].content = BlobOf[c][f]
  /\ ~made => \A c \in Commit : snapshot[c] = None

\* The file f of commit c is cached.
HubHas(S, B, c, f) ==
  S[c] # None /\ S[c][f] # None /\ (S[c][f].kind = "copy" \/ S[c][f].content \in B)

\* The blob b is written and about to be linked.
HubPending(b) == \E d \in Download : dl[d].pc = "link" /\ b = BlobOf[dl[d].sha][dl[d].file]

HubLinks(b) ==
  \E c \in Commit, f \in File :
    snapshot[c] # None /\ snapshot[c][f] # None /\ snapshot[c][f].kind = "link" /\ snapshot[c][f].content = b

\* Until a deletion begins nothing that was fetched goes away.
HubFresh ==
  (\A e \in Deletion : del[e].pc = "start") =>
    /\ \A d \in Download : dl[d].pc \in {"files", "link", "ok"} /\ (dl[d].local => Wants[d] \in Branch) =>
         \A f \in (File \ Empty) \ dl[d].todo : (dl[d].pc = "link" /\ f = dl[d].file) \/ HubHas(snapshot, blobs, dl[d].sha, f)
    /\ \A d \in Download : dl[d].pc = "ok" => dl[d].todo = {}
    /\ \A d \in Download : dl[d].pc = "link" => BlobOf[dl[d].sha][dl[d].file] \in blobs
    /\ \A r \in Branch \cup Commit : refs[r] # None => \A f \in File \ Empty : HubHas(snapshot, blobs, refs[r], f)

HubCalm ==
  ~overlap /\ (\A e \in Deletion : Target[e] = "listed" => del[e].pc = "start")

\* While deletions and downloads keep apart: one deletion at a time, no broken link, no ref
\* without its snapshot but those a deletion is about to drop, and no blob that is neither
\* linked nor about to be, but those a deletion is about to sweep.
HubApart ==
  /\ Hub!Downloading = {} \/ Hub!Deleting = {}
  /\ \A e, g \in Hub!Deleting : e = g
HubSound ==
  /\ \A b : HubLinks(b) => b \in blobs
  /\ \A d \in Hub!Downloading : dl[d].got => snapshot[dl[d].sha] # None
  /\ \A d \in Download : dl[d].pc = "link" => BlobOf[dl[d].sha][dl[d].file] \in blobs
HubRefs ==
  \A r \in (Branch \cup Commit) \ Slashed : refs[r] # None =>
    snapshot[refs[r]] # None \/ \E e \in Deletion : del[e].pc = "refs" /\ del[e].commit = refs[r]
HubBlobs ==
  /\ Hub!Deleting = {} => \A b \in blobs : HubLinks(b) \/ HubPending(b)
  /\ ~made => \A b \in blobs : HubPending(b)
  /\ \A e \in Deletion : del[e].pc = "sweep" =>
       del[e].seen = blobs /\ \A b \in blobs : b \in del[e].keep <=> HubLinks(b)

HubInv ==
  /\ HubTypes /\ HubOwn /\ HubFresh
  /\ HubCalm => HubApart /\ HubSound /\ HubRefs /\ HubBlobs

\* None is told apart from revisions, files and directories.
LEMMA HubConstants ==
  ASSUME Hub!WellFormed
  PROVE  /\ None \notin Commit /\ None \notin Branch /\ None \notin File /\ Default \in Branch
         /\ \A r \in Branch : r \notin Commit
         /\ \A d \in Download : Wants[d] \in Branch \cup Commit \cup {None}
         /\ None \notin [File -> Hub!Slot] /\ Hub!NoFiles \in [File -> Hub!Slot] /\ Hub!NoFiles # None
         /\ \A f \in File : Hub!NoFiles[f] = None
<1>1. /\ None \notin Commit /\ None \notin Branch /\ None \notin File /\ Default \in Branch
      /\ \A r \in Branch : r \notin Commit
      /\ \A d \in Download : Wants[d] \in Branch \cup Commit \cup {None}
      /\ None \notin [File -> Hub!Slot]
  BY Zenon DEF Hub!WellFormed, Hub!Revision
<1>2. Hub!NoFiles \in [File -> Hub!Slot] /\ \A f \in File : Hub!NoFiles[f] = None
  BY Zenon DEF Hub!NoFiles, Hub!Slot
<1> QED
  BY <1>1, <1>2, Zenon

\* Links and copies of a file are entries that hold its content.
LEMMA HubEntries ==
  ASSUME Hub!WellFormed, NEW c \in Commit, NEW f \in File
  PROVE  /\ BlobOf[c][f] \in Hub!Content
         /\ LET x == Hub!Link(BlobOf[c][f]) IN
              x \in Hub!Slot /\ x # None /\ x.kind = "link" /\ x.content = BlobOf[c][f]
         /\ LET x == Hub!Copy(BlobOf[c][f]) IN
              x \in Hub!Slot /\ x # None /\ x.kind = "copy" /\ x.content = BlobOf[c][f]
<1>1. BlobOf[c][f] \in Hub!Content
  <2>1. BlobOf[c][f] \in {BlobOf[c][g] : g \in File}
    BY Zenon
  <2> QED
    BY <2>1, Zenon DEF Hub!Content
<1>2. /\ Hub!Link(BlobOf[c][f]) \in [kind : {"link", "copy"}, content : Hub!Content]
      /\ Hub!Copy(BlobOf[c][f]) \in [kind : {"link", "copy"}, content : Hub!Content]
  BY <1>1, Zenon DEF Hub!Link, Hub!Copy
<1>3. /\ Hub!Link(BlobOf[c][f]).kind = "link" /\ Hub!Link(BlobOf[c][f]).content = BlobOf[c][f]
      /\ Hub!Copy(BlobOf[c][f]).kind = "copy" /\ Hub!Copy(BlobOf[c][f]).content = BlobOf[c][f]
  BY Zenon DEF Hub!Link, Hub!Copy
<1> QED
  BY <1>1, <1>2, <1>3, Zenon DEF Hub!WellFormed, Hub!Slot

\* Records of downloads and deletions, one replaced.
LEMMA HubSet ==
  ASSUME dl \in [Download -> HubDownload], NEW d \in Download, NEW r \in HubDownload,
         dl' = [dl EXCEPT ![d] = r]
  PROVE  /\ dl' \in [Download -> HubDownload] /\ dl'[d] = r
         /\ \A x \in Download : x # d => dl'[x] = dl[x]
  BY Zenon

\* Only the record of the deletion that moves changes.
LEMMA HubSetDeletion ==
  ASSUME del \in [Deletion -> HubDeletion], NEW e \in Deletion, NEW q \in HubDeletion,
         del' = [del EXCEPT ![e] = q]
  PROVE  /\ del' \in [Deletion -> HubDeletion] /\ del'[e] = q
         /\ \A x \in Deletion : x # e => del'[x] = del[x]
  BY Zenon

\* The records of a download that has not begun and of one that failed.
LEMMA HubFailed ==
  /\ Hub!Idle \in HubDownload /\ Hub!Idle.pc = "start"
  /\ [Hub!Idle EXCEPT !.pc = "failed"] \in HubDownload
  /\ [Hub!Idle EXCEPT !.pc = "failed"].pc = "failed"
<1>1. Hub!Idle \in HubDownload /\ Hub!Idle.pc = "start"
  BY Zenon DEF Hub!Idle, HubDownload
<1>2. [Hub!Idle EXCEPT !.pc = "failed"] \in HubDownload
  BY <1>1, Zenon DEF HubDownload
<1>3. [Hub!Idle EXCEPT !.pc = "failed"].pc = "failed"
  BY Zenon DEF Hub!Idle
<1> QED
  BY <1>1, <1>2, <1>3, Zenon

\* reclaim_unreferenced_blobs collects exactly the blobs some snapshot links to.
LEMMA HubLinkedBy == ASSUME NEW b PROVE b \in Hub!Linked <=> HubLinks(b)
<1>1. ASSUME NEW c \in Commit
      PROVE  b \in Hub!LinkedBy(c) <=>
               snapshot[c] # None /\ \E f \in File :
                 snapshot[c][f] # None /\ snapshot[c][f].kind = "link" /\ snapshot[c][f].content = b
  BY Zenon DEF Hub!LinkedBy
<1> QED
  BY <1>1, Zenon DEF Hub!Linked, HubLinks

\* A download starts, skips a file, fails or ends: only its own record changes.
LEMMA HubTakes ==
  ASSUME HubInv, NEW d \in Download, NEW r \in HubDownload, dl' = [dl EXCEPT ![d] = r],
         UNCHANGED <<head, snapshot, blobs, refs, made, del>>,
         dl[d].pc # "link", r.pc # "link", r.pc \in {"files", "ok"} => r.sha \in Commit,
         r.pc = "ok" => r.todo = {}, r.pc = "files" => r.local = FALSE,
         HubFresh /\ (\A e \in Deletion : del[e].pc = "start") /\ r.pc \in {"files", "ok"} /\ (r.local => Wants[d] \in Branch) =>
           \A f \in (File \ Empty) \ r.todo : HubHas(snapshot, blobs, r.sha, f),
         ~overlap' => ~overlap,
         HubCalm' /\ r.pc = "files" =>
           Hub!Deleting = {} /\ (r.got => snapshot[r.sha] # None)
  PROVE  HubInv'
<1>1. /\ dl' \in [Download -> HubDownload] /\ dl'[d] = r
      /\ \A x \in Download : x # d => dl'[x] = dl[x]
  BY HubSet, Zenon DEF HubInv, HubTypes
<1>2. HubTypes' /\ HubOwn'
  BY <1>1, ZenonT(40) DEF HubInv, HubTypes, HubOwn
<1>4. HubFresh'
  <2> SUFFICES ASSUME \A e \in Deletion : del'[e].pc = "start"
               PROVE  /\ \A x \in Download : dl'[x].pc \in {"files", "link", "ok"} /\ (dl'[x].local => Wants[x] \in Branch) =>
                           \A f \in (File \ Empty) \ dl'[x].todo :
                             (dl'[x].pc = "link" /\ f = dl'[x].file) \/ HubHas(snapshot', blobs', dl'[x].sha, f)
                      /\ \A x \in Download : dl'[x].pc = "ok" => dl'[x].todo = {}
                      /\ \A x \in Download : dl'[x].pc = "link" => BlobOf[dl'[x].sha][dl'[x].file] \in blobs'
                      /\ \A s \in Branch \cup Commit : refs'[s] # None => \A f \in File \ Empty : HubHas(snapshot', blobs', refs'[s], f)
    BY Zenon DEF HubFresh
  <2>1. /\ \A s \in Branch \cup Commit : refs[s] \in Commit \cup {None}
        /\ \A x \in Download : dl[x].pc \in {"files", "link", "ok"} => dl[x].sha \in Commit
    BY Zenon DEF HubInv, HubTypes
  <2>2. ASSUME NEW x \in Download, dl'[x].pc \in {"files", "link", "ok"}, dl'[x].local => Wants[x] \in Branch,
               NEW f \in (File \ Empty) \ dl'[x].todo
        PROVE  (dl'[x].pc = "link" /\ f = dl'[x].file) \/ HubHas(snapshot', blobs', dl'[x].sha, f)
    <3>1. CASE x = d
      BY <1>1, <2>2, <3>1, Zenon DEF HubInv
    <3>2. CASE x # d
      BY <1>1, <2>1, <2>2, <3>2, Zenon DEF HubInv, HubFresh
    <3> QED
      BY <3>1, <3>2, Zenon
  <2>3. ASSUME NEW s \in Branch \cup Commit, refs[s] # None, NEW f \in File \ Empty PROVE HubHas(snapshot', blobs', refs'[s], f)
    BY <2>1, <2>3, Zenon DEF HubInv, HubFresh
  <2>4. /\ \A x \in Download : dl'[x].pc = "ok" => dl'[x].todo = {}
        /\ \A x \in Download : dl'[x].pc = "link" => BlobOf[dl'[x].sha][dl'[x].file] \in blobs
    BY <1>1, Zenon DEF HubInv, HubFresh
  <2> QED
    BY <2>2, <2>3, <2>4, Zenon
<1>5. ASSUME HubCalm' PROVE HubApart' /\ HubSound' /\ HubRefs' /\ HubBlobs'
  <2>1. HubCalm /\ HubApart /\ HubSound /\ HubRefs /\ HubBlobs
    BY <1>5, Zenon DEF HubInv, HubCalm
  <2>2. /\ Hub!Deleting' = Hub!Deleting
        /\ Hub!Downloading' \subseteq Hub!Downloading \cup {d}
        /\ d \in Hub!Downloading' => r.pc = "files"
    BY <1>1, Zenon DEF Hub!Deleting, Hub!Downloading
  <2>3. HubApart'
    BY <1>5, <2>1, <2>2, Zenon DEF HubApart
  <2>4. \A b : HubLinks(b)' <=> HubLinks(b)
    BY Zenon DEF HubLinks
  <2>5. \A b : HubPending(b)' <=> HubPending(b)
    BY <1>1, Zenon DEF HubPending
  <2>6. HubSound'
    <3>1. ASSUME NEW x \in Hub!Downloading', dl'[x].got PROVE snapshot'[dl'[x].sha] # None
      <4>1. x \in Download
        BY <3>1, Zenon DEF Hub!Downloading
      <4>2. CASE x = d
        BY <1>1, <1>5, <2>2, <3>1, <4>2, Zenon
      <4>3. CASE x # d
        BY <1>1, <2>1, <2>2, <3>1, <4>1, <4>3, ZenonT(40) DEF HubSound
      <4> QED
        BY <4>2, <4>3, Zenon
    <3>2. \A x \in Download : dl'[x].pc = "link" => BlobOf[dl'[x].sha][dl'[x].file] \in blobs
      BY <1>1, <2>1, Zenon DEF HubSound
    <3> QED
      BY <3>1, <3>2, <2>1, <2>4, Zenon DEF HubSound
  <2>7. HubRefs' /\ HubBlobs'
    BY <2>1, <2>2, <2>4, <2>5, Zenon DEF HubRefs, HubBlobs
  <2> QED
    BY <2>3, <2>6, <2>7, Zenon
<1> QED
  BY <1>2, <1>4, <1>5, Zenon DEF HubInv

\* What Resolves says of a snapshot's entry.
LEMMA HubResolves ==
  ASSUME NEW c, NEW f
  PROVE  (snapshot[c] # None /\ Hub!Resolves(snapshot[c][f])) <=> HubHas(snapshot, blobs, c, f)
  BY Zenon DEF HubHas, Hub!Resolves

\* Fields of a download's record.
LEMMA HubGot ==
  ASSUME NEW x \in HubDownload, NEW r, r = [x EXCEPT !.got = TRUE]
  PROVE  /\ r \in HubDownload /\ r.pc = x.pc /\ r.sha = x.sha /\ r.todo = x.todo
         /\ r.file = x.file /\ r.got = TRUE /\ r.local = x.local
  BY Zenon DEF HubDownload

\* A download that fails forgets what it did.
LEMMA HubGivesUp ==
  ASSUME HubInv, NEW d \in Download, Hub!Failed(d), dl[d].pc # "link",
         UNCHANGED <<head, snapshot, blobs, refs, made, del>>, ~overlap' => ~overlap
  PROVE  HubInv'
<1> DEFINE r == [Hub!Idle EXCEPT !.pc = "failed"]
<1>1. r \in HubDownload /\ r.pc = "failed" /\ dl' = [dl EXCEPT ![d] = r]
  BY HubFailed, Zenon DEF Hub!Failed
<1> HIDE DEF r
<1> QED
  BY <1>1, HubTakes, Zenon

\* A download resolves its revision, at the hub or offline.
LEMMA HubStartMoves ==
  ASSUME Hub!WellFormed, HubInv, NEW d \in Download, Hub!Resolve(d)
  PROVE  HubInv'
<1>1. /\ dl[d].pc = "start" /\ overlap' = (overlap \/ Hub!Deleting # {})
      /\ UNCHANGED <<head, snapshot, blobs, refs, made, del>>
  BY Zenon DEF Hub!Resolve, Hub!cacheVars
<1>2. CASE Hub!Failed(d)
  BY <1>1, <1>2, HubGivesUp, Zenon
<1>3. ASSUME NEW sha, sha = (IF Hub!Asked(d) \in Branch THEN head[Hub!Asked(d)] ELSE Hub!Asked(d)),
             dl' = [dl EXCEPT ![d] = [Hub!Idle EXCEPT !.pc = "files", !.sha = sha, !.todo = File]]
      PROVE  HubInv'
  <2>1. sha \in Commit
    BY <1>3, HubConstants, Zenon DEF Hub!Asked, HubInv, HubTypes
  <2> DEFINE r == [Hub!Idle EXCEPT !.pc = "files", !.sha = sha, !.todo = File]
  <2>2. r \in HubDownload
    BY <2>1, HubFailed, Zenon DEF HubDownload
  <2>3. r.pc = "files" /\ r.sha = sha /\ r.todo = File /\ r.got = FALSE /\ r.local = FALSE
    BY Zenon DEF Hub!Idle
  <2>4. dl' = [dl EXCEPT ![d] = r]
    BY <1>3, Zenon
  <2> HIDE DEF r
  <2>5. \A f \in (File \ Empty) \ r.todo : HubHas(snapshot, blobs, r.sha, f)
    BY <2>3, Zenon
  <2>6. HubCalm' => Hub!Deleting = {}
    BY <1>1, Zenon DEF HubCalm
  <2> QED
    BY <1>1, <2>1, <2>2, <2>3, <2>4, <2>5, <2>6, HubTakes, ZenonT(40)
<1>4. ASSUME NEW sha, sha = Hub!resolve_revision_offline(Wants[d]), sha # None,
             dl' = [dl EXCEPT ![d] = [Hub!Idle EXCEPT !.pc = "ok", !.sha = sha, !.local = TRUE]]
      PROVE  HubInv'
  <2>1. sha \in Commit /\ (Wants[d] \in Branch => refs[Wants[d]] = sha)
    <3>1. sha \in Commit
      BY <1>4, Zenon DEF Hub!resolve_revision_offline
    <3>2. Wants[d] \in Branch => sha = Hub!local_commit_for_revision(Wants[d])
      BY <1>4, HubConstants, Zenon DEF Hub!resolve_revision_offline
    <3>3. Wants[d] \in Branch => sha = refs[Wants[d]]
      BY <3>1, <3>2, HubConstants, Zenon DEF Hub!local_commit_for_revision
    <3> QED
      BY <3>1, <3>3, Zenon
  <2> DEFINE r == [Hub!Idle EXCEPT !.pc = "ok", !.sha = sha, !.local = TRUE]
  <2>2. r \in HubDownload
    BY <2>1, HubFailed, Zenon DEF HubDownload
  <2>3. r.pc = "ok" /\ r.sha = sha /\ r.todo = {} /\ r.local = TRUE
    BY Zenon DEF Hub!Idle
  <2>4. dl' = [dl EXCEPT ![d] = r]
    BY <1>4, Zenon
  <2> HIDE DEF r
  <2>5. HubFresh /\ (\A e \in Deletion : del[e].pc = "start") /\ Wants[d] \in Branch =>
          \A f \in (File \ Empty) \ r.todo : HubHas(snapshot, blobs, r.sha, f)
    BY <1>4, <2>1, <2>3, Zenon DEF HubFresh
  <2> QED
    BY <1>1, <2>1, <2>2, <2>3, <2>4, <2>5, HubTakes, ZenonT(40)
<1> QED
  BY <1>2, <1>3, <1>4, Zenon DEF Hub!Resolve

\* A blob is written, to be linked.
LEMMA HubWrites ==
  ASSUME Hub!WellFormed, HubInv, NEW d \in Download, NEW f \in File, NEW r \in HubDownload, dl' = [dl EXCEPT ![d] = r],
         dl[d].pc = "files", r.pc = "link", r.file = f, r.sha = dl[d].sha, r.todo = dl[d].todo \ {f},
         r.got = dl[d].got, r.local = dl[d].local, blobs' = blobs \cup {BlobOf[dl[d].sha][f]},
         UNCHANGED <<head, snapshot, refs, made, del, overlap>>
  PROVE  HubInv'
<1>1. /\ dl' \in [Download -> HubDownload] /\ dl'[d] = r
      /\ \A x \in Download : x # d => dl'[x] = dl[x]
  BY HubSet, Zenon DEF HubInv, HubTypes
<1>2. dl[d].sha \in Commit /\ BlobOf[dl[d].sha][f] \in Hub!Content
  BY HubEntries, Zenon DEF HubInv, HubTypes
<1>3. HubTypes' /\ HubOwn'
  BY <1>1, <1>2, ZenonT(40) DEF HubInv, HubTypes, HubOwn
<1>4. \A c, g : HubHas(snapshot, blobs, c, g) => HubHas(snapshot', blobs', c, g)
  BY Zenon DEF HubHas
<1>5. HubFresh'
  <2> SUFFICES ASSUME \A e \in Deletion : del'[e].pc = "start"
               PROVE  /\ \A x \in Download : dl'[x].pc \in {"files", "link", "ok"} /\ (dl'[x].local => Wants[x] \in Branch) =>
                           \A g \in (File \ Empty) \ dl'[x].todo :
                             (dl'[x].pc = "link" /\ g = dl'[x].file) \/ HubHas(snapshot', blobs', dl'[x].sha, g)
                      /\ \A x \in Download : dl'[x].pc = "ok" => dl'[x].todo = {}
                      /\ \A x \in Download : dl'[x].pc = "link" => BlobOf[dl'[x].sha][dl'[x].file] \in blobs'
                      /\ \A s \in Branch \cup Commit : refs'[s] # None => \A g \in File \ Empty : HubHas(snapshot', blobs', refs'[s], g)
    BY Zenon DEF HubFresh
  <2>1. ASSUME NEW x \in Download, dl'[x].pc \in {"files", "link", "ok"}, dl'[x].local => Wants[x] \in Branch,
               NEW g \in (File \ Empty) \ dl'[x].todo
        PROVE  (dl'[x].pc = "link" /\ g = dl'[x].file) \/ HubHas(snapshot', blobs', dl'[x].sha, g)
    <3>1. CASE x = d
      BY <1>1, <1>4, <2>1, <3>1, Zenon DEF HubInv, HubFresh
    <3>2. CASE x # d
      BY <1>1, <1>4, <2>1, <3>2, Zenon DEF HubInv, HubFresh
    <3> QED
      BY <3>1, <3>2, Zenon
  <2>2. ASSUME NEW s \in Branch \cup Commit, refs'[s] # None, NEW g \in File \ Empty PROVE HubHas(snapshot', blobs', refs'[s], g)
    BY <1>4, <2>2, Zenon DEF HubInv, HubFresh
  <2>3. /\ \A x \in Download : dl'[x].pc = "ok" => dl'[x].todo = {}
        /\ \A x \in Download : dl'[x].pc = "link" => BlobOf[dl'[x].sha][dl'[x].file] \in blobs'
    BY <1>1, ZenonT(40) DEF HubInv, HubFresh
  <2> QED
    BY <2>1, <2>2, <2>3, Zenon
<1>6. ASSUME HubCalm' PROVE HubApart' /\ HubSound' /\ HubRefs' /\ HubBlobs'
  <2>1. HubCalm /\ HubApart /\ HubSound /\ HubRefs /\ HubBlobs
    BY <1>6, Zenon DEF HubInv, HubCalm
  <2>2. Hub!Deleting' = Hub!Deleting /\ Hub!Downloading' = Hub!Downloading /\ d \in Hub!Downloading
    BY <1>1, Zenon DEF Hub!Deleting, Hub!Downloading
  <2>3. Hub!Deleting = {}
    BY <2>1, <2>2, Zenon DEF HubApart
  <2>4. HubApart'
    BY <2>1, <2>2, Zenon DEF HubApart
  <2>5. \A b : HubLinks(b)' <=> HubLinks(b)
    BY Zenon DEF HubLinks
  <2>6. /\ \A b : HubPending(b) => HubPending(b)'
        /\ \A b : b = BlobOf[dl[d].sha][f] => HubPending(b)'
    BY <1>1, Zenon DEF HubPending
  <2>7. HubSound'
    <3>1. \A x \in Hub!Downloading' : dl'[x].got => snapshot'[dl'[x].sha] # None
      <4> SUFFICES ASSUME NEW x \in Hub!Downloading, dl'[x].got PROVE snapshot'[dl'[x].sha] # None
        BY <2>2, Zenon
      <4>1. x \in Download
        BY Zenon DEF Hub!Downloading
      <4>2. dl'[x].got = dl[x].got /\ dl'[x].sha = dl[x].sha
        BY <1>1, <4>1, Zenon
      <4> QED
        BY <4>2, <2>1, Zenon DEF HubSound
    <3>2. \A x \in Download : dl'[x].pc = "link" => BlobOf[dl'[x].sha][dl'[x].file] \in blobs'
      BY <1>1, <2>1, Zenon DEF HubSound
    <3> QED
      BY <3>1, <3>2, <2>1, <2>5, Zenon DEF HubSound
  <2>8. HubRefs'
    BY <2>1, Zenon DEF HubRefs
  <2>9. HubBlobs'
    <3>1. \A b \in blobs' : HubLinks(b)' \/ HubPending(b)'
      BY <2>1, <2>3, <2>5, <2>6, Zenon DEF HubBlobs
    <3>2. ~made => \A b \in blobs' : HubPending(b)'
      BY <2>1, <2>6, Zenon DEF HubBlobs
    <3>3. \A e \in Deletion : del[e].pc # "sweep"
      BY <2>3, Zenon DEF Hub!Deleting
    <3> QED
      BY <3>1, <3>2, <3>3, Zenon DEF HubBlobs
  <2> QED
    BY <2>4, <2>7, <2>8, <2>9, Zenon
<1> QED
  BY <1>3, <1>5, <1>6, Zenon DEF HubInv

\* A file appears in a snapshot: a link to the blob that was written for it, or a whole file
\* where there was none.
LEMMA HubAdds ==
  ASSUME Hub!WellFormed, HubInv, NEW d \in Download, NEW c \in Commit, NEW f \in File, NEW r \in HubDownload,
         NEW entry \in Hub!Slot,
         dl' = [dl EXCEPT ![d] = r], dl[d].pc \in {"files", "link"}, c = dl[d].sha,
         r.pc = "files", r.sha = c, r.got = TRUE, r.local = dl[d].local,
         entry # None, entry.content = BlobOf[c][f],
         snapshot' = [snapshot EXCEPT ![c] = [Hub!Files(c) EXCEPT ![f] = entry]], made' = TRUE,
         \/ dl[d].pc = "link" /\ f = dl[d].file /\ r.todo = dl[d].todo /\ entry.kind = "link"
         \/ /\ dl[d].pc = "files" /\ r.todo = dl[d].todo \ {f} /\ entry.kind = "copy"
            /\ ~HubHas(snapshot, blobs, c, f),
         UNCHANGED <<head, blobs, refs, del, overlap>>
  PROVE  HubInv'
<1>1. /\ dl' \in [Download -> HubDownload] /\ dl'[d] = r
      /\ \A x \in Download : x # d => dl'[x] = dl[x]
  BY HubSet, Zenon DEF HubInv, HubTypes
<1>2. /\ Hub!Files(c) \in [File -> Hub!Slot]
      /\ snapshot[c] = None => \A g \in File : Hub!Files(c)[g] = None
      /\ snapshot[c] # None => Hub!Files(c) = snapshot[c]
  BY HubConstants, Zenon DEF Hub!Files, HubInv, HubTypes
<1> DEFINE files == [Hub!Files(c) EXCEPT ![f] = entry]
<1>3. files \in [File -> Hub!Slot] /\ files[f] = entry /\ \A g \in File : g # f => files[g] = Hub!Files(c)[g]
  BY <1>2, Zenon
<1> HIDE DEF files
<1>4. /\ snapshot' \in [Commit -> [File -> Hub!Slot] \cup {None}] /\ snapshot'[c] = files /\ files # None
      /\ \A k \in Commit : k # c => snapshot'[k] = snapshot[k]
  <2>1. snapshot' = [snapshot EXCEPT ![c] = files]
    BY Zenon DEF files
  <2>2. snapshot \in [Commit -> [File -> Hub!Slot] \cup {None}]
    BY Zenon DEF HubInv, HubTypes
  <2>3. files # None
    BY <1>3, HubConstants, Zenon
  <2>4. snapshot' \in [Commit -> [File -> Hub!Slot] \cup {None}]
    BY <2>1, <2>2, <1>3, Zenon
  <2>5. snapshot'[c] = files /\ \A k \in Commit : k # c => snapshot'[k] = snapshot[k]
    BY <2>1, <2>2, ZenonT(40)
  <2> QED
    BY <2>3, <2>4, <2>5, Zenon
<1>5. ASSUME NEW k \in Commit, NEW g \in File
      PROVE  /\ snapshot[k] # None => snapshot'[k] # None
             /\ snapshot[k] # None /\ ~(k = c /\ g = f) => snapshot'[k][g] = snapshot[k][g]
             /\ snapshot[k] = None /\ ~(k = c /\ g = f) => snapshot'[k] = None \/ snapshot'[k][g] = None
  BY <1>2, <1>3, <1>4, ZenonT(40)
<1>6. HubTypes'
  <2>1. HubTypes
    BY Zenon DEF HubInv
  <2>2. \A x \in Download : /\ dl'[x].pc \in {"files", "link", "ok"} => dl'[x].sha \in Commit
                            /\ dl'[x].pc = "link" => dl'[x].file \in File
                            /\ dl'[x].pc \in {"files", "link"} => dl'[x].local = FALSE
    BY <2>1, <1>1, ZenonT(40) DEF HubTypes
  <2> QED
    BY <2>1, <2>2, <1>1, <1>4, Zenon DEF HubTypes
<1>7. HubOwn'
  <2>1. ASSUME NEW k \in Commit, NEW g \in File, snapshot'[k] # None, snapshot'[k][g] # None
        PROVE  snapshot'[k][g].content = BlobOf[k][g]
    <3>1. CASE k = c /\ g = f
      BY <1>3, <1>4, <3>1, Zenon
    <3>2. CASE ~(k = c /\ g = f)
      <4>1. snapshot[k] # None /\ snapshot'[k][g] = snapshot[k][g]
        BY <1>5, <2>1, <3>2, ZenonT(40)
      <4> QED
        BY <4>1, <2>1, ZenonT(40) DEF HubInv, HubOwn
    <3> QED
      BY <3>1, <3>2, Zenon
  <2> QED
    BY <2>1, Zenon DEF HubOwn
<1>8. ASSUME entry.kind = "copy" \/ entry.content \in blobs
      PROVE  /\ HubHas(snapshot', blobs', c, f)
             /\ \A k \in Commit, g \in File : HubHas(snapshot, blobs, k, g) => HubHas(snapshot', blobs', k, g)
  <2>1. HubHas(snapshot', blobs', c, f)
    BY <1>3, <1>4, <1>8, ZenonT(40) DEF HubHas
  <2>2. ASSUME NEW k \in Commit, NEW g \in File, HubHas(snapshot, blobs, k, g), ~(k = c /\ g = f)
        PROVE  HubHas(snapshot', blobs', k, g)
    <3>1. snapshot[k] # None
      BY <2>2, Zenon DEF HubHas
    <3>2. snapshot'[k] # None /\ snapshot'[k][g] = snapshot[k][g]
      BY <1>5, <2>2, <3>1, Zenon
    <3>3. snapshot[k][g] # None /\ (snapshot[k][g].kind = "copy" \/ snapshot[k][g].content \in blobs)
      BY <2>2, Zenon DEF HubHas
    <3>4. blobs' = blobs
      BY Zenon
    <3> QED
      BY <3>2, <3>3, <3>4, Zenon DEF HubHas
  <2> QED
    BY <2>1, <2>2, Zenon
<1>9. HubFresh'
  <2> SUFFICES ASSUME \A e \in Deletion : del'[e].pc = "start"
               PROVE  /\ \A x \in Download : dl'[x].pc \in {"files", "link", "ok"} /\ (dl'[x].local => Wants[x] \in Branch) =>
                           \A g \in (File \ Empty) \ dl'[x].todo :
                             (dl'[x].pc = "link" /\ g = dl'[x].file) \/ HubHas(snapshot', blobs', dl'[x].sha, g)
                      /\ \A x \in Download : dl'[x].pc = "ok" => dl'[x].todo = {}
                      /\ \A x \in Download : dl'[x].pc = "link" => BlobOf[dl'[x].sha][dl'[x].file] \in blobs'
                      /\ \A s \in Branch \cup Commit : refs'[s] # None => \A g \in File \ Empty : HubHas(snapshot', blobs', refs'[s], g)
    BY Zenon DEF HubFresh
  <2>1. entry.kind = "copy" \/ entry.content \in blobs
    BY Zenon DEF HubInv, HubFresh
  <2>2. /\ \A s \in Branch \cup Commit : refs[s] \in Commit \cup {None}
        /\ \A x \in Download : dl[x].pc \in {"files", "link", "ok"} => dl[x].sha \in Commit
    BY Zenon DEF HubInv, HubTypes
  <2>3. ASSUME NEW x \in Download, dl'[x].pc \in {"files", "link", "ok"}, dl'[x].local => Wants[x] \in Branch,
               NEW g \in (File \ Empty) \ dl'[x].todo
        PROVE  (dl'[x].pc = "link" /\ g = dl'[x].file) \/ HubHas(snapshot', blobs', dl'[x].sha, g)
    <3>1. CASE x = d
      <4>1. g = f \/ HubHas(snapshot, blobs, c, g)
        <5>1. g \notin dl[d].todo \/ g = f
          BY <1>1, <2>3, <3>1, Zenon
        <5>2. dl[d].local => Wants[d] \in Branch
          BY <1>1, <2>3, <3>1, Zenon
        <5>3. g \notin dl[d].todo => (dl[d].pc = "link" /\ g = dl[d].file) \/ HubHas(snapshot, blobs, c, g)
          BY <5>2, <2>3, ZenonT(40) DEF HubInv, HubFresh
        <5> QED
          BY <5>1, <5>3, Zenon
      <4> QED
        BY <1>1, <1>8, <2>1, <3>1, <4>1, ZenonT(40)
    <3>2. CASE x # d
      <4>1. dl[x].sha \in Commit /\ ((dl[x].pc = "link" /\ g = dl[x].file) \/ HubHas(snapshot, blobs, dl[x].sha, g))
        BY <1>1, <2>2, <2>3, <3>2, Zenon DEF HubInv, HubFresh
      <4> QED
        BY <1>1, <1>8, <2>1, <3>2, <4>1, Zenon
    <3> QED
      BY <3>1, <3>2, Zenon
  <2>4. ASSUME NEW s \in Branch \cup Commit, refs'[s] # None, NEW g \in File \ Empty PROVE HubHas(snapshot', blobs', refs'[s], g)
    <3>1. refs[s] \in Commit /\ HubHas(snapshot, blobs, refs[s], g)
      BY <2>2, <2>4, Zenon DEF HubInv, HubFresh
    <3> QED
      BY <1>8, <2>1, <3>1, Zenon
  <2>5. /\ \A x \in Download : dl'[x].pc = "ok" => dl'[x].todo = {}
        /\ \A x \in Download : dl'[x].pc = "link" => BlobOf[dl'[x].sha][dl'[x].file] \in blobs'
    BY <1>1, Zenon DEF HubInv, HubFresh
  <2> QED
    BY <2>3, <2>4, <2>5, Zenon
<1>10. ASSUME HubCalm' PROVE HubApart' /\ HubSound' /\ HubRefs' /\ HubBlobs'
  <2>1. HubCalm /\ HubApart /\ HubSound /\ HubRefs /\ HubBlobs
    BY <1>10, Zenon DEF HubInv, HubCalm
  <2>2. Hub!Deleting' = Hub!Deleting /\ Hub!Downloading' = Hub!Downloading /\ d \in Hub!Downloading
    BY <1>1, Zenon DEF Hub!Deleting, Hub!Downloading
  <2>3. Hub!Deleting = {} /\ \A e \in Deletion : del[e].pc # "sweep"
    BY <2>1, <2>2, Zenon DEF HubApart, Hub!Deleting
  <2>4. HubApart'
    BY <2>1, <2>2, Zenon DEF HubApart
  <2>5. entry.kind = "copy" \/ entry.content \in blobs
    BY <2>1, Zenon DEF HubSound
  <2>6. ASSUME NEW b, HubLinks(b)' PROVE b \in blobs
    <3>1. PICK k \in Commit, g \in File :
            snapshot'[k] # None /\ snapshot'[k][g] # None /\ snapshot'[k][g].kind = "link" /\ snapshot'[k][g].content = b
      BY <2>6, Zenon DEF HubLinks
    <3>2. CASE k = c /\ g = f
      BY <1>3, <1>4, <2>5, <3>1, <3>2, ZenonT(40)
    <3>3. CASE ~(k = c /\ g = f)
      <4>1. snapshot[k] # None
        BY <1>5, <3>1, <3>3, ZenonT(40)
      <4>2. snapshot'[k][g] = snapshot[k][g]
        BY <1>5, <3>3, <4>1, ZenonT(40)
      <4>3. HubLinks(b)
        BY <3>1, <4>1, <4>2, ZenonT(40) DEF HubLinks
      <4> QED
        BY <4>3, <2>1, Zenon DEF HubSound
    <3> QED
      BY <3>2, <3>3, Zenon
  <2>7. ASSUME NEW b, b = BlobOf[c][f], entry.kind = "link" PROVE HubLinks(b)'
    <3>1. snapshot'[c] # None /\ snapshot'[c][f] # None /\ snapshot'[c][f].kind = "link" /\ snapshot'[c][f].content = b
      BY <1>3, <1>4, <2>7, Zenon
    <3> QED
      BY <3>1, Zenon DEF HubLinks
  <2>8. ASSUME NEW b, HubLinks(b) PROVE HubLinks(b)'
    <3>1. PICK k \in Commit, g \in File :
            snapshot[k] # None /\ snapshot[k][g] # None /\ snapshot[k][g].kind = "link" /\ snapshot[k][g].content = b
      BY <2>8, Zenon DEF HubLinks
    <3>2. CASE k = c /\ g = f
      <4>1. b = BlobOf[c][f]
        BY <3>1, <3>2, Zenon DEF HubInv, HubOwn
      <4>2. b \in blobs
        BY <2>1, <2>8, Zenon DEF HubSound
      <4>3. HubHas(snapshot, blobs, c, f)
        BY <3>1, <3>2, <4>2, Zenon DEF HubHas
      <4>4. entry.kind = "link"
        BY <4>3, Zenon
      <4> QED
        BY <4>1, <4>4, <2>7, Zenon
    <3>3. CASE ~(k = c /\ g = f)
      <4>1. snapshot'[k] # None /\ snapshot'[k][g] = snapshot[k][g]
        BY <1>5, <3>1, <3>3, Zenon
      <4> QED
        BY <3>1, <4>1, ZenonT(40) DEF HubLinks
    <3> QED
      BY <3>2, <3>3, Zenon
  <2>9. ASSUME NEW b, HubPending(b) PROVE HubPending(b)' \/ HubLinks(b)'
    <3>1. PICK x \in Download : dl[x].pc = "link" /\ b = BlobOf[dl[x].sha][dl[x].file]
      BY <2>9, Zenon DEF HubPending
    <3>2. CASE x = d
      BY <2>7, <3>1, <3>2, ZenonT(40)
    <3>3. CASE x # d
      BY <1>1, <3>1, <3>3, Zenon DEF HubPending
    <3> QED
      BY <3>2, <3>3, Zenon
  <2>10. HubSound'
    <3>1. \A x \in Hub!Downloading' : dl'[x].got => snapshot'[dl'[x].sha] # None
      <4> SUFFICES ASSUME NEW x \in Hub!Downloading, dl'[x].got PROVE snapshot'[dl'[x].sha] # None
        BY <2>2, Zenon
      <4>1. x \in Download /\ dl[x].sha \in Commit
        BY Zenon DEF Hub!Downloading, HubInv, HubTypes
      <4>2. CASE x = d
        BY <1>1, <1>4, <4>2, ZenonT(40)
      <4>3. CASE x # d
        <5>1. dl'[x] = dl[x] /\ snapshot[dl[x].sha] # None
          BY <1>1, <2>1, <4>1, <4>3, ZenonT(40) DEF HubSound
        <5> QED
          BY <5>1, <4>1, <1>4, Zenon
      <4> QED
        BY <4>2, <4>3, Zenon
    <3>2. \A x \in Download : dl'[x].pc = "link" => BlobOf[dl'[x].sha][dl'[x].file] \in blobs'
      BY <1>1, <2>1, Zenon DEF HubSound
    <3> QED
      BY <3>1, <3>2, <2>6, Zenon DEF HubSound
  <2>11. HubRefs'
    <3>1. \A s \in Branch \cup Commit : refs[s] \in Commit \cup {None}
      BY Zenon DEF HubInv, HubTypes
    <3>2. \A k \in Commit : snapshot[k] # None => snapshot'[k] # None
      BY <1>4, Zenon
    <3> QED
      BY <2>1, <3>1, <3>2, ZenonT(40) DEF HubRefs
  <2>12. HubBlobs'
    <3>1. \A b \in blobs' : HubLinks(b)' \/ HubPending(b)'
      BY <2>1, <2>3, <2>8, <2>9, ZenonT(40) DEF HubBlobs
    <3> QED
      BY <3>1, <2>3, Zenon DEF HubBlobs
  <2> QED
    BY <2>4, <2>10, <2>11, <2>12, ZenonT(40)
<1> QED
  BY <1>6, <1>7, <1>9, <1>10, Zenon DEF HubInv

\* hf-hub fetches a file: its blob first, then the link.
LEMMA HubFetchMoves ==
  ASSUME Hub!WellFormed, HubInv, NEW d \in Download, Hub!Fetch(d) \/ Hub!LinkBlob(d)
  PROVE  HubInv'
<1>0. /\ dl \in [Download -> HubDownload] /\ dl[d] \in HubDownload
      /\ dl[d].pc \in {"files", "link"} => dl[d].sha \in Commit /\ dl[d].local = FALSE
  BY Zenon DEF HubInv, HubTypes
<1>1. ASSUME dl[d].pc = "files", HubCalm
      PROVE  Hub!Deleting = {} /\ (dl[d].got => snapshot[dl[d].sha] # None)
  <2>1. d \in Hub!Downloading
    BY <1>1, Zenon DEF Hub!Downloading
  <2> QED
    BY <1>1, <2>1, Zenon DEF HubInv, HubApart, HubSound
<1>2. CASE Hub!Fetch(d)
  <2>1. PICK f \in dl[d].todo :
          /\ dl[d].pc = "files"
          /\ \/ f \in Empty /\ dl' = [dl EXCEPT ![d] = [dl[d] EXCEPT !.todo = @ \ {f}]] /\ UNCHANGED blobs
             \/ /\ f \notin Empty /\ Hub!Resolves(Hub!Entry(d, f))
                /\ dl' = [dl EXCEPT ![d] = [[dl[d] EXCEPT !.todo = @ \ {f}] EXCEPT !.got = TRUE]] /\ UNCHANGED blobs
             \/ /\ f \notin Empty /\ ~Hub!Resolves(Hub!Entry(d, f))
                /\ blobs' = blobs \cup {Hub!Fetched(d, f)}
                /\ dl' = [dl EXCEPT ![d] = [[dl[d] EXCEPT !.todo = @ \ {f}] EXCEPT !.pc = "link", !.file = f]]
          /\ UNCHANGED <<head, refs, snapshot, made, del, overlap>>
    BY <1>2, Zenon DEF Hub!Fetch
  <2>2. f \in File
    BY <1>0, Zenon DEF HubDownload
  <2> DEFINE rest == [dl[d] EXCEPT !.todo = @ \ {f}]
  <2>3. /\ rest \in HubDownload /\ rest.pc = dl[d].pc /\ rest.sha = dl[d].sha /\ rest.todo = dl[d].todo \ {f}
        /\ rest.file = dl[d].file /\ rest.got = dl[d].got /\ rest.local = dl[d].local
    BY <1>0, Zenon DEF HubDownload
  <2>4. /\ \/ f \in Empty /\ dl' = [dl EXCEPT ![d] = rest] /\ UNCHANGED blobs
           \/ /\ f \notin Empty /\ Hub!Resolves(Hub!Entry(d, f))
              /\ dl' = [dl EXCEPT ![d] = [rest EXCEPT !.got = TRUE]] /\ UNCHANGED blobs
           \/ /\ f \notin Empty /\ ~Hub!Resolves(Hub!Entry(d, f))
              /\ blobs' = blobs \cup {Hub!Fetched(d, f)}
              /\ dl' = [dl EXCEPT ![d] = [rest EXCEPT !.pc = "link", !.file = f]]
    BY <2>1, Zenon
  <2> HIDE DEF rest
  <2>5. HubCalm' => HubCalm
    BY <2>1, Zenon DEF HubCalm
  <2>6. ASSUME HubFresh, \A e \in Deletion : del[e].pc = "start", rest.local => Wants[d] \in Branch
        PROVE  \A g \in (File \ Empty) \ rest.todo : g = f \/ HubHas(snapshot, blobs, dl[d].sha, g)
    BY <2>1, <2>3, <2>6, Zenon DEF HubFresh
  <2>7. CASE f \in Empty /\ dl' = [dl EXCEPT ![d] = rest] /\ UNCHANGED blobs
    <3>1. HubFresh /\ (\A e \in Deletion : del[e].pc = "start") /\ (rest.local => Wants[d] \in Branch) =>
            \A g \in (File \ Empty) \ rest.todo : HubHas(snapshot, blobs, rest.sha, g)
      BY <2>3, <2>6, <2>7, Zenon
    <3> QED
      BY <1>0, <1>1, <2>1, <2>3, <2>5, <2>7, <3>1, HubTakes, ZenonT(40)
  <2>8. CASE /\ f \notin Empty /\ Hub!Resolves(Hub!Entry(d, f))
             /\ dl' = [dl EXCEPT ![d] = [rest EXCEPT !.got = TRUE]] /\ UNCHANGED blobs
    <3> DEFINE r == [rest EXCEPT !.got = TRUE]
    <3>1. /\ r \in HubDownload /\ r.pc = rest.pc /\ r.sha = rest.sha /\ r.todo = rest.todo /\ r.local = rest.local
          /\ dl' = [dl EXCEPT ![d] = r]
      BY <2>3, <2>8, HubGot, Zenon
    <3> HIDE DEF r
    <3>2. snapshot[dl[d].sha] # None /\ HubHas(snapshot, blobs, dl[d].sha, f)
      BY <2>8, Zenon DEF Hub!Entry, Hub!Resolves, HubHas
    <3>3. HubFresh /\ (\A e \in Deletion : del[e].pc = "start") /\ (r.local => Wants[d] \in Branch) =>
            \A g \in (File \ Empty) \ r.todo : HubHas(snapshot, blobs, r.sha, g)
      BY <2>3, <2>6, <3>1, <3>2, Zenon
    <3>4. /\ dl[d].pc # "link" /\ r.pc = "files" /\ r.local = FALSE /\ r.sha \in Commit /\ (~overlap' => ~overlap)
          /\ HubCalm' => Hub!Deleting = {} /\ (r.got => snapshot[r.sha] # None)
      BY <1>0, <1>1, <2>1, <2>3, <2>5, <3>1, <3>2, ZenonT(40)
    <3> QED
      BY <2>1, <2>8, <3>1, <3>3, <3>4, HubTakes, ZenonT(40)
  <2>9. CASE /\ blobs' = blobs \cup {Hub!Fetched(d, f)}
             /\ dl' = [dl EXCEPT ![d] = [rest EXCEPT !.pc = "link", !.file = f]]
    <3> DEFINE r == [rest EXCEPT !.pc = "link", !.file = f]
    <3>1. /\ r \in HubDownload /\ r.pc = "link" /\ r.file = f /\ r.sha = rest.sha /\ r.todo = rest.todo
          /\ r.got = rest.got /\ r.local = rest.local /\ dl' = [dl EXCEPT ![d] = r]
      BY <2>2, <2>3, <2>9, ZenonT(40) DEF HubDownload
    <3> HIDE DEF r
    <3>2. blobs' = blobs \cup {BlobOf[dl[d].sha][f]}
      BY <2>9, Zenon DEF Hub!Fetched
    <3> QED
      <4>1. /\ r.sha = dl[d].sha /\ r.todo = dl[d].todo \ {f} /\ r.got = dl[d].got /\ r.local = dl[d].local
        BY <2>3, <3>1, Zenon
      <4> QED
        BY <2>1, <2>2, <3>1, <3>2, <4>1, HubWrites, ZenonT(40)
  <2> QED
    BY <2>4, <2>7, <2>8, <2>9, ZenonT(40)
<1>3. CASE Hub!LinkBlob(d)
  <2> DEFINE r == [dl[d] EXCEPT !.pc = "files", !.file = None, !.got = TRUE]
  <2>1. /\ dl[d].pc = "link" /\ dl' = [dl EXCEPT ![d] = r]
        /\ snapshot' = [snapshot EXCEPT ![dl[d].sha] =
                          [Hub!Files(dl[d].sha) EXCEPT ![dl[d].file] = Hub!Link(BlobOf[dl[d].sha][dl[d].file])]]
        /\ made' = TRUE /\ UNCHANGED <<head, blobs, refs, del, overlap>>
    BY <1>3, Zenon DEF Hub!LinkBlob, Hub!AddEntry, Hub!Fetched
  <2>2. /\ r \in HubDownload /\ r.pc = "files" /\ r.sha = dl[d].sha /\ r.todo = dl[d].todo
        /\ r.got = TRUE /\ r.local = dl[d].local
    BY <1>0, Zenon DEF HubDownload
  <2> HIDE DEF r
  <2>3. dl[d].sha \in Commit /\ dl[d].file \in File
    BY <2>1, Zenon DEF HubInv, HubTypes
  <2>4. PICK entry \in Hub!Slot : /\ entry = Hub!Link(BlobOf[dl[d].sha][dl[d].file]) /\ entry # None
                                  /\ entry.kind = "link" /\ entry.content = BlobOf[dl[d].sha][dl[d].file]
    BY <2>3, HubEntries, ZenonT(40)
  <2> QED
    BY <2>1, <2>2, <2>3, <2>4, HubAdds, ZenonT(40)
<1> QED
  BY <1>2, <1>3, Zenon

\* A file is fetched whole, or a fetch fails.
LEMMA HubFullBodyMoves ==
  ASSUME Hub!WellFormed, HubInv, NEW d \in Download, Hub!FetchFullBody(d) \/ Hub!FetchFails(d)
  PROVE  HubInv'
<1>0. dl[d] \in HubDownload /\ (dl[d].pc = "files" => dl[d].sha \in Commit)
  BY Zenon DEF HubInv, HubTypes
<1>1. CASE Hub!FetchFails(d)
  BY <1>1, HubGivesUp, Zenon DEF Hub!FetchFails, Hub!cacheVars
<1>2. CASE Hub!FetchFullBody(d)
  <2>1. PICK f \in dl[d].todo \ Empty :
          /\ dl[d].pc = "files" /\ ~Hub!Resolves(Hub!Entry(d, f))
          /\ \/ /\ Hub!AddEntry(dl[d].sha, f, Hub!Copy(Hub!Fetched(d, f)))
                /\ dl' = [dl EXCEPT ![d] = [dl[d] EXCEPT !.todo = @ \ {f}, !.got = TRUE]]
             \/ Hub!Failed(d) /\ UNCHANGED <<snapshot, made>>
          /\ UNCHANGED <<head, refs, blobs, del, overlap>>
    BY <1>2, Zenon DEF Hub!FetchFullBody
  <2>2. CASE Hub!Failed(d) /\ UNCHANGED <<snapshot, made>>
    BY <2>1, <2>2, HubGivesUp, Zenon
  <2>3. CASE /\ Hub!AddEntry(dl[d].sha, f, Hub!Copy(Hub!Fetched(d, f)))
             /\ dl' = [dl EXCEPT ![d] = [dl[d] EXCEPT !.todo = @ \ {f}, !.got = TRUE]]
    <3> DEFINE r == [dl[d] EXCEPT !.todo = @ \ {f}, !.got = TRUE]
    <3>1. /\ r \in HubDownload /\ r.pc = dl[d].pc /\ r.sha = dl[d].sha /\ r.todo = dl[d].todo \ {f}
          /\ r.got = TRUE /\ r.local = dl[d].local /\ dl' = [dl EXCEPT ![d] = r]
      BY <1>0, <2>3, Zenon DEF HubDownload
    <3> HIDE DEF r
    <3>2. f \in File /\ dl[d].sha \in Commit
      BY <1>0, <2>1, Zenon DEF HubDownload
    <3>3. PICK entry \in Hub!Slot : /\ entry = Hub!Copy(BlobOf[dl[d].sha][f]) /\ entry # None
                                    /\ entry.kind = "copy" /\ entry.content = BlobOf[dl[d].sha][f]
      BY <3>2, HubEntries, Zenon
    <3>4. /\ snapshot' = [snapshot EXCEPT ![dl[d].sha] = [Hub!Files(dl[d].sha) EXCEPT ![f] = entry]]
          /\ made' = TRUE
      BY <2>3, <3>3, Zenon DEF Hub!AddEntry, Hub!Fetched
    <3>5. ~HubHas(snapshot, blobs, dl[d].sha, f)
      BY <2>1, HubResolves, Zenon DEF Hub!Entry, HubHas
    <3> QED
      <4>1. /\ dl[d].pc = "files" /\ r.pc = "files" /\ UNCHANGED <<head, blobs, refs, del, overlap>>
        BY <2>1, <3>1, Zenon
      <4> QED
        BY <3>1, <3>2, <3>3, <3>4, <3>5, <4>1, HubAdds, ZenonT(40)
  <2> QED
    BY <2>1, <2>2, <2>3, Zenon
<1> QED
  BY <1>1, <1>2, Zenon

\* The ref that was asked for is written.
LEMMA HubPublishMoves ==
  ASSUME Hub!WellFormed, HubInv, NEW d \in Download, Hub!PublishRef(d)
  PROVE  HubInv'
<1>0. dl[d] \in HubDownload /\ (dl[d].pc = "files" => dl[d].sha \in Commit)
  BY Zenon DEF HubInv, HubTypes
<1>1. /\ dl[d].pc = "files" /\ dl[d].todo = {}
      /\ IF dl[d].got THEN /\ refs' = [refs EXCEPT ![Hub!Asked(d)] = dl[d].sha]
                           /\ dl' = [dl EXCEPT ![d].pc = "ok"]
         ELSE Hub!Failed(d) /\ UNCHANGED refs
      /\ UNCHANGED <<head, snapshot, blobs, made, del, overlap>>
  BY Zenon DEF Hub!PublishRef
<1>2. CASE ~dl[d].got
  BY <1>1, <1>2, HubGivesUp, Zenon
<1>3. CASE dl[d].got
  <2> DEFINE r == [dl[d] EXCEPT !.pc = "ok"]
  <2>1. /\ r \in HubDownload /\ r.pc = "ok" /\ r.sha = dl[d].sha /\ r.todo = {} /\ r.local = dl[d].local
        /\ dl' = [dl EXCEPT ![d] = r]
    BY <1>0, <1>1, <1>3, Zenon DEF HubDownload
  <2> HIDE DEF r
  <2>2. /\ dl' \in [Download -> HubDownload] /\ dl'[d] = r
        /\ \A x \in Download : x # d => dl'[x] = dl[x]
    BY <2>1, HubSet, Zenon DEF HubInv, HubTypes
  <2>3. Hub!Asked(d) \in Branch \cup Commit /\ dl[d].sha \in Commit
    BY <1>0, <1>1, HubConstants, Zenon DEF Hub!Asked
  <2>4. refs' \in [Branch \cup Commit -> Commit \cup {None}]
        /\ \A s \in Branch \cup Commit : refs'[s] = refs[s] \/ refs'[s] = dl[d].sha
    BY <1>1, <1>3, <2>3, Zenon DEF HubInv, HubTypes
  <2>5. HubTypes'
    <3>1. HubTypes
      BY Zenon DEF HubInv
    <3>2. \A x \in Download : /\ dl'[x].pc \in {"files", "link", "ok"} => dl'[x].sha \in Commit
                              /\ dl'[x].pc = "link" => dl'[x].file \in File
                              /\ dl'[x].pc \in {"files", "link"} => dl'[x].local = FALSE
      BY <3>1, <2>1, <2>2, <2>3, Zenon DEF HubTypes
    <3> QED
      BY <3>1, <3>2, <2>2, <2>4, <1>1, ZenonT(40) DEF HubTypes
  <2>6. HubOwn'
    BY <1>1, Zenon DEF HubInv, HubOwn
  <2>7. HubFresh'
    <3> SUFFICES ASSUME \A e \in Deletion : del'[e].pc = "start"
                 PROVE  /\ \A x \in Download : dl'[x].pc \in {"files", "link", "ok"} /\ (dl'[x].local => Wants[x] \in Branch) =>
                             \A g \in (File \ Empty) \ dl'[x].todo :
                               (dl'[x].pc = "link" /\ g = dl'[x].file) \/ HubHas(snapshot', blobs', dl'[x].sha, g)
                        /\ \A x \in Download : dl'[x].pc = "ok" => dl'[x].todo = {}
                        /\ \A x \in Download : dl'[x].pc = "link" => BlobOf[dl'[x].sha][dl'[x].file] \in blobs'
                        /\ \A s \in Branch \cup Commit : refs'[s] # None => \A g \in File \ Empty : HubHas(snapshot', blobs', refs'[s], g)
      BY Zenon DEF HubFresh
    <3>0. dl[d].local = FALSE
      BY <1>1, Zenon DEF HubInv, HubTypes
    <3>1. \A g \in File \ Empty : HubHas(snapshot', blobs', dl[d].sha, g)
      BY <1>1, <3>0, Zenon DEF HubInv, HubFresh
    <3>2. ASSUME NEW x \in Download, dl'[x].pc \in {"files", "link", "ok"}, dl'[x].local => Wants[x] \in Branch,
                 NEW g \in (File \ Empty) \ dl'[x].todo
          PROVE  (dl'[x].pc = "link" /\ g = dl'[x].file) \/ HubHas(snapshot', blobs', dl'[x].sha, g)
      <4>1. CASE x = d
        BY <2>1, <2>2, <3>1, <3>2, <4>1, ZenonT(40)
      <4>2. CASE x # d
        BY <1>1, <2>2, <3>2, <4>2, ZenonT(40) DEF HubInv, HubFresh
      <4> QED
        BY <4>1, <4>2, Zenon
    <3>3. ASSUME NEW s \in Branch \cup Commit, refs'[s] # None, NEW g \in File \ Empty PROVE HubHas(snapshot', blobs', refs'[s], g)
      BY <1>1, <2>4, <3>1, <3>3, ZenonT(40) DEF HubInv, HubFresh
    <3>4. /\ \A x \in Download : dl'[x].pc = "ok" => dl'[x].todo = {}
          /\ \A x \in Download : dl'[x].pc = "link" => BlobOf[dl'[x].sha][dl'[x].file] \in blobs'
      BY <1>1, <2>1, <2>2, Zenon DEF HubInv, HubFresh
    <3> QED
      BY <3>2, <3>3, <3>4, Zenon
  <2>8. ASSUME HubCalm' PROVE HubApart' /\ HubSound' /\ HubRefs' /\ HubBlobs'
    <3>1. HubCalm /\ HubApart /\ HubSound /\ HubRefs /\ HubBlobs
      BY <1>1, <2>8, Zenon DEF HubInv, HubCalm
    <3>2. Hub!Deleting' = Hub!Deleting /\ Hub!Downloading' \subseteq Hub!Downloading /\ d \in Hub!Downloading
          /\ d \notin Hub!Downloading'
      BY <1>1, <2>1, <2>2, Zenon DEF Hub!Deleting, Hub!Downloading
    <3>3. HubApart'
      BY <3>1, <3>2, Zenon DEF HubApart
    <3>4. \A b : HubLinks(b)' <=> HubLinks(b)
      BY <1>1, Zenon DEF HubLinks
    <3>5. \A b : HubPending(b)' <=> HubPending(b)
      BY <1>1, <2>1, <2>2, Zenon DEF HubPending
    <3>6. HubSound'
      <4>1. ASSUME NEW x \in Hub!Downloading', dl'[x].got PROVE snapshot'[dl'[x].sha] # None
        <5>1. x \in Download /\ x # d /\ x \in Hub!Downloading
          BY <3>2, <4>1, Zenon DEF Hub!Downloading
        <5> QED
          BY <1>1, <2>2, <3>1, <4>1, <5>1, ZenonT(40) DEF HubSound
      <4>2. \A x \in Download : dl'[x].pc = "link" => BlobOf[dl'[x].sha][dl'[x].file] \in blobs'
        BY <1>1, <2>1, <2>2, <3>1, Zenon DEF HubSound
      <4>3. \A b : HubLinks(b)' => b \in blobs'
        BY <1>1, <3>1, <3>4, Zenon DEF HubSound
      <4> QED
        BY <4>1, <4>2, <4>3, Zenon DEF HubSound
    <3>7. HubRefs'
      <4>1. snapshot[dl[d].sha] # None
        BY <1>3, <3>1, <3>2, Zenon DEF HubSound
      <4> QED
        BY <1>1, <2>4, <3>1, <4>1, ZenonT(40) DEF HubRefs
    <3>8. HubBlobs'
      BY <1>1, <3>1, <3>2, <3>4, <3>5, Zenon DEF HubBlobs
    <3> QED
      BY <3>3, <3>6, <3>7, <3>8, Zenon
  <2> QED
    BY <2>5, <2>6, <2>7, <2>8, Zenon DEF HubInv
<1> QED
  BY <1>2, <1>3, Zenon

\* A deletion takes a step: what is left to show.
LEMMA HubDeletes ==
  ASSUME HubInv, NEW e \in Deletion, NEW q \in HubDeletion, del' = [del EXCEPT ![e] = q], q.pc # "start",
         UNCHANGED <<head, dl>>, refs' \in [Branch \cup Commit -> Commit \cup {None}],
         snapshot' \in [Commit -> [File -> Hub!Slot] \cup {None}], blobs' \subseteq Hub!Content, HubOwn',
         HubCalm' => HubApart' /\ HubSound' /\ HubRefs' /\ HubBlobs'
  PROVE  HubInv'
<1>1. del' \in [Deletion -> HubDeletion] /\ del'[e] = q
  BY HubSetDeletion, Zenon DEF HubInv, HubTypes
<1>2. HubTypes'
  BY <1>1, Zenon DEF HubInv, HubTypes
<1>3. HubFresh'
  BY <1>1, Zenon DEF HubFresh
<1> QED
  BY <1>2, <1>3, Zenon DEF HubInv

\* A deletion under way that nothing has overlapped is alone.
LEMMA HubAlone ==
  ASSUME HubInv, HubCalm', NEW e \in Deletion, NEW q \in HubDeletion, del' = [del EXCEPT ![e] = q], q.pc # "start",
         del[e].pc \notin {"start", "done"}, UNCHANGED <<dl, overlap>>
  PROVE  /\ HubSound /\ HubRefs /\ HubBlobs
         /\ Hub!Downloading' = {} /\ (\A d \in Download : dl[d].pc # "link")
         /\ \A x \in Deletion : x # e => del[x].pc \in {"start", "done"}
         /\ del'[e] = q /\ \A x \in Deletion : x # e => del'[x] = del[x]
         /\ HubApart'
<1>1. /\ del' \in [Deletion -> HubDeletion] /\ del'[e] = q /\ \A x \in Deletion : x # e => del'[x] = del[x]
  BY HubSetDeletion, Zenon DEF HubInv, HubTypes
<1>2. HubCalm
  BY <1>1, Zenon DEF HubCalm
<1>3. HubApart /\ HubSound /\ HubRefs /\ HubBlobs
  BY <1>2, Zenon DEF HubInv
<1>4. e \in Hub!Deleting
  BY Zenon DEF Hub!Deleting
<1>5. Hub!Downloading = {} /\ \A x \in Deletion : x # e => x \notin Hub!Deleting
  BY <1>3, <1>4, Zenon DEF HubApart
<1>6. /\ Hub!Downloading' = {} /\ (\A d \in Download : dl[d].pc # "link")
      /\ \A x \in Deletion : x # e => del[x].pc \in {"start", "done"}
  BY <1>5, Zenon DEF Hub!Downloading, Hub!Deleting
<1>7. \A x \in Hub!Deleting' : x = e
  BY <1>1, <1>6, Zenon DEF Hub!Deleting
<1> QED
  BY <1>1, <1>3, <1>6, <1>7, Zenon DEF HubApart

\* A deletion that begins apart from the others begins alone.
LEMMA HubBegins ==
  ASSUME HubInv, HubCalm', NEW e \in Deletion, NEW q \in HubDeletion, del' = [del EXCEPT ![e] = q],
         q.pc # "start", UNCHANGED dl, overlap' = (overlap \/ Hub!Downloading # {} \/ Hub!Deleting # {})
  PROVE  /\ HubSound /\ HubRefs /\ HubBlobs
         /\ Hub!Downloading' = {} /\ (\A d \in Download : dl[d].pc # "link")
         /\ \A x \in Deletion : del[x].pc \in {"start", "done"}
         /\ del'[e] = q /\ \A x \in Deletion : x # e => del'[x] = del[x]
         /\ HubApart'
<1>1. /\ del' \in [Deletion -> HubDeletion] /\ del'[e] = q /\ \A x \in Deletion : x # e => del'[x] = del[x]
  BY HubSetDeletion, Zenon DEF HubInv, HubTypes
<1>2. HubCalm /\ Hub!Downloading = {} /\ Hub!Deleting = {}
  BY <1>1, Zenon DEF HubCalm
<1>3. HubApart /\ HubSound /\ HubRefs /\ HubBlobs
  BY <1>2, Zenon DEF HubInv
<1>6. /\ Hub!Downloading' = {} /\ (\A d \in Download : dl[d].pc # "link")
      /\ \A x \in Deletion : del[x].pc \in {"start", "done"}
  BY <1>2, Zenon DEF Hub!Downloading, Hub!Deleting
<1>7. \A x \in Hub!Deleting' : x = e
  BY <1>1, <1>6, Zenon DEF Hub!Deleting
<1> QED
  BY <1>1, <1>3, <1>6, <1>7, Zenon DEF HubApart

\* Only the progress of a deletion changes.
LEMMA HubSteps ==
  ASSUME HubInv, NEW e \in Deletion, NEW p \in {"look", "repo", "scan", "done"}, Hub!Step(e, p)
  PROVE  \E q \in HubDeletion : q.pc = p /\ q.commit = del[e].commit /\ del' = [del EXCEPT ![e] = q]
<1>1. del[e] \in HubDeletion
  BY Zenon DEF HubInv, HubTypes
<1> DEFINE q == [del[e] EXCEPT !.pc = p]
<1>2. q \in HubDeletion /\ q.pc = p /\ q.commit = del[e].commit
  BY <1>1, Zenon DEF HubDeletion
<1>3. del' = [del EXCEPT ![e] = q]
  BY Zenon DEF Hub!Step
<1> QED
  BY <1>2, <1>3, Zenon

\* Snapshots that go, or stay as they are, hold files of their commits.
LEMMA HubOwnKept ==
  ASSUME HubInv, made' = made, \A k \in Commit : snapshot'[k] = None \/ snapshot'[k] = snapshot[k]
  PROVE  HubOwn'
<1>1. ASSUME NEW k \in Commit, NEW f \in File, snapshot'[k] # None, snapshot'[k][f] # None
      PROVE  snapshot'[k][f].content = BlobOf[k][f]
  <2>1. snapshot'[k] = snapshot[k]
    BY <1>1, Zenon
  <2> QED
    BY <1>1, <2>1, Zenon DEF HubInv, HubOwn
<1>2. ~made' => \A k \in Commit : snapshot'[k] = None
  BY Zenon DEF HubInv, HubOwn
<1> QED
  BY <1>1, <1>2, Zenon DEF HubOwn

\* A deletion removes the snapshot of its revision.
LEMMA HubRemoveMoves ==
  ASSUME Hub!WellFormed, HubInv, NEW e \in Deletion, Hub!RemoveSnapshot(e)
  PROVE  HubInv'
<1> SUFFICES ASSUME NEW c, c = Hub!local_commit_for_revision(Target[e]) PROVE HubInv'
  BY Zenon
<1> DEFINE q == [del[e] EXCEPT !.pc = "refs", !.commit = c]
<1>1. /\ Target[e] \in Branch \cup Commit
      /\ c \in Commit => snapshot' = [snapshot EXCEPT ![c] = None]
      /\ c \notin Commit => snapshot' = snapshot
      /\ del' = [del EXCEPT ![e] = q]
      /\ overlap' = (overlap \/ Hub!Downloading # {} \/ Hub!Deleting # {})
      /\ UNCHANGED <<head, refs, blobs, made, dl>>
  BY Zenon DEF Hub!RemoveSnapshot, Hub!Revision
<1>2. c \in Commit \cup Branch \cup {None}
  BY <1>1, Zenon DEF Hub!local_commit_for_revision, HubInv, HubTypes
<1>3. q \in HubDeletion /\ q.pc = "refs" /\ q.commit = c
  <2>1. del[e] \in HubDeletion
    BY Zenon DEF HubInv, HubTypes
  <2> QED
    BY <1>2, <2>1, Zenon DEF HubDeletion
<1> HIDE DEF q
<1>4. /\ snapshot' \in [Commit -> [File -> Hub!Slot] \cup {None}]
      /\ \A k \in Commit : snapshot'[k] = None \/ snapshot'[k] = snapshot[k]
      /\ \A k \in Commit : k # c => snapshot'[k] = snapshot[k]
  <2>1. snapshot \in [Commit -> [File -> Hub!Slot] \cup {None}]
    BY Zenon DEF HubInv, HubTypes
  <2>2. CASE c \in Commit
    BY <1>1, <2>1, <2>2, Zenon
  <2>3. CASE c \notin Commit
    BY <1>1, <2>1, <2>3, Zenon
  <2> QED
    BY <2>2, <2>3, Zenon
<1>5. HubOwn'
  BY <1>1, <1>4, HubOwnKept, Zenon
<1>6. ASSUME HubCalm' PROVE HubApart' /\ HubSound' /\ HubRefs' /\ HubBlobs'
  <2>1. /\ HubSound /\ HubRefs /\ HubBlobs
        /\ Hub!Downloading' = {} /\ (\A d \in Download : dl[d].pc # "link")
        /\ \A x \in Deletion : del[x].pc \in {"start", "done"}
        /\ del'[e] = q /\ \A x \in Deletion : x # e => del'[x] = del[x]
        /\ HubApart'
    BY <1>1, <1>3, <1>6, HubBegins, Zenon
  <2>2. \A b : HubLinks(b)' => HubLinks(b)
    BY <1>4, Zenon DEF HubLinks
  <2>3. \A b : HubPending(b)' <=> HubPending(b)
    BY <1>1, Zenon DEF HubPending
  <2>4. HubSound'
    BY <1>1, <2>1, <2>2, Zenon DEF HubSound
  <2>5. HubRefs'
    <3> SUFFICES ASSUME NEW r \in (Branch \cup Commit) \ Slashed, refs[r] # None
                 PROVE  snapshot'[refs[r]] # None \/ (del'[e].pc = "refs" /\ del'[e].commit = refs[r])
      BY <1>1, Zenon DEF HubRefs
    <3>1. refs[r] \in Commit
      BY Zenon DEF HubInv, HubTypes
    <3>2. snapshot[refs[r]] # None
      BY <2>1, Zenon DEF HubRefs
    <3> QED
      BY <1>3, <1>4, <2>1, <3>1, <3>2, ZenonT(40)
  <2>6. HubBlobs'
    <3>1. Hub!Deleting' # {}
      BY <1>3, <2>1, Zenon DEF Hub!Deleting
    <3>2. \A x \in Deletion : del'[x].pc # "sweep"
      BY <1>3, <2>1, Zenon
    <3> QED
      BY <1>1, <2>1, <2>3, <3>1, <3>2, ZenonT(40) DEF HubBlobs
  <2> QED
    BY <2>1, <2>4, <2>5, <2>6, Zenon
<1>7. refs' \in [Branch \cup Commit -> Commit \cup {None}] /\ blobs' \subseteq Hub!Content
  BY <1>1, Zenon DEF HubInv, HubTypes
<1> QED
  BY <1>1, <1>3, <1>4, <1>5, <1>6, <1>7, HubDeletes, ZenonT(40)

\* A deletion drops the refs of refs/ itself that name its commit.
LEMMA HubDropMoves ==
  ASSUME Hub!WellFormed, HubInv, NEW e \in Deletion, Hub!DropRefs(e)
  PROVE  HubInv'
<1>1. /\ del[e].pc = "refs" /\ Hub!Step(e, "look")
      /\ refs' = [r \in Branch \cup Commit |->
                  IF r \notin Slashed /\ refs[r] = del[e].commit THEN None ELSE refs[r]]
      /\ UNCHANGED <<head, snapshot, blobs, made, dl, overlap>>
  BY Zenon DEF Hub!DropRefs, Hub!Stale, Hub!Revision
<1>2. PICK q \in HubDeletion : q.pc = "look" /\ q.commit = del[e].commit /\ del' = [del EXCEPT ![e] = q]
  BY <1>1, HubSteps, Zenon
<1>3. /\ refs' \in [Branch \cup Commit -> Commit \cup {None}]
      /\ \A r \in Branch \cup Commit : refs'[r] # None =>
           refs'[r] = refs[r] /\ (r \in Slashed \/ refs[r] # del[e].commit)
  BY <1>1, Zenon DEF HubInv, HubTypes
<1>4. HubOwn'
  BY <1>1, HubOwnKept, Zenon
<1>5. ASSUME HubCalm' PROVE HubApart' /\ HubSound' /\ HubRefs' /\ HubBlobs'
  <2>1. /\ HubSound /\ HubRefs /\ HubBlobs
        /\ Hub!Downloading' = {} /\ (\A d \in Download : dl[d].pc # "link")
        /\ \A x \in Deletion : x # e => del[x].pc \in {"start", "done"}
        /\ del'[e] = q /\ \A x \in Deletion : x # e => del'[x] = del[x]
        /\ HubApart'
    BY <1>1, <1>2, <1>5, HubAlone, Zenon
  <2>2. \A b : (HubLinks(b)' <=> HubLinks(b)) /\ (HubPending(b)' <=> HubPending(b))
    BY <1>1, Zenon DEF HubLinks, HubPending
  <2>3. HubSound'
    BY <1>1, <2>1, <2>2, Zenon DEF HubSound
  <2>4. HubRefs'
    <3> SUFFICES ASSUME NEW r \in (Branch \cup Commit) \ Slashed, refs'[r] # None PROVE snapshot'[refs'[r]] # None
      BY Zenon DEF HubRefs
    <3>1. refs'[r] = refs[r] /\ refs[r] # del[e].commit
      BY <1>3, Zenon
    <3>2. snapshot[refs[r]] # None
      BY <2>1, <3>1, ZenonT(40) DEF HubRefs
    <3> QED
      BY <1>1, <3>1, <3>2, Zenon
  <2>5. HubBlobs'
    <3>1. Hub!Deleting' # {}
      BY <1>2, <2>1, Zenon DEF Hub!Deleting
    <3>2. \A x \in Deletion : del'[x].pc # "sweep"
      BY <1>2, <2>1, Zenon
    <3> QED
      BY <1>1, <2>1, <2>2, <3>1, <3>2, Zenon DEF HubBlobs
  <2> QED
    BY <2>1, <2>3, <2>4, <2>5, Zenon
<1>6. snapshot' \in [Commit -> [File -> Hub!Slot] \cup {None}] /\ blobs' \subseteq Hub!Content
  BY <1>1, Zenon DEF HubInv, HubTypes
<1>7. UNCHANGED <<head, dl>> /\ q.pc # "start"
  BY <1>1, <1>2, Zenon
<1> QED
  BY <1>2, <1>3, <1>4, <1>5, <1>6, <1>7, HubDeletes, ZenonT(40)

\* A deletion looks for snapshots, or begins with the whole repository.
LEMMA HubLookMoves ==
  ASSUME Hub!WellFormed, HubInv, NEW e \in Deletion, Hub!LookForSnapshots(e) \/ Hub!ClearModel(e)
  PROVE  HubInv'
<1>1. /\ UNCHANGED <<head, refs, snapshot, blobs, made, dl>>
      /\ \E p \in {"repo", "scan"} : Hub!Step(e, p)
  BY Zenon DEF Hub!LookForSnapshots, Hub!ClearModel, Hub!cacheVars
<1>2. PICK q \in HubDeletion : q.pc \in {"repo", "scan"} /\ del' = [del EXCEPT ![e] = q]
  BY <1>1, HubSteps, Zenon
<1>3. HubOwn'
  BY <1>1, HubOwnKept, Zenon
<1>4. ASSUME HubCalm' PROVE HubApart' /\ HubSound' /\ HubRefs' /\ HubBlobs'
  <2>1. /\ HubSound /\ HubRefs /\ HubBlobs
        /\ Hub!Downloading' = {} /\ (\A d \in Download : dl[d].pc # "link")
        /\ \A x \in Deletion : x # e => del[x].pc \in {"start", "done"}
        /\ del[e].pc \notin {"refs", "sweep"}
        /\ del'[e] = q /\ \A x \in Deletion : x # e => del'[x] = del[x]
        /\ HubApart'
    <3>1. CASE Hub!LookForSnapshots(e)
      <4>1. del[e].pc = "look" /\ UNCHANGED <<dl, overlap>> /\ q.pc # "start"
        BY <1>2, <3>1, Zenon DEF Hub!LookForSnapshots
      <4> QED
        BY <1>2, <1>4, <4>1, HubAlone, Zenon
    <3>2. CASE Hub!ClearModel(e)
      <4>1. /\ del[e].pc = "start" /\ UNCHANGED dl /\ q.pc # "start"
            /\ overlap' = (overlap \/ Hub!Downloading # {} \/ Hub!Deleting # {})
        BY <1>2, <3>2, Zenon DEF Hub!ClearModel
      <4> QED
        BY <1>2, <1>4, <4>1, HubBegins, Zenon
    <3> QED
      BY <3>1, <3>2, Zenon
  <2>2. \A b : (HubLinks(b)' <=> HubLinks(b)) /\ (HubPending(b)' <=> HubPending(b))
    BY <1>1, Zenon DEF HubLinks, HubPending
  <2>3. HubSound'
    BY <1>1, <2>1, <2>2, Zenon DEF HubSound
  <2>4. HubRefs'
    <3> SUFFICES ASSUME NEW r \in (Branch \cup Commit) \ Slashed, refs'[r] # None PROVE snapshot'[refs'[r]] # None
      BY Zenon DEF HubRefs
    <3>1. refs'[r] = refs[r] /\ snapshot' = snapshot
      BY <1>1, Zenon
    <3> QED
      BY <2>1, <3>1, Zenon DEF HubRefs
  <2>5. HubBlobs'
    <3>1. Hub!Deleting' # {}
      BY <1>2, <2>1, Zenon DEF Hub!Deleting
    <3>2. \A x \in Deletion : del'[x].pc # "sweep"
      BY <1>2, <2>1, Zenon
    <3> QED
      BY <1>1, <2>1, <2>2, <3>1, <3>2, ZenonT(40) DEF HubBlobs
  <2> QED
    BY <2>1, <2>3, <2>4, <2>5, Zenon
<1>5. /\ snapshot' \in [Commit -> [File -> Hub!Slot] \cup {None}] /\ blobs' \subseteq Hub!Content
      /\ refs' \in [Branch \cup Commit -> Commit \cup {None}] /\ UNCHANGED <<head, dl>> /\ q.pc # "start"
  BY <1>1, <1>2, Zenon DEF HubInv, HubTypes
<1> QED
  BY <1>2, <1>3, <1>4, <1>5, HubDeletes, Zenon

\* The repository directory is removed.
LEMMA HubClearMoves ==
  ASSUME Hub!WellFormed, HubInv, NEW e \in Deletion, Hub!RemoveRepository(e)
  PROVE  HubInv'
<1>1. /\ del[e].pc = "repo" /\ Hub!Step(e, "done")
      /\ refs' = [r \in Branch \cup Commit |-> None] /\ snapshot' = [c \in Commit |-> None]
      /\ blobs' = {} /\ made' = FALSE /\ UNCHANGED <<head, dl, overlap>>
  BY Zenon DEF Hub!RemoveRepository, Hub!Revision
<1>2. PICK q \in HubDeletion : q.pc = "done" /\ del' = [del EXCEPT ![e] = q]
  BY <1>1, HubSteps, Zenon
<1>3. /\ refs' \in [Branch \cup Commit -> Commit \cup {None}] /\ blobs' \subseteq Hub!Content
      /\ snapshot' \in [Commit -> [File -> Hub!Slot] \cup {None}] /\ UNCHANGED <<head, dl>> /\ q.pc # "start"
      /\ \A c \in Commit : snapshot'[c] = None
      /\ \A r \in Branch \cup Commit : refs'[r] = None
  BY <1>1, <1>2, Zenon
<1>4. HubOwn'
  BY <1>3, ZenonT(40) DEF HubOwn
<1>5. ASSUME HubCalm' PROVE HubApart' /\ HubSound' /\ HubRefs' /\ HubBlobs'
  <2>1. /\ HubSound /\ HubRefs /\ HubBlobs
        /\ Hub!Downloading' = {} /\ (\A d \in Download : dl[d].pc # "link")
        /\ \A x \in Deletion : x # e => del[x].pc \in {"start", "done"}
        /\ del'[e] = q /\ \A x \in Deletion : x # e => del'[x] = del[x]
        /\ HubApart'
    BY <1>1, <1>2, <1>5, HubAlone, Zenon
  <2>2. \A b : ~HubLinks(b)'
    BY <1>3, Zenon DEF HubLinks
  <2>3. HubSound'
    BY <1>1, <2>1, <2>2, Zenon DEF HubSound
  <2>4. HubRefs'
    BY <1>3, Zenon DEF HubRefs
  <2>5. HubBlobs'
    <3>1. \A x \in Deletion : del'[x].pc # "sweep"
      BY <1>2, <2>1, Zenon
    <3> QED
      BY <1>1, <3>1, Zenon DEF HubBlobs
  <2> QED
    BY <2>1, <2>3, <2>4, <2>5, Zenon
<1> QED
  BY <1>2, <1>3, <1>4, <1>5, HubDeletes, ZenonT(40)

\* The snapshots are walked for the blobs to keep.
LEMMA HubScanMoves ==
  ASSUME Hub!WellFormed, HubInv, NEW e \in Deletion, Hub!ScanSnapshots(e)
  PROVE  HubInv'
<1>1. /\ del[e].pc = "scan" /\ UNCHANGED <<head, refs, snapshot, blobs, made, dl, overlap>>
      /\ made => del' = [del EXCEPT ![e] = [del[e] EXCEPT !.pc = "sweep", !.seen = blobs, !.keep = Hub!Linked \cap blobs]]
      /\ ~made => Hub!Step(e, "done")
  BY Zenon DEF Hub!ScanSnapshots, Hub!cacheVars
<1>2. PICK q \in HubDeletion :
        /\ del' = [del EXCEPT ![e] = q]
        /\ made => q.pc = "sweep" /\ q.seen = blobs /\ q.keep = Hub!Linked \cap blobs
        /\ ~made => q.pc = "done"
  <2>1. CASE made
    <3> DEFINE q == [del[e] EXCEPT !.pc = "sweep", !.seen = blobs, !.keep = Hub!Linked \cap blobs]
    <3>1. del[e] \in HubDeletion /\ blobs \subseteq Hub!Content
      BY Zenon DEF HubInv, HubTypes
    <3>2. Hub!Linked \cap blobs \subseteq Hub!Content
      BY <3>1, Zenon
    <3>3. q \in HubDeletion /\ q.pc = "sweep" /\ q.seen = blobs /\ q.keep = Hub!Linked \cap blobs
      BY <3>1, <3>2, Zenon DEF HubDeletion
    <3> QED
      BY <1>1, <2>1, <3>3, Zenon
  <2>2. CASE ~made
    BY <1>1, <2>2, HubSteps, Zenon
  <2> QED
    BY <2>1, <2>2, Zenon
<1>3. HubOwn'
  BY <1>1, HubOwnKept, Zenon
<1>4. q.pc \in {"sweep", "done"}
  BY <1>2, ZenonT(40)
<1>5. ASSUME HubCalm' PROVE HubApart' /\ HubSound' /\ HubRefs' /\ HubBlobs'
  <2>1. /\ HubSound /\ HubRefs /\ HubBlobs
        /\ Hub!Downloading' = {} /\ (\A d \in Download : dl[d].pc # "link")
        /\ \A x \in Deletion : x # e => del[x].pc \in {"start", "done"}
        /\ del'[e] = q /\ \A x \in Deletion : x # e => del'[x] = del[x]
        /\ HubApart'
    BY <1>1, <1>2, <1>4, <1>5, HubAlone, ZenonT(40)
  <2>2. \A b : (HubLinks(b)' <=> HubLinks(b)) /\ (HubPending(b)' <=> HubPending(b))
    BY <1>1, Zenon DEF HubLinks, HubPending
  <2>3. HubSound'
    BY <1>1, <2>1, <2>2, Zenon DEF HubSound
  <2>4. HubRefs'
    <3> SUFFICES ASSUME NEW r \in (Branch \cup Commit) \ Slashed, refs'[r] # None PROVE snapshot'[refs'[r]] # None
      BY Zenon DEF HubRefs
    <3>1. refs'[r] = refs[r] /\ snapshot' = snapshot
      BY <1>1, Zenon
    <3> QED
      BY <1>1, <2>1, <3>1, ZenonT(40) DEF HubRefs
  <2>5. HubBlobs'
    <3>1. Hub!Deleting' = {} => ~made
      BY <1>2, <2>1, Zenon DEF Hub!Deleting
    <3>2. ~made => \A b \in blobs' : HubPending(b)'
      BY <1>1, <2>1, <2>2, Zenon DEF HubBlobs
    <3>3. \A x \in Deletion : del'[x].pc = "sweep" =>
            del'[x].seen = blobs' /\ \A b \in blobs' : b \in del'[x].keep <=> HubLinks(b)'
      <4> SUFFICES ASSUME NEW x \in Deletion, del'[x].pc = "sweep"
                   PROVE  del'[x].seen = blobs' /\ \A b \in blobs' : b \in del'[x].keep <=> HubLinks(b)'
        BY Zenon
      <4>1. x = e /\ made
        BY <1>2, <2>1, Zenon
      <4>2. \A b \in blobs : b \in q.keep <=> HubLinks(b)
        BY <1>2, <4>1, HubLinkedBy, Zenon
      <4> QED
        BY <1>1, <1>2, <2>1, <2>2, <4>1, <4>2, ZenonT(40)
    <3> QED
      BY <1>1, <3>1, <3>2, <3>3, ZenonT(40) DEF HubBlobs
  <2> QED
    BY <2>1, <2>3, <2>4, <2>5, Zenon
<1>6. /\ snapshot' \in [Commit -> [File -> Hub!Slot] \cup {None}] /\ blobs' \subseteq Hub!Content
      /\ refs' \in [Branch \cup Commit -> Commit \cup {None}] /\ UNCHANGED <<head, dl>> /\ q.pc # "start"
  BY <1>1, <1>4, Zenon DEF HubInv, HubTypes
<1> QED
  BY <1>2, <1>3, <1>5, <1>6, HubDeletes, Zenon

\* The blobs no snapshot links to are removed.
LEMMA HubSweepMoves ==
  ASSUME Hub!WellFormed, HubInv, NEW e \in Deletion, Hub!SweepBlobs(e)
  PROVE  HubInv'
<1>1. PICK new \in SUBSET (blobs \ del[e].seen) :
        /\ del[e].pc = "sweep" /\ Hub!Step(e, "done")
        /\ blobs' = blobs \ (((blobs \cap del[e].seen) \cup new) \ del[e].keep)
        /\ UNCHANGED <<head, refs, snapshot, made, dl, overlap>>
  BY Zenon DEF Hub!SweepBlobs, Hub!Swept
<1>2. PICK q \in HubDeletion : q.pc = "done" /\ del' = [del EXCEPT ![e] = q]
  BY <1>1, HubSteps, Zenon
<1>3. HubOwn'
  BY <1>1, HubOwnKept, Zenon
<1>4. ASSUME HubCalm' PROVE HubApart' /\ HubSound' /\ HubRefs' /\ HubBlobs'
  <2>1. /\ HubSound /\ HubRefs /\ HubBlobs
        /\ Hub!Downloading' = {} /\ (\A d \in Download : dl[d].pc # "link")
        /\ \A x \in Deletion : x # e => del[x].pc \in {"start", "done"}
        /\ del'[e] = q /\ \A x \in Deletion : x # e => del'[x] = del[x]
        /\ HubApart'
    BY <1>1, <1>2, <1>4, HubAlone, ZenonT(40)
  <2>2. \A b : HubLinks(b)' <=> HubLinks(b)
    BY <1>1, Zenon DEF HubLinks
  <2>3. del[e].seen = blobs /\ \A b \in blobs : b \in del[e].keep <=> HubLinks(b)
    BY <1>1, <2>1, Zenon DEF HubBlobs
  <2>4. \A b : b \in blobs' <=> HubLinks(b)
    <3>1. ASSUME NEW b PROVE b \in blobs' <=> b \in blobs /\ HubLinks(b)
      BY <1>1, <2>3, Zenon
    <3> QED
      BY <2>1, <3>1, Zenon DEF HubSound
  <2>5. HubSound'
    BY <1>1, <2>1, <2>2, <2>4, ZenonT(40) DEF HubSound
  <2>6. HubRefs'
    <3> SUFFICES ASSUME NEW r \in (Branch \cup Commit) \ Slashed, refs'[r] # None PROVE snapshot'[refs'[r]] # None
      BY Zenon DEF HubRefs
    <3>1. refs'[r] = refs[r] /\ snapshot' = snapshot
      BY <1>1, Zenon
    <3> QED
      BY <1>1, <2>1, <3>1, Zenon DEF HubRefs
  <2>7. HubBlobs'
    <3>1. ~made => \A b : ~HubLinks(b)
      BY Zenon DEF HubInv, HubOwn, HubLinks
    <3>2. \A x \in Deletion : del'[x].pc # "sweep"
      BY <1>2, <2>1, Zenon
    <3>3. ~made' => \A b \in blobs' : HubPending(b)'
      BY <1>1, <2>4, <3>1, Zenon
    <3>4. \A b \in blobs' : HubLinks(b)'
      BY <2>2, <2>4, Zenon
    <3> QED
      BY <3>2, <3>3, <3>4, Zenon DEF HubBlobs
  <2> QED
    BY <2>1, <2>5, <2>6, <2>7, ZenonT(40)
<1>5. /\ snapshot' \in [Commit -> [File -> Hub!Slot] \cup {None}] /\ blobs' \subseteq Hub!Content
      /\ refs' \in [Branch \cup Commit -> Commit \cup {None}] /\ UNCHANGED <<head, dl>> /\ q.pc # "start"
  BY <1>1, <1>2, Zenon DEF HubInv, HubTypes
<1> QED
  BY <1>2, <1>3, <1>4, <1>5, HubDeletes, ZenonT(40)

\* The files the hub lists are removed from the default branch's snapshot.
LEMMA HubListedMoves ==
  ASSUME Hub!WellFormed, HubInv, NEW e \in Deletion, Hub!DeleteListed(e)
  PROVE  HubInv'
<1> SUFFICES ASSUME NEW c, c = refs[Default] PROVE HubInv'
  BY Zenon
<1> DEFINE left == [f \in File |-> IF Hub!Resolves(snapshot[c][f]) THEN None ELSE snapshot[c][f]]
<1>1. /\ Target[e] = "listed" /\ Hub!Step(e, "done")
      /\ UNCHANGED <<head, refs, blobs, made, dl>>
      /\ \/ snapshot' = snapshot
         \/ /\ c \in Commit /\ snapshot[c] # None
            /\ \/ snapshot' = [snapshot EXCEPT ![c] = None]
               \/ snapshot' = [snapshot EXCEPT ![c] = left]
  BY Zenon DEF Hub!DeleteListed
<1>2. PICK q \in HubDeletion : q.pc = "done" /\ del' = [del EXCEPT ![e] = q]
  BY <1>1, HubSteps, Zenon
<1>3. ~HubCalm'
  BY <1>1, <1>2, HubSetDeletion, Zenon DEF HubCalm, HubInv, HubTypes
<1>4. snapshot \in [Commit -> [File -> Hub!Slot] \cup {None}]
  BY Zenon DEF HubInv, HubTypes
<1>5. ASSUME c \in Commit, snapshot[c] # None
      PROVE  /\ left \in [File -> Hub!Slot]
             /\ \A f \in File : left[f] # None => left[f] = snapshot[c][f]
  <2>1. snapshot[c] \in [File -> Hub!Slot]
    BY <1>4, <1>5, Zenon
  <2>2. None \in Hub!Slot
    BY Zenon DEF Hub!Slot
  <2> QED
    BY <2>1, <2>2, Zenon
<1> HIDE DEF left
<1>6. snapshot' \in [Commit -> [File -> Hub!Slot] \cup {None}] /\ HubOwn'
  <2>1. CASE snapshot' = snapshot
    BY <1>1, <1>4, <2>1, HubOwnKept, ZenonT(40)
  <2>2. CASE c \in Commit /\ snapshot' = [snapshot EXCEPT ![c] = None]
    <3>1. /\ snapshot' \in [Commit -> [File -> Hub!Slot] \cup {None}]
          /\ \A k \in Commit : snapshot'[k] = None \/ snapshot'[k] = snapshot[k]
      BY <1>4, <2>2, Zenon
    <3> QED
      BY <1>1, <3>1, HubOwnKept, Zenon
  <2>3. CASE c \in Commit /\ snapshot[c] # None /\ snapshot' = [snapshot EXCEPT ![c] = left]
    <3>1. left \in [File -> Hub!Slot] /\ \A f \in File : left[f] # None => left[f] = snapshot[c][f]
      BY <1>5, <2>3, Zenon
    <3>2. /\ snapshot' \in [Commit -> [File -> Hub!Slot] \cup {None}]
          /\ snapshot'[c] = left /\ \A k \in Commit : k # c => snapshot'[k] = snapshot[k]
      BY <1>4, <2>3, <3>1, Zenon
    <3>3. ASSUME NEW k \in Commit, NEW f \in File, snapshot'[k] # None, snapshot'[k][f] # None
          PROVE  snapshot'[k][f].content = BlobOf[k][f]
      <4>1. CASE k = c
        <5>1. snapshot'[k][f] = snapshot[k][f] /\ snapshot[k] # None /\ snapshot[k][f] # None
          BY <2>3, <3>1, <3>2, <3>3, <4>1, ZenonT(40)
        <5> QED
          BY <5>1, Zenon DEF HubInv, HubOwn
      <4>2. CASE k # c
        <5>1. snapshot'[k] = snapshot[k]
          BY <3>2, <4>2, Zenon
        <5> QED
          BY <5>1, <3>3, Zenon DEF HubInv, HubOwn
      <4> QED
        BY <4>1, <4>2, Zenon
    <3>4. made
      BY <2>3, Zenon DEF HubInv, HubOwn
    <3> QED
      BY <1>1, <3>2, <3>3, <3>4, Zenon DEF HubOwn
  <2> QED
    BY <1>1, <2>1, <2>2, <2>3, ZenonT(40)
<1>7. /\ blobs' \subseteq Hub!Content /\ refs' \in [Branch \cup Commit -> Commit \cup {None}]
      /\ UNCHANGED <<head, dl>> /\ q.pc # "start"
  BY <1>1, <1>2, Zenon DEF HubInv, HubTypes
<1> QED
  BY <1>2, <1>3, <1>6, <1>7, HubDeletes, ZenonT(40)

\* The invariant reads neither the branches' heads nor the faults.
LEMMA HubSame ==
  ASSUME HubInv, head' \in [Branch -> Commit], UNCHANGED <<refs, snapshot, blobs, made, dl, del, overlap>>
  PROVE  HubInv'
<1>1. HubTypes' /\ HubOwn'
  BY Zenon DEF HubInv, HubTypes, HubOwn
<1>2. HubFresh'
  BY Zenon DEF HubInv, HubFresh
<1>3. HubCalm' => HubCalm
  BY Zenon DEF HubCalm
<1>4. \A b : (HubLinks(b)' <=> HubLinks(b)) /\ (HubPending(b)' <=> HubPending(b))
  BY Zenon DEF HubLinks, HubPending
<1>5. Hub!Downloading' = Hub!Downloading /\ Hub!Deleting' = Hub!Deleting
  BY Zenon DEF Hub!Downloading, Hub!Deleting
<1>6. ASSUME HubCalm PROVE HubApart' /\ HubSound' /\ HubRefs' /\ HubBlobs'
  <2>1. HubApart /\ HubSound /\ HubRefs /\ HubBlobs
    BY <1>6, Zenon DEF HubInv
  <2>2. HubApart'
    BY <1>5, <2>1, Zenon DEF HubApart
  <2>3. HubSound'
    BY <1>4, <1>5, <2>1, Zenon DEF HubSound
  <2>4. HubRefs'
    BY <2>1, Zenon DEF HubRefs
  <2>5. HubBlobs'
    BY <1>4, <1>5, <2>1, Zenon DEF HubBlobs
  <2> QED
    BY <2>2, <2>3, <2>4, <2>5, Zenon
<1> QED
  BY <1>1, <1>2, <1>3, <1>6, Zenon DEF HubInv

\* The empty cache.
LEMMA HubBegin == ASSUME Hub!WellFormed, Hub!Init PROVE HubInv
<1>1. /\ head \in [Branch -> Commit] /\ refs = [r \in Branch \cup Commit |-> None]
      /\ snapshot = [c \in Commit |-> None] /\ blobs = {} /\ made = FALSE
      /\ dl = [d \in Download |-> Hub!Idle]
      /\ del = [e \in Deletion |-> [pc |-> "start", commit |-> None, seen |-> {}, keep |-> {}]]
  BY Zenon DEF Hub!Init, Hub!Revision
<1>2. [pc |-> "start", commit |-> None, seen |-> {}, keep |-> {}] \in HubDeletion
  BY Zenon DEF HubDeletion
<1>3. /\ dl \in [Download -> HubDownload] /\ del \in [Deletion -> HubDeletion]
      /\ \A d \in Download : dl[d].pc = "start"
      /\ \A e \in Deletion : del[e].pc = "start"
      /\ \A c \in Commit : snapshot[c] = None
      /\ \A r \in Branch \cup Commit : refs[r] = None
  BY <1>1, <1>2, HubFailed, Zenon
<1>4. HubTypes
  BY <1>1, <1>3, Zenon DEF HubTypes
<1>5. HubOwn /\ HubFresh
  BY <1>1, <1>3, Zenon DEF HubOwn, HubFresh
<1>6. Hub!Downloading = {} /\ Hub!Deleting = {}
  BY <1>3, Zenon DEF Hub!Downloading, Hub!Deleting
<1>7. \A b : ~HubLinks(b)
  BY <1>3, Zenon DEF HubLinks
<1>8. HubApart /\ HubSound
  BY <1>3, <1>6, <1>7, Zenon DEF HubApart, HubSound
<1>9. HubRefs /\ HubBlobs
  BY <1>1, <1>3, ZenonT(40) DEF HubRefs, HubBlobs
<1> QED
  BY <1>4, <1>5, <1>8, <1>9, Zenon DEF HubInv

\* HubInv is inductive.
LEMMA HubInvariance == Hub!WellFormed /\ Hub!Spec => []HubInv
<1> SUFFICES ASSUME Hub!WellFormed PROVE Hub!Spec => []HubInv
  OBVIOUS
<1>1. Hub!Init => HubInv
  BY HubBegin, Zenon
<1>2. HubInv /\ [Hub!Next]_(Hub!vars) => HubInv'
  <2> SUFFICES ASSUME HubInv, [Hub!Next]_(Hub!vars) PROVE HubInv'
    OBVIOUS
  <2>1. CASE \E d \in Download : Hub!DownloadStep(d) \/ Hub!FetchFullBody(d) \/ Hub!FetchFails(d)
    BY <2>1, HubStartMoves, HubFetchMoves, HubFullBodyMoves, HubPublishMoves, ZenonT(40) DEF Hub!DownloadStep
  <2>2. CASE \E e \in Deletion : Hub!DeletionStep(e)
    BY <2>2, HubRemoveMoves, HubDropMoves, HubLookMoves, HubClearMoves, HubScanMoves, HubSweepMoves,
       HubListedMoves, ZenonT(40) DEF Hub!DeletionStep
  <2>3. CASE Hub!BranchMoves
    <3>1. PICK b \in Branch, c \in Commit :
            /\ head' = [head EXCEPT ![b] = c] /\ UNCHANGED <<refs, snapshot, blobs, made, dl, del, overlap>>
      BY <2>3, Zenon DEF Hub!BranchMoves, Hub!cacheVars
    <3>2. head' \in [Branch -> Commit]
      BY <3>1, Zenon DEF HubInv, HubTypes
    <3> QED
      BY <3>1, <3>2, HubSame, Zenon
  <2>4. CASE Hub!RestartOffline \/ UNCHANGED Hub!vars
    <3>1. UNCHANGED <<head, refs, snapshot, blobs, made, dl, del, overlap>>
      BY <2>4, Zenon DEF Hub!RestartOffline, Hub!vars, Hub!cacheVars
    <3>2. head' \in [Branch -> Commit]
      BY <3>1, ZenonT(40) DEF HubInv, HubTypes
    <3> QED
      BY <3>1, <3>2, HubSame, Zenon
  <2> QED
    BY <2>1, <2>2, <2>3, <2>4, Zenon DEF Hub!Next
<1> QED
  BY <1>1, <1>2, PTL DEF Hub!Spec

\* A snapshot holds files of its own commit however the branch moves, and a download that
\* succeeded left it whole (download_at_revision).
THEOREM HubInstalledWhole == Hub!WellFormed /\ Hub!Spec => []Hub!InstalledWhole
<1> SUFFICES ASSUME Hub!WellFormed PROVE Hub!Spec => []Hub!InstalledWhole
  OBVIOUS
<1>0. Hub!Spec => []HubInv
  BY HubInvariance
<1>1. HubInv => Hub!InstalledWhole
  <2> SUFFICES ASSUME HubInv PROVE Hub!InstalledWhole
    OBVIOUS
  <2>1. ASSUME NEW d \in Download, dl[d].pc = "ok", dl[d].local => Wants[d] \in Branch,
               \A e \in Deletion : del[e].pc = "start", NEW f \in File \ Empty
        PROVE  Hub!Resolves(Hub!Entry(d, f))
    <3>1. dl[d].todo = {}
      BY <2>1, Zenon DEF HubInv, HubFresh
    <3>2. HubHas(snapshot, blobs, dl[d].sha, f)
      BY <2>1, <3>1, Zenon DEF HubInv, HubFresh
    <3> QED
      BY <3>2, HubResolves, Zenon DEF Hub!Entry
  <2>2. \A c \in Commit, f \in File :
          snapshot[c] # None /\ snapshot[c][f] # None => snapshot[c][f].content = BlobOf[c][f]
    BY ZenonT(40) DEF HubInv, HubOwn
  <2> QED
    BY <2>1, <2>2, Zenon DEF Hub!InstalledWhole
<1> QED
  BY <1>0, <1>1, PTL

\* A deletion nothing overlaps breaks no link of another revision, and leaves no ref of
\* refs/ itself without its snapshot and no blob without a link; a ref with a slash in its
\* name is not dropped (delete_model_revision, reclaim_unreferenced_blobs).
THEOREM HubDeletionSparesOthers == Hub!WellFormed /\ Hub!Spec => []Hub!DeletionSparesOthers
<1> SUFFICES ASSUME Hub!WellFormed PROVE Hub!Spec => []Hub!DeletionSparesOthers
  OBVIOUS
<1>0. Hub!Spec => []HubInv
  BY HubInvariance
<1>1. HubInv => Hub!DeletionSparesOthers
  <2> SUFFICES ASSUME HubInv, HubCalm
               PROVE  /\ \A c \in Commit : Hub!LinkedBy(c) \subseteq blobs
                      /\ Hub!Quiet => \A r \in Hub!Revision \ Slashed : refs[r] # None => snapshot[refs[r]] # None
                      /\ Hub!Quiet => blobs \subseteq Hub!Linked
    BY Zenon DEF HubCalm, Hub!DeletionSparesOthers
  <2>1. HubSound /\ HubRefs /\ HubBlobs
    BY Zenon DEF HubInv
  <2>2. ASSUME NEW c \in Commit, NEW b \in Hub!LinkedBy(c) PROVE b \in blobs
    <3>1. b \in Hub!Linked
      BY <2>2, Zenon DEF Hub!Linked
    <3> QED
      BY <2>1, <3>1, HubLinkedBy, Zenon DEF HubSound
  <2>3. ASSUME Hub!Quiet, NEW r \in Hub!Revision \ Slashed, refs[r] # None PROVE snapshot[refs[r]] # None
    <3>1. \A e \in Deletion : del[e].pc # "refs"
      BY <2>3, Zenon DEF Hub!Quiet, Hub!Deleting
    <3> QED
      BY <2>1, <2>3, <3>1, Zenon DEF HubRefs, Hub!Revision
  <2>4. ASSUME Hub!Quiet, NEW b \in blobs PROVE b \in Hub!Linked
    <3>1. Hub!Deleting = {} /\ ~HubPending(b)
      BY <2>4, Zenon DEF Hub!Quiet, Hub!Downloading, HubPending
    <3>2. HubLinks(b)
      BY <2>1, <2>4, <3>1, Zenon DEF HubBlobs
    <3> QED
      BY <3>2, HubLinkedBy, Zenon
  <2> QED
    BY <2>2, <2>3, <2>4, Zenon
<1> QED
  BY <1>0, <1>1, PTL
=============================================================================
