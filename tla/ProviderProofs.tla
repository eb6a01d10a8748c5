--------------------------- MODULE ProviderProofs ---------------------------
(***************************************************************************)
(* Proofs about the downloads of the storage providers, for every set of   *)
(* models, files and downloads, any number of deletions and of faults.     *)
(* The providers share nothing but the names of some variables: each       *)
(* theorem is about the specification of one of them.                      *)
(***************************************************************************)
EXTENDS Naturals, Sequences, FiniteSets, TLAPS

CONSTANTS
  Model, Below, Object, Size, Download, ModelOf, Deletion, Removes, Fault, MaxFaults, None,
  File, Weights, Generation, Listed, Metadata, Page, Concurrency

VARIABLES
  data, marker, dirs, dl, removed, faults, budget,
  bucket, manifest, damaged, disk, part, lock, manifestLock, stray, raced,
  temp, fresh, refreshing, refreshes, expiries

-----------------------------------------------------------------------------
(* Google Cloud Storage: installed files are whole and as pinned, and models *)
(* below each other are not both installed.                                  *)

GCS == INSTANCE GcsDownload

GcsPc == {"start", "available", "manifest", "listing", "recheck", "tasks", "ok", "failed"}

GcsTaskState == {"none", "todo", "stream", "lost", "verified", "done"}

GcsPins == UNION {[Listed[m] -> Generation] : m \in Model}

GcsDl == [pc : GcsPc, pins : GcsPins \cup {None}, task : [File -> GcsTaskState]]

\* h has an entry for every model and file.
GcsGrid(h) == DOMAIN h = Model /\ \A m \in Model : DOMAIN h[m] = File

GcsTypes ==
  /\ bucket \in [File -> Generation]
  /\ DOMAIN manifest = Model /\ \A m \in Model : manifest[m] \in [Listed[m] -> Generation] \cup {None}
  /\ DOMAIN disk = File /\ GcsGrid(part) /\ GcsGrid(lock)
  /\ dl \in [Download -> GcsDl]
  /\ removed \in [Deletion -> BOOLEAN]
  /\ \A d \in Download : dl[d].pc \in {"recheck", "tasks"} => dl[d].pins \in [Listed[ModelOf[d]] -> Generation]

\* While its directory was not removed under a download, a running task holds
\* the lock of its file, and what it has verified is what it renames.
GcsTask(d) == LET m == ModelOf[d] t == dl[d].task IN
  dl[d].pc = "tasks" => \A f \in File :
    /\ t[f] # "none" => f \in Listed[m]
    /\ m \notin stray =>
         /\ t[f] # "lost"
         /\ t[f] \in {"stream", "verified"} => lock[m][f] = d
         /\ t[f] = "verified" => part[m][f] = GCS!Whole(dl[d].pins[f])

GcsHeld == GcsTypes /\ \A d \in Download : GcsTask(d)

\* No deletion has taken n's directory.
Kept(n) == \A e \in Deletion : removed[e] => n \notin GCS!AtOrBelow(Removes[e])

GcsDamage == "damage" \notin faults => damaged = {}

GcsWhole ==
  \A f \in File : disk[f] # None =>
    (\E g \in Generation : disk[f] = GCS!Whole(g)) \/ GCS!Around(f) \cap stray # {}

\* The manifest a download took its pins from is there, and unchanged.
GcsKept ==
  /\ \A n \in Model : Kept(n) => n \notin stray
  /\ \A d \in Download : LET m == ModelOf[d] IN
       Kept(m) /\ dl[d].pc \in {"recheck", "tasks"} =>
         manifest[m] # None /\ ("damage" \notin faults => dl[d].pins = manifest[m])

\* A file belongs to a model that has its manifest.
GcsOwned ==
  \A m \in Model : GCS!Untouched(m) => \A f \in Listed[m] : disk[f] # None =>
    \E n \in Model : f \in Listed[n] /\ manifest[n] # None

\* It is what the manifest pins.
GcsExact ==
  ~raced /\ "damage" \notin faults => \A m \in Model : GCS!Untouched(m) /\ manifest[m] # None =>
    \A f \in Listed[m] : disk[f] # None => disk[f] = GCS!Whole(manifest[m][f])

GcsDone ==
  \A d \in Download : dl[d].pc = "ok" /\ GCS!Untouched(ModelOf[d]) =>
    manifest[ModelOf[d]] # None /\ \A f \in GCS!Wanted(d) : disk[f] # None

\* d may still write its manifest.
Admitted(d) == dl[d].pc \in {"manifest", "listing"}

\* Downloads that may still write a manifest overlap nothing, unless two were
\* admitted at once.
GcsAdmission ==
  ~raced =>
    /\ \A d, e \in Download : Admitted(d) /\ Admitted(e) => ModelOf[e] \notin GCS!Overlapping(ModelOf[d])
    /\ \A d \in Download : Admitted(d) => GCS!find_overlap(ModelOf[d]) = {}

GcsDirs ==
  /\ GcsDamage /\ GcsWhole /\ GcsKept /\ GcsOwned /\ GcsExact /\ GcsDone /\ GcsAdmission
  /\ GCS!DeletionSparesOthers

GcsInv == GcsHeld /\ GcsDirs

\* The files a download is for.
LEMMA GcsWantedFiles ==
  ASSUME GCS!WellFormed, NEW d \in Download
  PROVE  /\ ModelOf[d] \in Model /\ GCS!Wanted(d) \subseteq Listed[ModelOf[d]]
         /\ GCS!Wanted(d) \subseteq File /\ Listed[ModelOf[d]] \subseteq File
BY Zenon DEF GCS!Wanted, GCS!WellFormed

\* Models that share a file lie above or below each other.
LEMMA GcsShared ==
  ASSUME GCS!WellFormed, NEW m \in Model, NEW n \in Model, NEW f \in Listed[m], f \in Listed[n]
  PROVE  n = m \/ n \in GCS!Overlapping(m)
BY Zenon DEF GCS!WellFormed

\* While nothing around m was deleted, no model around it has lost its directory.
LEMMA GcsNear ==
  ASSUME GCS!WellFormed, NEW m \in Model, NEW n \in Model, GCS!Untouched(m),
         n = m \/ n \in GCS!Overlapping(m)
  PROVE  Kept(n)
<1> SUFFICES ASSUME NEW e \in Deletion, removed[e], n \in GCS!AtOrBelow(Removes[e]) PROVE FALSE
  BY Zenon DEF Kept
<1> DEFINE r == Removes[e]
<1>1. r \in Model /\ r # m /\ r \notin GCS!Overlapping(m) /\ (n = r \/ <<r, n>> \in Below)
  BY Zenon DEF GCS!WellFormed, GCS!Untouched, GCS!AtOrBelow
<1>2. CASE n = m
  BY <1>1, <1>2, Zenon DEF GCS!Overlapping
<1>3. CASE n \in GCS!Overlapping(m)
  BY <1>1, <1>3, Zenon DEF GCS!WellFormed
<1> QED
  BY <1>2, <1>3, Zenon

\* One entry changes.
LEMMA GcsPut ==
  ASSUME NEW h, GcsGrid(h), NEW m \in Model, NEW f \in File, NEW v, NEW k, k = [h EXCEPT ![m][f] = v]
  PROVE  /\ GcsGrid(k) /\ k[m][f] = v
         /\ \A n \in Model, x \in File : n # m \/ x # f => k[n][x] = h[n][x]
BY Zenon DEF GcsGrid

-----------------------------------------------------------------------------
\* d goes to pc; all keep their pins.
GcsMoved(d, pc) ==
  /\ dl' \in [Download -> GcsDl] /\ dl'[d].pc = pc
  /\ \A e \in Download : dl'[e].pins = dl[e].pins /\ (e # d => dl'[e].pc = dl[e].pc)

\* The task of f becomes s.
GcsOwn(d, f, s) ==
  dl'[d].task[f] = s /\ \A x \in File : x # f => dl'[d].task[x] = dl[d].task[x]

\* Another download of the same file may lose its partial file.
GcsOthers(d, f) ==
  \A e \in Download, x \in File : e # d =>
    \/ dl'[e].task[x] = dl[e].task[x]
    \/ x = f /\ ModelOf[e] = ModelOf[d] /\ dl[e].task[x] = "stream" /\ dl'[e].task[x] = "lost"

\* Only the partial file of f changes, and only locks that d holds or takes.
GcsAside(d, f) ==
  \A n \in Model, x \in File : n # ModelOf[d] \/ x # f =>
    part'[n][x] = part[n][x] /\ (lock'[n][x] = lock[n][x] \/ lock[n][x] = d)

\* Only the partial file and the lock of f change.
GcsOnly(d, f) ==
  \A n \in Model, x \in File : n # ModelOf[d] \/ x # f =>
    part'[n][x] = part[n][x] /\ lock'[n][x] = lock[n][x]

\* d was free to take the lock of f, and has it if its task is s.
GcsHolds(d, f, s) ==
  ModelOf[d] \notin stray =>
    /\ lock[ModelOf[d]][f] \in {None, d} /\ s # "lost"
    /\ s \in {"stream", "verified"} => lock'[ModelOf[d]][f] = d
    /\ s = "verified" => part'[ModelOf[d]][f] = GCS!Whole(dl[d].pins[f])

\* The record of one download changes.
LEMMA GcsSet ==
  ASSUME GcsTypes, NEW d \in Download, NEW r \in GcsDl, dl' = [dl EXCEPT ![d] = r]
  PROVE  /\ dl' \in [Download -> GcsDl] /\ dl'[d] = r
         /\ \A e \in Download : e # d => dl'[e] = dl[e]
BY Zenon DEF GcsTypes

\* The fields of a download.
LEMMA GcsFields ==
  ASSUME GcsTypes, NEW d \in Download
  PROVE  dl[d] \in GcsDl /\ dl[d].pc \in GcsPc /\ dl[d].pins \in GcsPins \cup {None}
         /\ dl[d].task \in [File -> GcsTaskState]
BY Zenon DEF GcsTypes, GcsDl

\* What setting a download's program counter does.
LEMMA GcsGoto ==
  ASSUME GcsTypes, NEW d \in Download, NEW pc \in GcsPc, GCS!Goto(d, pc)
  PROVE  GcsMoved(d, pc) /\ \A e \in Download : dl'[e].task = dl[e].task
<1> DEFINE r == [dl[d] EXCEPT !.pc = pc]
<1>1. dl[d] \in GcsDl
  BY Zenon DEF GcsTypes
<1>2. r \in GcsDl /\ r.pc = pc /\ r.pins = dl[d].pins /\ r.task = dl[d].task
  BY <1>1, ZenonT(40) DEF GcsDl
<1>3. dl' = [dl EXCEPT ![d] = r]
  BY Zenon DEF GCS!Goto
<1> HIDE DEF r
<1> QED
  BY <1>2, <1>3, GcsSet, ZenonT(40) DEF GcsMoved

\* What setting a task's state does.
LEMMA GcsSetTask ==
  ASSUME GcsTypes, NEW d \in Download, NEW f \in File, NEW s \in GcsTaskState, GCS!SetTask(d, f, s)
  PROVE  GcsMoved(d, dl[d].pc) /\ GcsOwn(d, f, s) /\ GcsOthers(d, f)
<1> DEFINE t == [dl[d].task EXCEPT ![f] = s]
           r == [dl[d] EXCEPT !.task = t]
<1>1. dl[d] \in GcsDl /\ dl[d].task \in [File -> GcsTaskState]
  BY GcsFields, Zenon
<1>2. t \in [File -> GcsTaskState] /\ t[f] = s /\ \A x \in File : x # f => t[x] = dl[d].task[x]
  BY <1>1, Zenon
<1>3. dl' = [dl EXCEPT ![d] = r]
  BY Zenon DEF GCS!SetTask
<1> HIDE DEF t
<1>4. r \in GcsDl /\ r.pc = dl[d].pc /\ r.pins = dl[d].pins /\ r.task = t
  BY <1>1, <1>2, Zenon DEF GcsDl
<1> HIDE DEF r
<1>5. /\ dl' \in [Download -> GcsDl] /\ dl'[d] = r
      /\ \A e \in Download : e # d => dl'[e] = dl[e]
  BY <1>3, <1>4, GcsSet, Zenon
<1> QED
  BY <1>2, <1>4, <1>5, ZenonT(40) DEF GcsMoved, GcsOwn, GcsOthers

\* The same, when whoever writes to the partial file loses it.
LEMMA GcsSetTaskAlone ==
  ASSUME GcsTypes, NEW d \in Download, NEW f \in File, NEW s \in GcsTaskState, NEW pc \in GcsPc,
         GCS!SetTaskAlone(d, f, s, pc)
  PROVE  GcsMoved(d, pc) /\ GcsOwn(d, f, s) /\ GcsOthers(d, f)
<1> DEFINE put(e, v) == [dl[e].task EXCEPT ![f] = v]
           r == [dl[d] EXCEPT !.pc = pc, !.task = put(d, s)]
           q(e) == [dl[e] EXCEPT !.task = put(e, "lost")]
           hit(e) == ModelOf[e] = ModelOf[d] /\ dl[e].task[f] = "stream"
<1>1. ASSUME NEW e \in Download, NEW v \in GcsTaskState
      PROVE  /\ put(e, v) \in [File -> GcsTaskState] /\ put(e, v)[f] = v
             /\ \A x \in File : x # f => put(e, v)[x] = dl[e].task[x]
  <2>1. dl[e].task \in [File -> GcsTaskState]
    BY GcsFields, Zenon
  <2> QED
    BY <2>1, Zenon
<1>2. dl' = [x \in Download |-> IF x = d THEN r ELSE IF hit(x) THEN q(x) ELSE dl[x]]
  BY Zenon DEF GCS!SetTaskAlone
<1> HIDE DEF put
<1>3. r \in GcsDl /\ r.pc = pc /\ r.pins = dl[d].pins /\ r.task = put(d, s)
  <2>1. dl[d] \in GcsDl /\ put(d, s) \in [File -> GcsTaskState]
    BY <1>1, GcsFields, Zenon
  <2> QED
    BY <2>1, Zenon DEF GcsDl
<1>4. ASSUME NEW e \in Download
      PROVE  q(e) \in GcsDl /\ q(e).pc = dl[e].pc /\ q(e).pins = dl[e].pins /\ q(e).task = put(e, "lost")
  <2>1. dl[e] \in GcsDl /\ put(e, "lost") \in [File -> GcsTaskState]
    BY <1>1, GcsFields, Zenon DEF GcsTaskState
  <2> QED
    BY <2>1, Zenon DEF GcsDl
<1> HIDE DEF r, q
<1>5. dl'[d] = r /\ \A e \in Download : e # d => dl'[e] = dl[e] \/ (hit(e) /\ dl'[e] = q(e))
  BY <1>2, Zenon
<1>6. dl' \in [Download -> GcsDl]
  BY <1>2, <1>3, <1>4, GcsFields, ZenonT(40)
<1>7. GcsMoved(d, pc)
  BY <1>3, <1>4, <1>5, <1>6, ZenonT(40) DEF GcsMoved
<1>8. GcsOwn(d, f, s)
  <2>1. dl'[d].task = put(d, s)
    BY <1>3, <1>5, Zenon
  <2>2. put(d, s)[f] = s /\ \A x \in File : x # f => put(d, s)[x] = dl[d].task[x]
    BY <1>1, Zenon
  <2> QED
    BY <2>1, <2>2, Zenon DEF GcsOwn
<1>9. ASSUME NEW e \in Download, NEW x \in File, e # d, dl'[e].task[x] # dl[e].task[x]
      PROVE  x = f /\ ModelOf[e] = ModelOf[d] /\ dl[e].task[x] = "stream" /\ dl'[e].task[x] = "lost"
  <2>1. hit(e) /\ dl'[e].task = put(e, "lost")
    BY <1>4, <1>5, <1>9, Zenon
  <2>2. /\ put(e, "lost")[f] = "lost"
        /\ \A y \in File : y # f => put(e, "lost")[y] = dl[e].task[y]
    BY <1>1, Zenon DEF GcsTaskState
  <2> QED
    BY <1>9, <2>1, <2>2, Zenon
<1> QED
  BY <1>7, <1>8, <1>9, Zenon DEF GcsOthers

-----------------------------------------------------------------------------
\* A download whose files and locks nobody takes.
LEMMA GcsTaskKept ==
  ASSUME NEW e \in Download, GcsTask(e), dl'[e].pins = dl[e].pins,
         dl'[e].pc = "tasks" => dl[e].pc = "tasks", stray \subseteq stray',
         \A x \in File : dl'[e].task[x] # "none" => dl[e].task[x] # "none",
         dl[e].pc = "tasks" /\ ModelOf[e] \notin stray' => \A x \in File :
           /\ dl'[e].task[x] = dl[e].task[x]
           /\ lock[ModelOf[e]][x] = e =>
                lock'[ModelOf[e]][x] = e /\ part'[ModelOf[e]][x] = part[ModelOf[e]][x]
  PROVE  GcsTask(e)'
<1> DEFINE m == ModelOf[e]
<1> SUFFICES ASSUME dl'[e].pc = "tasks", NEW f \in File
             PROVE  /\ dl'[e].task[f] # "none" => f \in Listed[m]
                    /\ m \notin stray' =>
                         /\ dl'[e].task[f] # "lost"
                         /\ dl'[e].task[f] \in {"stream", "verified"} => lock'[m][f] = e
                         /\ dl'[e].task[f] = "verified" => part'[m][f] = GCS!Whole(dl'[e].pins[f])
  BY Zenon DEF GcsTask, GCS!Whole
<1>1. dl[e].pc = "tasks"
  BY Zenon
<1>2. dl'[e].task[f] # "none" => f \in Listed[m]
  BY <1>1, Zenon DEF GcsTask
<1>3. ASSUME m \notin stray'
      PROVE  /\ dl'[e].task[f] # "lost"
             /\ dl'[e].task[f] \in {"stream", "verified"} => lock'[m][f] = e
             /\ dl'[e].task[f] = "verified" => part'[m][f] = GCS!Whole(dl'[e].pins[f])
  <2>1. m \notin stray /\ dl'[e].task[f] = dl[e].task[f]
    BY <1>1, <1>3, Zenon
  <2>2. /\ dl[e].task[f] # "lost"
        /\ dl[e].task[f] \in {"stream", "verified"} => lock[m][f] = e
        /\ dl[e].task[f] = "verified" => part[m][f] = GCS!Whole(dl[e].pins[f])
    BY <1>1, <2>1, Zenon DEF GcsTask
  <2> QED
    BY <1>1, <1>3, <2>1, <2>2, Zenon
<1> QED
  BY <1>2, <1>3, Zenon

\* A step of d's task of f disturbs no other download.
LEMMA GcsOtherTasks ==
  ASSUME GCS!WellFormed, GcsHeld, NEW d \in Download, NEW f \in File, NEW pc, GcsMoved(d, pc),
         GcsOthers(d, f), GcsAside(d, f), stray' = stray,
         ModelOf[d] \notin stray => lock[ModelOf[d]][f] \in {None, d}
  PROVE  \A e \in Download : e # d => GcsTask(e)'
<1> SUFFICES ASSUME NEW e \in Download, e # d PROVE GcsTask(e)'
  BY Zenon
<1> DEFINE m == ModelOf[e]
<1>1. m \in Model /\ e # None
  BY Zenon DEF GCS!WellFormed
<1>2. ASSUME dl[e].pc = "tasks", m \notin stray', NEW x \in File
      PROVE  /\ dl'[e].task[x] = dl[e].task[x]
             /\ lock[m][x] = e => lock'[m][x] = e /\ part'[m][x] = part[m][x]
  <2>1. dl[e].task[x] = "stream" => lock[m][x] = e
    BY <1>2, Zenon DEF GcsHeld, GcsTask
  <2>2. CASE m = ModelOf[d] /\ x = f
    BY <1>1, <1>2, <2>1, <2>2, Zenon DEF GcsOthers
  <2>3. CASE m # ModelOf[d] \/ x # f
    <3>1. dl'[e].task[x] = dl[e].task[x]
      BY <2>3, Zenon DEF GcsOthers
    <3>2. part'[m][x] = part[m][x] /\ (lock'[m][x] = lock[m][x] \/ lock[m][x] = d)
      BY <1>1, <2>3, Zenon DEF GcsAside
    <3> QED
      BY <3>1, <3>2, Zenon
  <2> QED
    BY <2>2, <2>3, Zenon
<1>3. \A x \in File : dl'[e].task[x] # "none" => dl[e].task[x] # "none"
  BY Zenon DEF GcsOthers
<1>4. GcsTask(e) /\ dl'[e].pins = dl[e].pins /\ dl'[e].pc = dl[e].pc
  BY Zenon DEF GcsHeld, GcsMoved
<1> QED
  BY <1>2, <1>3, <1>4, GcsTaskKept, ZenonT(40)

\* Nor d's other tasks.
LEMMA GcsOwnTask ==
  ASSUME GCS!WellFormed, GcsHeld, NEW d \in Download, NEW f \in File, NEW s, GcsOwn(d, f, s),
         dl[d].pc = "tasks", dl[d].task[f] # "none", dl'[d].pins = dl[d].pins, stray' = stray,
         \A x \in File : x # f => /\ part'[ModelOf[d]][x] = part[ModelOf[d]][x]
                                  /\ lock'[ModelOf[d]][x] = lock[ModelOf[d]][x],
         ModelOf[d] \notin stray =>
           /\ s # "lost"
           /\ s \in {"stream", "verified"} => lock'[ModelOf[d]][f] = d
           /\ s = "verified" => part'[ModelOf[d]][f] = GCS!Whole(dl[d].pins[f])
  PROVE  GcsTask(d)'
<1> DEFINE m == ModelOf[d]
<1> SUFFICES ASSUME NEW x \in File
             PROVE  /\ dl'[d].task[x] # "none" => x \in Listed[m]
                    /\ m \notin stray =>
                         /\ dl'[d].task[x] # "lost"
                         /\ dl'[d].task[x] \in {"stream", "verified"} => lock'[m][x] = d
                         /\ dl'[d].task[x] = "verified" => part'[m][x] = GCS!Whole(dl[d].pins[x])
  BY Zenon DEF GcsTask, GCS!Whole
<1>1. CASE x = f
  BY <1>1, Zenon DEF GcsHeld, GcsTask, GcsOwn
<1>2. CASE x # f
  <2>1. dl'[d].task[x] = dl[d].task[x] /\ lock'[m][x] = lock[m][x] /\ part'[m][x] = part[m][x]
    BY <1>2, Zenon DEF GcsOwn
  <2> QED
    BY <2>1, Zenon DEF GcsHeld, GcsTask
<1> QED
  BY <1>1, <1>2, Zenon

\* The types, when the directories keep theirs and d goes on.
LEMMA GcsTypesKept ==
  ASSUME GcsTypes, NEW d \in Download, NEW pc, GcsMoved(d, pc),
         pc \in {"recheck", "tasks"} => dl[d].pc \in {"recheck", "tasks"},
         UNCHANGED <<bucket, manifest, removed>>, DOMAIN disk' = File, GcsGrid(part'), GcsGrid(lock')
  PROVE  GcsTypes'
<1>1. /\ dl' \in [Download -> GcsDl]
      /\ \A e \in Download : dl'[e].pc \in {"recheck", "tasks"} => dl'[e].pins \in [Listed[ModelOf[e]] -> Generation]
  BY ZenonT(40) DEF GcsMoved, GcsTypes
<1> QED
  BY <1>1, ZenonT(40) DEF GcsTypes, GcsGrid

\* The locks of d are released.
LEMMA GcsReleased ==
  ASSUME GcsTypes, NEW d, GCS!Released(d)
  PROVE  GcsGrid(lock') /\ \A n \in Model, x \in File : lock'[n][x] = lock[n][x] \/ lock[n][x] = d
BY Zenon DEF GCS!Released, GcsGrid

\* A download goes on without its tasks, or fails.
LEMMA GcsLeaves ==
  ASSUME GCS!WellFormed, GcsHeld, NEW d \in Download, NEW pc \in GcsPc \ {"recheck", "tasks"},
         GCS!Goto(d, pc), UNCHANGED <<bucket, manifest, disk, part, stray, removed>>,
         lock' = lock \/ GCS!Released(d)
  PROVE  GcsHeld' /\ GcsMoved(d, pc)
<1>1. GcsMoved(d, pc) /\ \A e \in Download : dl'[e].task = dl[e].task
  BY GcsGoto, Zenon DEF GcsHeld
<1>2. GcsGrid(lock') /\ \A n \in Model, x \in File : lock'[n][x] = lock[n][x] \/ lock[n][x] = d
  <2>1. CASE lock' = lock
    BY <2>1, Zenon DEF GcsHeld, GcsTypes
  <2>2. CASE GCS!Released(d)
    BY <2>2, GcsReleased, Zenon DEF GcsHeld, GcsGrid
  <2> QED
    BY <2>1, <2>2, Zenon
<1>3. GcsTypes'
  BY <1>1, <1>2, GcsTypesKept, ZenonT(40) DEF GcsHeld, GcsTypes
<1>4. ASSUME NEW e \in Download PROVE GcsTask(e)'
  <2>1. CASE e = d
    BY <1>1, <2>1, Zenon DEF GcsTask, GcsMoved
  <2>2. CASE e # d
    <3>1. /\ GcsTask(e) /\ dl'[e].pins = dl[e].pins /\ dl'[e].pc = dl[e].pc /\ ModelOf[e] \in Model
          /\ dl'[e].task = dl[e].task
      BY <1>1, <2>2, Zenon DEF GcsHeld, GcsMoved, GCS!WellFormed
    <3>2. \A x \in File : lock[ModelOf[e]][x] = e =>
            lock'[ModelOf[e]][x] = e /\ part'[ModelOf[e]][x] = part[ModelOf[e]][x]
      BY <1>2, <2>2, <3>1, Zenon
    <3> QED
      BY <3>1, <3>2, GcsTaskKept, ZenonT(40)
  <2> QED
    BY <2>1, <2>2, Zenon
<1> QED
  BY <1>1, <1>3, <1>4, Zenon DEF GcsHeld

\* The task of one file goes on.
LEMMA GcsTaskStep ==
  ASSUME GCS!WellFormed, GcsHeld, NEW d \in Download, NEW f \in File, NEW s,
         dl[d].pc = "tasks", dl[d].task[f] # "none",
         GcsMoved(d, "tasks"), GcsOwn(d, f, s), GcsOthers(d, f),
         UNCHANGED <<bucket, manifest, stray, removed>>, DOMAIN disk' = File,
         GcsGrid(part'), GcsGrid(lock'),
         GcsOnly(d, f), GcsHolds(d, f, s)
  PROVE  GcsHeld'
<1>1. GcsTypes'
  BY GcsTypesKept, ZenonT(40) DEF GcsHeld
<1>2. GcsAside(d, f)
  BY Zenon DEF GcsAside, GcsOnly
<1>3. \A e \in Download : e # d => GcsTask(e)'
  BY <1>2, GcsOtherTasks, ZenonT(40) DEF GcsHolds
<1>4. GcsTask(d)'
  <2>1. ModelOf[d] \in Model /\ dl'[d].pins = dl[d].pins
    BY Zenon DEF GCS!WellFormed, GcsMoved
  <2>2. \A x \in File : x # f => /\ part'[ModelOf[d]][x] = part[ModelOf[d]][x]
                                 /\ lock'[ModelOf[d]][x] = lock[ModelOf[d]][x]
    BY <2>1, Zenon DEF GcsOnly
  <2> QED
    BY <2>1, <2>2, GcsOwnTask, ZenonT(40) DEF GcsHolds
<1> QED
  BY <1>1, <1>3, <1>4, Zenon DEF GcsHeld

\* prepare_task_download keeps the locks.
LEMMA GcsPrepareHeld ==
  ASSUME GCS!WellFormed, GcsHeld, NEW d \in Download, NEW f \in File, GCS!PrepareFile(d, f)
  PROVE  GcsHeld' /\ GcsMoved(d, "tasks")
<1> DEFINE m == ModelOf[d]
<1>1. /\ dl[d].pc = "tasks" /\ dl[d].task[f] # "none" /\ m \in Model
      /\ UNCHANGED <<bucket, manifest, stray, removed, disk>>
      /\ m \notin stray => lock[m][f] = None
  BY Zenon DEF GCS!PrepareFile, GCS!Free, GCS!WellFormed
<1>2. GcsGrid(part) /\ GcsGrid(lock) /\ DOMAIN disk' = File /\ GcsTypes
  BY <1>1, Zenon DEF GcsHeld, GcsTypes
<1>3. ASSUME NEW s \in {"done", "stream", "verified"},
             GcsMoved(d, "tasks"), GcsOwn(d, f, s), GcsOthers(d, f),
             part' = part \/ part' = [part EXCEPT ![m][f] = <<>>],
             (s = "done" /\ lock' = lock) \/ lock' = [lock EXCEPT ![m][f] = d],
             s = "verified" => part' = part /\ part[m][f] = GCS!Whole(dl[d].pins[f])
      PROVE  GcsHeld'
  <2>1. GcsGrid(part') /\ \A n \in Model, x \in File : n # m \/ x # f => part'[n][x] = part[n][x]
    <3>1. CASE part' = part
      BY <1>2, <3>1, Zenon
    <3>2. CASE part' = [part EXCEPT ![m][f] = <<>>]
      BY <1>1, <1>2, <3>2, GcsPut, Zenon DEF GcsGrid
    <3> QED
      BY <1>3, <3>1, <3>2, Zenon
  <2>2. /\ GcsGrid(lock') /\ \A n \in Model, x \in File : n # m \/ x # f => lock'[n][x] = lock[n][x]
        /\ s \in {"stream", "verified"} => lock'[m][f] = d
    <3>1. CASE lock' = [lock EXCEPT ![m][f] = d]
      BY <1>1, <1>2, <3>1, GcsPut, Zenon DEF GcsGrid
    <3>2. CASE s = "done" /\ lock' = lock
      BY <1>2, <3>2, Zenon
    <3> QED
      BY <1>3, <3>1, <3>2, Zenon
  <2>3. s # "lost" /\ (s = "verified" => part'[m][f] = GCS!Whole(dl[d].pins[f]))
    BY <1>3, Zenon
  <2>4. GcsOnly(d, f) /\ GcsHolds(d, f, s)
    BY <1>1, <2>1, <2>2, <2>3, Zenon DEF GcsOnly, GcsHolds
  <2> QED
    BY <1>1, <1>2, <1>3, <2>1, <2>2, <2>4, GcsTaskStep, ZenonT(60)
<1>4. CASE part' = [part EXCEPT ![m][f] = <<>>] /\ GCS!SetTaskAlone(d, f, "done", "tasks") /\ lock' = lock
  <2>1. GcsMoved(d, "tasks") /\ GcsOwn(d, f, "done") /\ GcsOthers(d, f)
    BY <1>2, <1>4, GcsSetTaskAlone, Zenon DEF GcsTaskState, GcsPc
  <2> QED
    BY <1>3, <1>4, <2>1, Zenon
<1>5. CASE /\ part' = [part EXCEPT ![m][f] = <<>>] /\ GCS!SetTaskAlone(d, f, "stream", "tasks")
           /\ lock' = [lock EXCEPT ![m][f] = d]
  <2>1. GcsMoved(d, "tasks") /\ GcsOwn(d, f, "stream") /\ GcsOthers(d, f)
    BY <1>2, <1>5, GcsSetTaskAlone, Zenon DEF GcsTaskState, GcsPc
  <2> QED
    BY <1>3, <1>5, <2>1, Zenon
<1>6. CASE part' = part /\ GCS!SetTask(d, f, "stream") /\ lock' = [lock EXCEPT ![m][f] = d]
  <2>1. GcsMoved(d, "tasks") /\ GcsOwn(d, f, "stream") /\ GcsOthers(d, f)
    BY <1>1, <1>2, <1>6, GcsSetTask, Zenon DEF GcsTaskState
  <2> QED
    BY <1>3, <1>6, <2>1, Zenon
<1>7. CASE /\ part' = part /\ GCS!SetTask(d, f, "verified") /\ lock' = [lock EXCEPT ![m][f] = d]
           /\ part[m][f] = GCS!Whole(dl[d].pins[f])
  <2>1. GcsMoved(d, "tasks") /\ GcsOwn(d, f, "verified") /\ GcsOthers(d, f)
    BY <1>1, <1>2, <1>7, GcsSetTask, Zenon DEF GcsTaskState
  <2> QED
    BY <1>3, <1>7, <2>1, Zenon
<1> QED
  BY <1>4, <1>5, <1>6, <1>7, ZenonT(40) DEF GCS!PrepareFile, GCS!Verified

\* Nor does the transfer of a unit.
LEMMA GcsStreamHeld ==
  ASSUME GCS!WellFormed, GcsHeld, NEW d \in Download, NEW f \in File, GCS!StreamChunk(d, f)
  PROVE  GcsHeld' /\ GcsMoved(d, "tasks")
<1> DEFINE m == ModelOf[d]
           v == Append(part[m][f], dl[d].pins[f])
<1>1. /\ dl[d].pc = "tasks" /\ dl[d].task[f] = "stream" /\ dl[d].task[f] # "none" /\ m \in Model
      /\ UNCHANGED <<bucket, manifest, stray, removed, disk, lock, dl>>
      /\ part' = [part EXCEPT ![m][f] = v]
  BY Zenon DEF GCS!StreamChunk, GCS!lockVars, GCS!WellFormed
<1>2. GcsGrid(part) /\ GcsGrid(lock') /\ DOMAIN disk' = File /\ GcsTypes
  BY <1>1, Zenon DEF GcsHeld, GcsTypes
<1> HIDE DEF v
<1>3. GcsGrid(part') /\ \A n \in Model, x \in File : n # m \/ x # f => part'[n][x] = part[n][x]
  BY <1>1, <1>2, GcsPut, Zenon DEF GcsGrid
<1>4. GcsMoved(d, "tasks") /\ GcsOwn(d, f, "stream") /\ GcsOthers(d, f)
  BY <1>1, <1>2, Zenon DEF GcsMoved, GcsOwn, GcsOthers, GcsTypes
<1>5. m \notin stray => lock[m][f] = d /\ lock'[m][f] = d
  BY <1>1, Zenon DEF GcsHeld, GcsTask
<1>6. GcsOnly(d, f) /\ GcsHolds(d, f, "stream")
  BY <1>1, <1>3, <1>5, Zenon DEF GcsOnly, GcsHolds
<1> QED
  BY <1>1, <1>2, <1>3, <1>4, <1>6, GcsTaskStep, ZenonT(60)

\* A download that fails over one of its files.
LEMMA GcsDropHeld ==
  ASSUME GCS!WellFormed, GcsHeld, NEW d \in Download, NEW f \in File,
         GcsMoved(d, "failed"), GcsOthers(d, f), GCS!Released(d),
         part' = [part EXCEPT ![ModelOf[d]][f] = <<>>],
         UNCHANGED <<bucket, manifest, stray, removed, disk>>,
         ModelOf[d] \notin stray => lock[ModelOf[d]][f] \in {None, d}
  PROVE  GcsHeld'
<1> DEFINE m == ModelOf[d]
<1>1. GcsTypes /\ GcsGrid(part) /\ DOMAIN disk' = File /\ m \in Model
  BY Zenon DEF GcsHeld, GcsTypes, GCS!WellFormed
<1>2. GcsGrid(part') /\ \A n \in Model, x \in File : n # m \/ x # f => part'[n][x] = part[n][x]
  BY <1>1, GcsPut, Zenon DEF GcsGrid
<1>3. GcsGrid(lock') /\ \A n \in Model, x \in File : lock'[n][x] = lock[n][x] \/ lock[n][x] = d
  BY <1>1, GcsReleased, Zenon DEF GcsGrid
<1>4. GcsAside(d, f)
  BY <1>2, <1>3, Zenon DEF GcsAside
<1>5. GcsTypes'
  BY <1>1, <1>2, <1>3, GcsTypesKept, ZenonT(40)
<1>6. \A e \in Download : e # d => GcsTask(e)'
  BY <1>4, GcsOtherTasks, ZenonT(40)
<1>7. GcsTask(d)'
  BY Zenon DEF GcsMoved, GcsTask
<1> QED
  BY <1>5, <1>6, <1>7, Zenon DEF GcsHeld

\* finalize_task_download leaves what it verified to its holder.
LEMMA GcsFinalizeHeld ==
  ASSUME GCS!WellFormed, GcsHeld, NEW d \in Download, NEW f \in File, GCS!FinalizeFile(d, f)
  PROVE  GcsHeld' /\ \E pc \in {"tasks", "failed"} : GcsMoved(d, pc)
<1> DEFINE m == ModelOf[d]
<1>1. /\ dl[d].pc = "tasks" /\ dl[d].task[f] \in {"stream", "lost"} /\ dl[d].task[f] # "none" /\ m \in Model
      /\ UNCHANGED <<bucket, manifest, stray, removed, disk>>
  BY Zenon DEF GCS!FinalizeFile, GCS!WellFormed
<1>2. GcsGrid(part) /\ GcsGrid(lock) /\ DOMAIN disk' = File /\ GcsTypes
  BY <1>1, Zenon DEF GcsHeld, GcsTypes
<1>3. m \notin stray => lock[m][f] = d
  BY <1>1, Zenon DEF GcsHeld, GcsTask
<1>4. CASE part' = part /\ lock' = lock /\ GCS!SetTask(d, f, "verified") /\ part[m][f] = GCS!Whole(dl[d].pins[f])
  <2>1. GcsMoved(d, "tasks") /\ GcsOwn(d, f, "verified") /\ GcsOthers(d, f)
    BY <1>1, <1>2, <1>4, GcsSetTask, Zenon DEF GcsTaskState
  <2>2. GcsGrid(part') /\ GcsGrid(lock')
    BY <1>2, <1>4, Zenon
  <2>3. \A n \in Model, x \in File : part'[n][x] = part[n][x] /\ lock'[n][x] = lock[n][x]
    BY <1>4, Zenon
  <2>4. m \notin stray => /\ lock[m][f] \in {None, d} /\ lock'[m][f] = d
                          /\ part'[m][f] = GCS!Whole(dl[d].pins[f])
    BY <1>3, <1>4, Zenon
  <2>5. GcsHeld'
    <3>1. GcsOnly(d, f) /\ GcsHolds(d, f, "verified")
      BY <2>3, <2>4, Zenon DEF GcsOnly, GcsHolds
    <3> QED
      BY <1>1, <1>2, <2>1, <2>2, <3>1, GcsTaskStep, ZenonT(60)
  <2> QED
    BY <2>1, <2>5, Zenon
<1>5. CASE part' = part /\ GCS!Released(d) /\ GCS!Goto(d, "failed")
  BY <1>1, <1>5, GcsLeaves, ZenonT(40) DEF GcsPc
<1>6. CASE part' = [part EXCEPT ![m][f] = <<>>] /\ GCS!Released(d) /\ GCS!SetTaskAlone(d, f, "none", "failed")
  <2>1. GcsMoved(d, "failed") /\ GcsOthers(d, f)
    BY <1>2, <1>6, GcsSetTaskAlone, Zenon DEF GcsTaskState, GcsPc
  <2>2. GcsHeld'
    BY <1>1, <1>3, <1>6, <2>1, GcsDropHeld, ZenonT(40)
  <2> QED
    BY <2>1, <2>2, Zenon
<1> QED
  BY <1>4, <1>5, <1>6, ZenonT(40) DEF GCS!FinalizeFile, GCS!Verified

\* The rename of a verified file gives up its lock.
LEMMA GcsRenameHeld ==
  ASSUME GCS!WellFormed, GcsHeld, NEW d \in Download, NEW f \in File, GCS!RenameFile(d, f)
  PROVE  /\ GcsHeld'
         /\ \/ GcsMoved(d, "failed") /\ disk' = disk
            \/ GcsMoved(d, "tasks") /\ disk' = [disk EXCEPT ![f] = part[ModelOf[d]][f]]
<1> DEFINE m == ModelOf[d]
           v == IF lock[m][f] = d THEN None ELSE lock[m][f]
<1>1. /\ dl[d].pc = "tasks" /\ dl[d].task[f] = "verified" /\ dl[d].task[f] # "none" /\ m \in Model
      /\ UNCHANGED <<bucket, manifest, stray, removed>>
  BY Zenon DEF GCS!RenameFile, GCS!WellFormed
<1>2. GcsGrid(part) /\ GcsGrid(lock) /\ DOMAIN disk = File /\ GcsTypes
  BY Zenon DEF GcsHeld, GcsTypes
<1>3. CASE GCS!Released(d) /\ GCS!Goto(d, "failed") /\ disk' = disk /\ part' = part
  BY <1>1, <1>3, GcsLeaves, ZenonT(40) DEF GcsPc
<1>4. CASE /\ disk' = [disk EXCEPT ![f] = part[m][f]] /\ part' = [part EXCEPT ![m][f] = <<>>]
           /\ lock' = [lock EXCEPT ![m][f] = IF @ = d THEN None ELSE @]
           /\ GCS!SetTaskAlone(d, f, "done", "tasks")
  <2>1. GcsMoved(d, "tasks") /\ GcsOwn(d, f, "done") /\ GcsOthers(d, f)
    BY <1>2, <1>4, GcsSetTaskAlone, Zenon DEF GcsTaskState, GcsPc
  <2>2. GcsGrid(part') /\ \A n \in Model, x \in File : n # m \/ x # f => part'[n][x] = part[n][x]
    BY <1>1, <1>2, <1>4, GcsPut, Zenon DEF GcsGrid
  <2>3. lock' = [lock EXCEPT ![m][f] = v]
    BY <1>4, Zenon
  <2> HIDE DEF v
  <2>4. GcsGrid(lock') /\ \A n \in Model, x \in File : n # m \/ x # f => lock'[n][x] = lock[n][x]
    BY <1>1, <1>2, <2>3, GcsPut, Zenon DEF GcsGrid
  <2>5. m \notin stray => lock[m][f] = d
    BY <1>1, Zenon DEF GcsHeld, GcsTask
  <2>6. DOMAIN disk' = File
    BY <1>2, <1>4, Zenon
  <2>7. GcsHeld'
    <3>1. GcsOnly(d, f) /\ GcsHolds(d, f, "done")
      BY <2>2, <2>4, <2>5, Zenon DEF GcsOnly, GcsHolds
    <3> QED
      BY <1>1, <2>1, <2>2, <2>4, <2>6, <3>1, GcsTaskStep, ZenonT(60)
  <2> QED
    BY <1>4, <2>1, <2>7, Zenon
<1> QED
  BY <1>3, <1>4, ZenonT(40) DEF GCS!RenameFile

\* A download that has got its pins.
LEMMA GcsPinsHeld ==
  ASSUME GCS!WellFormed, GcsHeld, NEW d \in Download, NEW pins \in [Listed[ModelOf[d]] -> Generation],
         dl' = [dl EXCEPT ![d] = [@ EXCEPT !.pc = "recheck", !.pins = pins]],
         UNCHANGED <<bucket, disk, part, lock, stray, removed>>,
         manifest' = manifest \/ manifest' = [manifest EXCEPT ![ModelOf[d]] = pins]
  PROVE  /\ GcsHeld' /\ dl'[d].pc = "recheck" /\ dl'[d].pins = pins
         /\ \A e \in Download : e # d => dl'[e] = dl[e]
<1> DEFINE r == [dl[d] EXCEPT !.pc = "recheck", !.pins = pins]
           m == ModelOf[d]
<1>1. dl[d] \in GcsDl /\ GcsTypes /\ m \in Model
  BY GcsFields, Zenon DEF GcsHeld, GCS!WellFormed
<1>2. pins \in GcsPins
  BY <1>1, Zenon DEF GcsPins
<1>3. r \in GcsDl /\ r.pc = "recheck" /\ r.pins = pins
  BY <1>1, <1>2, Zenon DEF GcsDl, GcsPc
<1>4. dl' = [dl EXCEPT ![d] = r]
  BY Zenon
<1> HIDE DEF r
<1>5. dl' \in [Download -> GcsDl] /\ dl'[d] = r /\ \A e \in Download : e # d => dl'[e] = dl[e]
  BY <1>1, <1>3, <1>4, GcsSet, Zenon
<1>6. DOMAIN manifest' = Model /\ \A n \in Model : manifest'[n] \in [Listed[n] -> Generation] \cup {None}
  BY <1>1, ZenonT(40) DEF GcsTypes
<1>7. \A e \in Download : dl'[e].pc \in {"recheck", "tasks"} => dl'[e].pins \in [Listed[ModelOf[e]] -> Generation]
  BY <1>1, <1>3, <1>5, ZenonT(40) DEF GcsTypes
<1>8. GcsTypes'
  BY <1>1, <1>5, <1>6, <1>7, ZenonT(40) DEF GcsTypes, GcsGrid
<1>9. ASSUME NEW e \in Download PROVE GcsTask(e)'
  <2>1. CASE e = d
    BY <1>3, <1>5, <2>1, Zenon DEF GcsTask
  <2>2. CASE e # d
    BY <1>5, <2>2, GcsTaskKept, ZenonT(40) DEF GcsHeld
  <2> QED
    BY <2>1, <2>2, Zenon
<1> QED
  BY <1>3, <1>5, <1>8, <1>9, Zenon DEF GcsHeld

\* A download that plans its tasks.
LEMMA GcsPlanHeld ==
  ASSUME GCS!WellFormed, GcsHeld, NEW d \in Download, dl[d].pc = "recheck",
         dl' = [dl EXCEPT ![d].pc = "tasks",
                          ![d].task = [f \in File |-> IF f \in GCS!Wanted(d) THEN "todo" ELSE "none"]],
         UNCHANGED <<bucket, manifest, disk, part, lock, stray, removed>>
  PROVE  GcsHeld' /\ GcsMoved(d, "tasks")
<1> DEFINE t == [f \in File |-> IF f \in GCS!Wanted(d) THEN "todo" ELSE "none"]
           r == [dl[d] EXCEPT !.pc = "tasks", !.task = t]
<1>1. dl[d] \in GcsDl /\ t \in [File -> GcsTaskState] /\ GcsTypes
  BY GcsFields, Zenon DEF GcsTaskState, GcsHeld
<1>2. \A f \in File : (t[f] = "todo" /\ f \in GCS!Wanted(d)) \/ t[f] = "none"
  BY Zenon
<1>3. dl' = [dl EXCEPT ![d] = r]
  BY <1>1, ZenonT(40) DEF GcsTypes
<1> HIDE DEF t
<1>4. r \in GcsDl /\ r.pc = "tasks" /\ r.pins = dl[d].pins /\ r.task = t
  BY <1>1, Zenon DEF GcsDl, GcsPc
<1> HIDE DEF r
<1>5. dl' \in [Download -> GcsDl] /\ dl'[d] = r /\ \A e \in Download : e # d => dl'[e] = dl[e]
  BY <1>1, <1>3, <1>4, GcsSet, Zenon
<1>6. GcsMoved(d, "tasks")
  BY <1>4, <1>5, Zenon DEF GcsMoved
<1>7. GcsTypes'
  BY <1>1, <1>6, GcsTypesKept, ZenonT(40) DEF GcsTypes
<1>8. ASSUME NEW e \in Download PROVE GcsTask(e)'
  <2>1. CASE e = d
    <3>1. \A f \in File : dl'[d].task[f] \in {"todo", "none"} /\ (dl'[d].task[f] # "none" => f \in Listed[ModelOf[d]])
      BY <1>2, <1>4, <1>5, GcsWantedFiles, Zenon
    <3>2. \A f \in File : dl'[d].task[f] # "lost" /\ dl'[d].task[f] \notin {"stream", "verified"}
      BY <3>1, Zenon
    <3> QED
      BY <2>1, <3>1, <3>2, Zenon DEF GcsTask
  <2>2. CASE e # d
    BY <1>5, <2>2, GcsTaskKept, ZenonT(40) DEF GcsHeld
  <2> QED
    BY <2>1, <2>2, Zenon
<1> QED
  BY <1>6, <1>7, <1>8, Zenon DEF GcsHeld

-----------------------------------------------------------------------------
\* The directories stay as they are.
GcsStill == UNCHANGED <<manifest, damaged, disk, removed, raced, stray>> /\ faults \subseteq faults'

\* A step of d that leaves the directories alone, in which d gets no pins and is
\* not admitted.
GcsHarmless(d, pc) ==
  \/ pc \in {dl[d].pc, "failed", "available"}
  \/ pc = "ok" /\ GCS!cache_satisfies_request(ModelOf[d], GCS!Wanted(d))
  \/ pc = "tasks" /\ dl[d].pc = "recheck"
  \/ pc = "listing" /\ dl[d].pc = "manifest"

\* Who was deleted is a matter of removed alone.
LEMMA GcsSameRemoved ==
  ASSUME removed' = removed
  PROVE  \A n \in Model : (Kept(n)' <=> Kept(n)) /\ (GCS!Untouched(n)' <=> GCS!Untouched(n))
BY Zenon DEF Kept, GCS!AtOrBelow, GCS!Untouched, GCS!Overlapping

\* What is said of files and manifests alone stays.
LEMMA GcsSameFiles ==
  ASSUME GCS!WellFormed, GcsDirs, UNCHANGED <<manifest, disk, removed, stray>>,
         raced => raced', faults \subseteq faults'
  PROVE  GcsWhole' /\ GcsOwned' /\ GcsExact' /\ GCS!DeletionSparesOthers'
<1> USE DEF GcsDirs
<1>0. \A n \in Model : GCS!Untouched(n)' <=> GCS!Untouched(n)
  BY GcsSameRemoved, Zenon
<1>1. GcsWhole'
  BY ZenonT(40) DEF GcsWhole, GCS!Whole, GCS!Around
<1>2. GcsOwned'
  BY <1>0, ZenonT(40) DEF GcsOwned
<1>3. GcsExact'
  <2> SUFFICES ASSUME ~raced', "damage" \notin faults', NEW m \in Model, GCS!Untouched(m)', manifest'[m] # None,
                      NEW f \in Listed[m], disk'[f] # None
               PROVE  disk'[f] = GCS!Whole(manifest'[m][f])
    BY Zenon DEF GcsExact, GCS!Whole
  <2>1. ~raced /\ "damage" \notin faults /\ GCS!Untouched(m)
    BY <1>0, Zenon
  <2> QED
    BY <2>1, Zenon DEF GcsExact
<1>4. GCS!DeletionSparesOthers'
  BY Zenon DEF GCS!DeletionSparesOthers
<1> QED
  BY <1>1, <1>2, <1>3, <1>4, Zenon

\* A harmless step keeps the directories right.
LEMMA GcsQuiet ==
  ASSUME GCS!WellFormed, GcsDirs, NEW d \in Download, NEW pc,
         GcsStill, GcsMoved(d, pc), GcsHarmless(d, pc)
  PROVE  GcsDirs'
<1> USE DEF GcsDirs, GcsStill, GcsMoved
<1>0. \A e \in Download : /\ ModelOf[e] \in Model
                          /\ Kept(ModelOf[e])' <=> Kept(ModelOf[e])
                          /\ GCS!Untouched(ModelOf[e])' <=> GCS!Untouched(ModelOf[e])
  BY GcsSameRemoved, GcsWantedFiles, Zenon
<1>1. GcsWhole' /\ GcsOwned' /\ GcsExact' /\ GCS!DeletionSparesOthers'
  BY GcsSameFiles, Zenon
<1>2. GcsDamage'
  BY Zenon DEF GcsDamage
<1>3. GcsKept'
  <2>1. \A n \in Model : Kept(n)' => n \notin stray'
    BY GcsSameRemoved, Zenon DEF GcsKept
  <2>2. ASSUME NEW e \in Download, Kept(ModelOf[e])', dl'[e].pc \in {"recheck", "tasks"}
        PROVE  manifest'[ModelOf[e]] # None /\ ("damage" \notin faults' => dl'[e].pins = manifest'[ModelOf[e]])
    <3>1. dl[e].pc \in {"recheck", "tasks"}
      BY <2>2, ZenonT(40) DEF GcsHarmless
    <3>2. Kept(ModelOf[e])
      BY <1>0, <2>2, Zenon
    <3>3. manifest[ModelOf[e]] # None /\ ("damage" \notin faults => dl[e].pins = manifest[ModelOf[e]])
      BY <3>1, <3>2, Zenon DEF GcsKept
    <3> QED
      BY <3>3, Zenon
  <2> QED
    BY <2>1, <2>2, Zenon DEF GcsKept
<1>4. GcsDone'
  <2> SUFFICES ASSUME NEW e \in Download, dl'[e].pc = "ok", GCS!Untouched(ModelOf[e])
               PROVE  manifest[ModelOf[e]] # None /\ \A f \in GCS!Wanted(e) : disk[f] # None
    BY <1>0, Zenon DEF GcsDone, GCS!Wanted
  <2>1. CASE dl[e].pc = "ok"
    BY <2>1, ZenonT(40) DEF GcsDone
  <2>2. CASE dl[e].pc # "ok"
    <3>1. e = d /\ pc = "ok" /\ GCS!cache_satisfies_request(ModelOf[d], GCS!Wanted(d))
      BY <2>2, ZenonT(40) DEF GcsHarmless
    <3> QED
      BY <3>1, Zenon DEF GCS!cache_satisfies_request, GCS!load_manifest
  <2> QED
    BY <2>1, <2>2, Zenon
<1>5. GcsAdmission'
  <2>1. \A e \in Download : Admitted(e)' => Admitted(e)
    BY Zenon DEF Admitted, GcsHarmless
  <2> QED
    BY <2>1, ZenonT(40) DEF GcsAdmission, GCS!Overlapping, GCS!find_overlap
<1> QED
  BY <1>1, <1>2, <1>3, <1>4, <1>5, ZenonT(40)

\* The steps of a download that change no directory.
LEMMA GcsQuietSteps ==
  ASSUME GCS!WellFormed, GcsInv, NEW d \in Download,
         \/ GCS!CheckCache(d) \/ GCS!PlanTasks(d) \/ GCS!FinishDownload(d) \/ GCS!DownloadFails(d)
         \/ \E f \in File : GCS!PrepareFile(d, f) \/ GCS!StreamChunk(d, f) \/ GCS!FinalizeFile(d, f)
  PROVE  GcsInv'
<1> USE DEF GcsInv
<1>0. ASSUME NEW pc \in GcsPc \ {"recheck", "tasks"}, GCS!Goto(d, pc), GcsStill, GcsHarmless(d, pc),
             UNCHANGED <<bucket, part>>, lock' = lock \/ GCS!Released(d)
      PROVE  GcsInv'
  <2>1. GcsHeld' /\ GcsMoved(d, pc)
    BY <1>0, GcsLeaves, ZenonT(40) DEF GcsStill
  <2> QED
    BY <1>0, <2>1, GcsQuiet, ZenonT(40)
<1>1. ASSUME GCS!CheckCache(d) PROVE GcsInv'
  <2> DEFINE pc == IF GCS!cache_satisfies_request(ModelOf[d], GCS!Wanted(d)) THEN "ok" ELSE "available"
  <2>1. GCS!Goto(d, pc) /\ GcsStill /\ UNCHANGED <<bucket, part, lock>>
    BY <1>1, Zenon DEF GCS!CheckCache, GCS!dirVars, GCS!lockVars, GcsStill
  <2>2. pc \in GcsPc \ {"recheck", "tasks"} /\ GcsHarmless(d, pc)
    BY Zenon DEF GcsPc, GcsHarmless
  <2> HIDE DEF pc
  <2> QED
    BY <1>0, <2>1, <2>2, ZenonT(40)
<1>2. ASSUME GCS!PlanTasks(d) PROVE GcsInv'
  <2>1. GcsStill /\ dl[d].pc = "recheck" /\ UNCHANGED <<bucket, part, lock, manifest, disk, stray, removed>>
    BY <1>2, Zenon DEF GCS!PlanTasks, GCS!dirVars, GCS!lockVars, GcsStill
  <2>2. ASSUME NEW pc \in {"ok", "failed"}, GCS!Goto(d, pc),
               pc = "ok" => GCS!cache_satisfies_request(ModelOf[d], GCS!Wanted(d))
        PROVE  GcsInv'
    <3>1. pc \in GcsPc \ {"recheck", "tasks"} /\ GcsHarmless(d, pc)
      BY <2>2, Zenon DEF GcsPc, GcsHarmless
    <3> QED
      BY <1>0, <2>1, <2>2, <3>1, ZenonT(40)
  <2>3. CASE dl' = [dl EXCEPT ![d].pc = "tasks",
                              ![d].task = [f \in File |-> IF f \in GCS!Wanted(d) THEN "todo" ELSE "none"]]
    <3>1. GcsHeld' /\ GcsMoved(d, "tasks")
      BY <2>1, <2>3, GcsPlanHeld, ZenonT(40)
    <3>2. GcsHarmless(d, "tasks")
      BY <2>1, ZenonT(40) DEF GcsHarmless
    <3> QED
      BY <2>1, <3>1, <3>2, GcsQuiet, Zenon
  <2> QED
    BY <1>2, <2>2, <2>3, ZenonT(40) DEF GCS!PlanTasks
<1>3. ASSUME GCS!FinishDownload(d) PROVE GcsInv'
  <2> DEFINE pc == IF GCS!cache_satisfies_request(ModelOf[d], GCS!Wanted(d)) THEN "ok" ELSE "failed"
  <2>1. GCS!Goto(d, pc) /\ GcsStill /\ UNCHANGED <<bucket, part, lock>>
    BY <1>3, Zenon DEF GCS!FinishDownload, GCS!dirVars, GCS!lockVars, GcsStill
  <2>2. pc \in GcsPc \ {"recheck", "tasks"} /\ GcsHarmless(d, pc)
    BY Zenon DEF GcsPc, GcsHarmless
  <2> HIDE DEF pc
  <2> QED
    BY <1>0, <2>1, <2>2, ZenonT(40)
<1>4. ASSUME GCS!DownloadFails(d) PROVE GcsInv'
  <2>1. GCS!Goto(d, "failed") /\ GcsStill /\ UNCHANGED <<bucket, part>> /\ GCS!Released(d)
    BY <1>4, Zenon DEF GCS!DownloadFails, GCS!dirVars, GCS!Fail, GcsStill
  <2>2. "failed" \in GcsPc \ {"recheck", "tasks"} /\ GcsHarmless(d, "failed")
    BY Zenon DEF GcsPc, GcsHarmless
  <2> QED
    BY <1>0, <2>1, <2>2, ZenonT(40)
<1>5. ASSUME NEW f \in File, GCS!PrepareFile(d, f) \/ GCS!StreamChunk(d, f) PROVE GcsInv'
  <2>1. GcsStill /\ dl[d].pc = "tasks"
    BY <1>5, Zenon DEF GCS!PrepareFile, GCS!StreamChunk, GCS!lockVars, GcsStill
  <2>2. GcsHeld' /\ GcsMoved(d, "tasks") /\ GcsHarmless(d, "tasks")
    BY <1>5, <2>1, GcsPrepareHeld, GcsStreamHeld, Zenon DEF GcsHarmless
  <2> QED
    BY <2>1, <2>2, GcsQuiet, Zenon
<1>6. ASSUME NEW f \in File, GCS!FinalizeFile(d, f) PROVE GcsInv'
  <2>1. GcsStill /\ dl[d].pc = "tasks"
    BY <1>6, Zenon DEF GCS!FinalizeFile, GcsStill
  <2>2. PICK pc \in {"tasks", "failed"} : GcsHeld' /\ GcsMoved(d, pc)
    BY <1>6, GcsFinalizeHeld, Zenon
  <2>3. GcsHarmless(d, pc)
    BY <2>1, Zenon DEF GcsHarmless
  <2> QED
    BY <2>1, <2>2, <2>3, GcsQuiet, Zenon
<1> QED
  BY <1>1, <1>2, <1>3, <1>4, <1>5, <1>6, ZenonT(40)

\* A download that is admitted, or finds a model above or below its own.
LEMMA GcsAdmissionMoves ==
  ASSUME GCS!WellFormed, GcsInv, NEW d \in Download, GCS!ensure_available(d)
  PROVE  GcsInv'
<1> DEFINE m == ModelOf[d]
<1> DEFINE pc == IF GCS!find_overlap(m) # {} THEN "failed" ELSE "manifest"
<1> USE DEF GcsInv
<1>1. /\ GCS!Goto(d, pc) /\ UNCHANGED <<manifest, damaged, disk, removed, bucket, faults, stray, part, lock>>
      /\ raced' = (raced \/ \E e \in Download \ {d} : ModelOf[e] \in GCS!Overlapping(m) /\ Admitted(e))
  BY Zenon DEF GCS!ensure_available, GCS!dirVars, GCS!lockVars, Admitted
<1>2. pc \in {"failed", "manifest"} /\ pc \in GcsPc \ {"recheck", "tasks"} /\ m \in Model
  BY Zenon DEF GCS!WellFormed, GcsPc
<1>3. GcsHeld' /\ GcsMoved(d, pc)
  <2> HIDE DEF pc
  <2> QED
    BY <1>1, <1>2, GcsLeaves, ZenonT(40)
<1>4. /\ \A e \in Download : dl'[e].pins = dl[e].pins /\ (e # d => dl'[e].pc = dl[e].pc)
      /\ dl'[d].pc = pc
  <2> HIDE DEF pc
  <2> QED
    BY <1>3, Zenon DEF GcsMoved
<1>5. GcsWhole' /\ GcsOwned' /\ GcsExact' /\ GCS!DeletionSparesOthers'
  BY <1>1, GcsSameFiles, Zenon
<1>6. GcsDamage' /\ GcsKept'
  <2>1. \A n \in Model : Kept(n)' <=> Kept(n)
    BY <1>1, GcsSameRemoved, Zenon
  <2>2. \A e \in Download : dl'[e].pc \in {"recheck", "tasks"} => dl[e].pc \in {"recheck", "tasks"} /\ ModelOf[e] \in Model
    BY <1>2, <1>4, Zenon DEF GCS!WellFormed
  <2>3. \A e \in Download : ModelOf[e] \in Model
    BY Zenon DEF GCS!WellFormed
  <2> HIDE DEF pc
  <2> QED
    BY <1>1, <1>4, <2>1, <2>2, <2>3, ZenonT(40) DEF GcsDirs, GcsDamage, GcsKept
<1>7. GcsDone'
  <2>1. \A e \in Download : dl'[e].pc = "ok" => dl[e].pc = "ok"
    BY <1>2, <1>4, Zenon
  <2>2. \A e \in Download : GCS!Untouched(ModelOf[e])' => GCS!Untouched(ModelOf[e])
    BY <1>1, GcsSameRemoved, GcsWantedFiles, Zenon
  <2> HIDE DEF pc
  <2> QED
    BY <1>1, <2>1, <2>2, ZenonT(40) DEF GcsDirs, GcsDone, GCS!Wanted
<1>8. ASSUME ~raced' PROVE \A x, y \in Download : Admitted(x)' /\ Admitted(y)' =>
                              ModelOf[y] \notin GCS!Overlapping(ModelOf[x])
  <2> SUFFICES ASSUME NEW x \in Download, NEW y \in Download, Admitted(x)', Admitted(y)',
                      ModelOf[y] \in GCS!Overlapping(ModelOf[x])
               PROVE  FALSE
    BY Zenon
  <2>1. ModelOf[x] \in GCS!Overlapping(ModelOf[y]) /\ ModelOf[x] # ModelOf[y]
    BY Zenon DEF GCS!Overlapping, GCS!WellFormed
  <2>2. ~raced /\ \A e \in Download \ {d} : ModelOf[e] \in GCS!Overlapping(m) => ~Admitted(e)
    BY <1>1, <1>8, ZenonT(40)
  <2>3. \A e \in Download \ {d} : Admitted(e)' <=> Admitted(e)
    BY <1>4, Zenon DEF Admitted
  <2>4. CASE x = d
    BY <2>1, <2>2, <2>3, <2>4, Zenon
  <2>5. CASE y = d
    BY <2>1, <2>2, <2>3, <2>5, ZenonT(40)
  <2>6. CASE x # d /\ y # d
    BY <2>2, <2>3, <2>6, Zenon DEF GcsAdmission, GcsDirs
  <2> QED
    BY <2>4, <2>5, <2>6, ZenonT(40)
<1>9. ASSUME ~raced', NEW x \in Download, Admitted(x)' PROVE GCS!find_overlap(ModelOf[x])' = {}
  <2>1. GCS!find_overlap(ModelOf[x])' = GCS!find_overlap(ModelOf[x])
    BY <1>1, Zenon DEF GCS!find_overlap, GCS!Overlapping
  <2>2. CASE x = d
    BY <1>9, <2>1, <2>2, <1>4, ZenonT(40) DEF Admitted
  <2>3. CASE x # d
    <3>1. Admitted(x) /\ ~raced
      BY <1>1, <1>4, <1>9, <2>3, Zenon DEF Admitted
    <3> QED
      BY <2>1, <3>1, Zenon DEF GcsAdmission, GcsDirs
  <2> QED
    BY <2>2, <2>3, ZenonT(40)
<1>10. GcsAdmission'
  BY <1>8, <1>9, Zenon DEF GcsAdmission, GCS!Overlapping
<1> QED
  BY <1>3, <1>5, <1>6, <1>7, <1>10, ZenonT(40) DEF GcsDirs

\* A download that finds a manifest takes its pins from it.
LEMMA GcsFindMoves ==
  ASSUME GCS!WellFormed, GcsInv, NEW d \in Download, GCS!FindManifest(d)
  PROVE  GcsInv'
<1> DEFINE m == ModelOf[d]
<1> USE DEF GcsInv
<1>1. /\ UNCHANGED <<manifest, damaged, disk, removed, raced, bucket, faults, stray, part, lock>>
      /\ dl[d].pc = "manifest" /\ m \in Model
  BY Zenon DEF GCS!FindManifest, GCS!WellFormed
<1>2. CASE GCS!Goto(d, "listing")
  <2>1. GcsStill /\ GcsHarmless(d, "listing") /\ "listing" \in GcsPc \ {"recheck", "tasks"}
    BY <1>1, Zenon DEF GcsStill, GcsHarmless, GcsPc
  <2>2. GcsHeld' /\ GcsMoved(d, "listing")
    BY <1>1, <1>2, <2>1, GcsLeaves, ZenonT(40)
  <2> QED
    BY <2>1, <2>2, GcsQuiet, Zenon
<1>3. CASE /\ GCS!load_manifest(m) # None
           /\ dl' = [dl EXCEPT ![d] = [@ EXCEPT !.pc = "recheck", !.pins = GCS!load_manifest(m)]]
  <2>1. /\ GCS!load_manifest(m) = manifest[m] /\ manifest[m] # None
        /\ manifest[m] \in [Listed[m] -> Generation]
    BY <1>1, <1>3, Zenon DEF GCS!load_manifest, GcsHeld, GcsTypes
  <2>2. /\ GcsHeld' /\ dl'[d].pc = "recheck" /\ dl'[d].pins = manifest[m]
        /\ \A e \in Download : e # d => dl'[e] = dl[e]
    BY <1>1, <1>3, <2>1, GcsPinsHeld, ZenonT(40)
  <2>3. GcsWhole' /\ GcsOwned' /\ GcsExact' /\ GCS!DeletionSparesOthers'
    BY <1>1, GcsSameFiles, Zenon
  <2>4. \A e \in Download : /\ ModelOf[e] \in Model
                            /\ Kept(ModelOf[e])' <=> Kept(ModelOf[e])
                            /\ GCS!Untouched(ModelOf[e])' <=> GCS!Untouched(ModelOf[e])
    BY <1>1, GcsSameRemoved, GcsWantedFiles, Zenon
  <2>5. GcsDamage' /\ GcsKept'
    <3>1. \A n \in Model : Kept(n)' => n \notin stray'
      BY <1>1, GcsSameRemoved, Zenon DEF GcsKept, GcsDirs
    <3>2. ASSUME NEW e \in Download, Kept(ModelOf[e])', dl'[e].pc \in {"recheck", "tasks"}
          PROVE  manifest'[ModelOf[e]] # None /\ ("damage" \notin faults' => dl'[e].pins = manifest'[ModelOf[e]])
      <4>1. CASE e = d
        BY <4>1, <1>1, <2>1, <2>2, Zenon
      <4>2. CASE e # d
        BY <4>2, <3>2, <1>1, <2>2, <2>4, ZenonT(40) DEF GcsDirs, GcsKept
      <4> QED
        BY <4>1, <4>2, Zenon
    <3> QED
      BY <1>1, <3>1, <3>2, Zenon DEF GcsDirs, GcsDamage, GcsKept
  <2>6. GcsDone'
    BY <1>1, <2>2, <2>4, ZenonT(40) DEF GcsDirs, GcsDone, GCS!Wanted
  <2>7. \A e \in Download : Admitted(e)' => Admitted(e)
    BY <2>2, Zenon DEF Admitted
  <2>8. GcsAdmission'
    BY <1>1, <2>7, Zenon DEF GcsDirs, GcsAdmission, GCS!Overlapping, GCS!find_overlap
  <2> QED
    BY <2>2, <2>3, <2>5, <2>6, <2>8, Zenon DEF GcsDirs
<1> QED
  BY <1>2, <1>3, Zenon DEF GCS!FindManifest

\* A download that writes the manifest.
LEMMA GcsManifestMoves ==
  ASSUME GCS!WellFormed, GcsInv, NEW d \in Download, GCS!WriteManifest(d)
  PROVE  GcsInv'
<1> DEFINE m == ModelOf[d]
<1> DEFINE pins == IF GCS!load_manifest(m) # None THEN GCS!load_manifest(m)
                   ELSE GCS!collect_manifest_entries(m)
<1> USE DEF GcsInv
<1>1. /\ dl[d].pc = "listing" /\ UNCHANGED <<bucket, disk, removed, raced, faults, stray, part, lock>>
      /\ manifest' = [manifest EXCEPT ![m] = pins] /\ damaged' = damaged \ {m}
      /\ dl' = [dl EXCEPT ![d] = [@ EXCEPT !.pc = "recheck", !.pins = pins]]
  BY Zenon DEF GCS!WriteManifest
<1>2. m \in Model /\ pins \in [Listed[m] -> Generation] /\ pins # None
  <2>1. m \in Model /\ Listed[m] \subseteq File /\ None \notin [Listed[m] -> Generation]
    BY GcsWantedFiles, Zenon DEF GCS!WellFormed
  <2>2. GCS!collect_manifest_entries(m) \in [Listed[m] -> Generation]
    BY <2>1, Zenon DEF GCS!collect_manifest_entries, GcsHeld, GcsTypes
  <2>3. GCS!load_manifest(m) # None => GCS!load_manifest(m) \in [Listed[m] -> Generation]
    BY <2>1, Zenon DEF GCS!load_manifest, GcsHeld, GcsTypes
  <2> QED
    BY <2>1, <2>2, <2>3, Zenon
<1>3. "damage" \notin faults => damaged = {} /\ (manifest[m] # None => pins = manifest[m])
  BY Zenon DEF GCS!load_manifest, GcsDirs, GcsDamage
<1> HIDE DEF pins
<1>4. /\ GcsHeld' /\ dl'[d].pc = "recheck" /\ dl'[d].pins = pins
      /\ \A e \in Download : e # d => dl'[e] = dl[e]
  BY <1>1, <1>2, GcsPinsHeld, ZenonT(40)
<1>5. manifest'[m] = pins /\ \A n \in Model : n # m => manifest'[n] = manifest[n]
  BY <1>1, <1>2, Zenon DEF GcsHeld, GcsTypes
<1>6. /\ \A n \in Model : manifest[n] # None => manifest'[n] # None
      /\ "damage" \notin faults => \A n \in Model : manifest[n] # None => manifest'[n] = manifest[n]
  BY <1>2, <1>3, <1>5, Zenon
<1>7. \A n \in Model : (Kept(n)' <=> Kept(n)) /\ (GCS!Untouched(n)' <=> GCS!Untouched(n))
  BY <1>1, GcsSameRemoved, Zenon
<1>8. \A e \in Download : ModelOf[e] \in Model
  BY Zenon DEF GCS!WellFormed
<1>9. Admitted(d) /\ \A e \in Download : Admitted(e)' => e # d /\ Admitted(e)
  BY <1>1, <1>4, Zenon DEF Admitted
<1>10. GcsDamage' /\ GcsWhole' /\ GcsDone'
  <2>1. GcsDamage'
    BY <1>1, <1>3, Zenon DEF GcsDamage
  <2>2. GcsWhole'
    BY <1>1, ZenonT(40) DEF GcsDirs, GcsWhole, GCS!Whole, GCS!Around
  <2>3. GcsDone'
    BY <1>1, <1>4, <1>6, <1>7, <1>8, ZenonT(40) DEF GcsDirs, GcsDone, GCS!Wanted
  <2> QED
    BY <2>1, <2>2, <2>3, Zenon
<1>11. GcsKept'
  <2>1. \A n \in Model : Kept(n)' => n \notin stray'
    BY <1>1, <1>7, Zenon DEF GcsKept, GcsDirs
  <2>2. ASSUME NEW e \in Download, Kept(ModelOf[e])', dl'[e].pc \in {"recheck", "tasks"}
        PROVE  manifest'[ModelOf[e]] # None /\ ("damage" \notin faults' => dl'[e].pins = manifest'[ModelOf[e]])
    <3>1. CASE e = d
      BY <3>1, <1>2, <1>4, <1>5, Zenon
    <3>2. CASE e # d
      <4>1. Kept(ModelOf[e]) /\ dl'[e] = dl[e] /\ ModelOf[e] \in Model
        BY <3>2, <2>2, <1>4, <1>7, <1>8, Zenon
      <4>2. manifest[ModelOf[e]] # None /\ ("damage" \notin faults => dl[e].pins = manifest[ModelOf[e]])
        BY <4>1, <2>2, Zenon DEF GcsDirs, GcsKept
      <4> QED
        BY <4>1, <4>2, <1>1, <1>6, Zenon
    <3> QED
      BY <3>1, <3>2, Zenon
  <2> QED
    BY <2>1, <2>2, Zenon DEF GcsKept
<1>12. GcsOwned'
  BY <1>1, <1>6, <1>7, ZenonT(40) DEF GcsDirs, GcsOwned
<1>13. GcsExact'
  <2> SUFFICES ASSUME ~raced', "damage" \notin faults', NEW n \in Model, GCS!Untouched(n)', manifest'[n] # None,
                      NEW f \in Listed[n], disk'[f] # None
               PROVE  disk'[f] = GCS!Whole(manifest'[n][f])
    BY Zenon DEF GcsExact, GCS!Whole
  <2>1. ~raced /\ "damage" \notin faults /\ GCS!Untouched(n) /\ disk'[f] = disk[f] /\ disk[f] # None
    BY <1>1, <1>7, Zenon
  <2>2. CASE manifest[n] # None
    <3>1. manifest'[n] = manifest[n]
      BY <2>1, <2>2, <1>6, Zenon
    <3>2. disk[f] = GCS!Whole(manifest[n][f])
      BY <2>1, <2>2, Zenon DEF GcsDirs, GcsExact
    <3> QED
      BY <2>1, <3>1, <3>2, Zenon
  <2>3. CASE manifest[n] = None
    <3>1. n = m
      BY <2>3, <1>5, Zenon
    <3>2. PICK k \in Model : f \in Listed[k] /\ manifest[k] # None
      BY <2>1, Zenon DEF GcsDirs, GcsOwned
    <3>3. k \in GCS!find_overlap(m)
      <4>1. k # n
        BY <3>2, <2>3, Zenon
      <4>2. k \in GCS!Overlapping(n)
        BY <3>2, <4>1, GcsShared, Zenon
      <4> QED
        BY <3>1, <3>2, <4>2, Zenon DEF GCS!find_overlap
    <3> QED
      BY <3>3, <2>1, <1>9, Zenon DEF GcsDirs, GcsAdmission
  <2> QED
    BY <2>2, <2>3, Zenon
<1>14. GcsAdmission'
  <2> SUFFICES ASSUME ~raced'
               PROVE  /\ \A x, y \in Download : Admitted(x)' /\ Admitted(y)' =>
                           ModelOf[y] \notin GCS!Overlapping(ModelOf[x])
                      /\ \A x \in Download : Admitted(x)' => GCS!find_overlap(ModelOf[x])' = {}
    BY Zenon DEF GcsAdmission, GCS!Overlapping
  <2>1. \A x, y \in Download : Admitted(x)' /\ Admitted(y)' => ModelOf[y] \notin GCS!Overlapping(ModelOf[x])
    BY <1>1, <1>9, Zenon DEF GcsDirs, GcsAdmission
  <2>2. ASSUME NEW x \in Download, Admitted(x)', NEW n \in GCS!find_overlap(ModelOf[x])' PROVE FALSE
    <3>1. n \in GCS!Overlapping(ModelOf[x]) /\ manifest'[n] # None /\ n \in Model
      BY <2>2, Zenon DEF GCS!find_overlap, GCS!Overlapping
    <3>2. n = m \/ manifest[n] # None
      BY <3>1, <1>5, Zenon
    <3>3. n # m
      BY <3>1, <2>2, <1>1, <1>9, Zenon DEF GcsDirs, GcsAdmission
    <3>4. n \in GCS!find_overlap(ModelOf[x])
      BY <3>1, <3>2, <3>3, Zenon DEF GCS!find_overlap
    <3> QED
      BY <3>4, <2>2, <1>1, <1>9, ZenonT(40) DEF GcsDirs, GcsAdmission
  <2> QED
    BY <2>1, <2>2, Zenon
<1>15. GCS!DeletionSparesOthers'
  <2> SUFFICES ASSUME ~raced', NEW p \in Below, manifest'[p[1]] # None, manifest'[p[2]] # None
               PROVE  FALSE
    BY Zenon DEF GCS!DeletionSparesOthers
  <2>1. p[1] \in Model /\ p[2] \in Model /\ p[1] # p[2] /\ p = <<p[1], p[2]>>
    <3>1. Below \subseteq Model \X Model /\ p[1] # p[2]
      BY Zenon DEF GCS!WellFormed
    <3> QED
      BY <3>1
  <2>2. GCS!find_overlap(m) = {} /\ ~raced
    BY <1>1, <1>9, Zenon DEF GcsDirs, GcsAdmission
  <2>3. CASE p[1] = m
    <3>1. manifest[p[2]] # None
      BY <2>1, <2>3, <1>5, Zenon
    <3> QED
      BY <2>1, <2>2, <2>3, <3>1, Zenon DEF GCS!find_overlap, GCS!Overlapping
  <2>4. CASE p[2] = m
    <3>1. manifest[p[1]] # None
      BY <2>1, <2>4, <1>5, Zenon
    <3> QED
      BY <2>1, <2>2, <2>4, <3>1, ZenonT(40) DEF GCS!find_overlap, GCS!Overlapping
  <2>5. CASE p[1] # m /\ p[2] # m
    BY <2>1, <2>2, <2>5, <1>5, ZenonT(40) DEF GcsDirs, GCS!DeletionSparesOthers
  <2> QED
    BY <2>3, <2>4, <2>5, Zenon
<1> QED
  BY <1>4, <1>10, <1>11, <1>12, <1>13, <1>14, <1>15, ZenonT(40) DEF GcsDirs

\* Models that overlap do not both have their manifests.
LEMMA GcsNotBoth ==
  ASSUME GCS!WellFormed, GCS!DeletionSparesOthers, ~raced, NEW m \in Model, NEW n \in GCS!Overlapping(m),
         manifest[m] # None, manifest[n] # None
  PROVE  FALSE
<1>1. PICK p \in Below : p = <<m, n>> \/ p = <<n, m>>
  BY Zenon DEF GCS!Overlapping
<1>2. manifest[p[1]] # None /\ manifest[p[2]] # None
  <2>1. (p[1] = m /\ p[2] = n) \/ (p[1] = n /\ p[2] = m)
    BY <1>1
  <2> QED
    BY <2>1, Zenon
<1> QED
  BY <1>2, Zenon DEF GCS!DeletionSparesOthers

\* A file is installed: what its holder has verified.
LEMMA GcsRenameMoves ==
  ASSUME GCS!WellFormed, GcsInv, NEW d \in Download, NEW f \in File, GCS!RenameFile(d, f)
  PROVE  GcsInv'
<1> DEFINE m == ModelOf[d]
           g == dl[d].pins[f]
<1> USE DEF GcsInv
<1>1. /\ dl[d].pc = "tasks" /\ dl[d].task[f] = "verified" /\ m \in Model
      /\ UNCHANGED <<manifest, damaged, removed, raced, stray, faults>>
  BY Zenon DEF GCS!RenameFile, GCS!WellFormed
<1>2. GcsHeld'
  BY GcsRenameHeld, Zenon
<1>3. CASE GcsMoved(d, "failed") /\ disk' = disk
  <2>1. GcsStill /\ GcsHarmless(d, "failed")
    BY <1>1, <1>3, Zenon DEF GcsStill, GcsHarmless
  <2> QED
    BY <1>2, <1>3, <2>1, GcsQuiet, Zenon
<1>4. CASE GcsMoved(d, "tasks") /\ disk' = [disk EXCEPT ![f] = part[m][f]]
  <2>1. f \in Listed[m] /\ dl[d].pins \in [Listed[m] -> Generation] /\ g \in Generation
    <3>1. f \in Listed[m] /\ dl[d].pins \in [Listed[m] -> Generation]
      BY <1>1, Zenon DEF GcsHeld, GcsTask, GcsTypes
    <3> QED
      BY <3>1, Zenon
  <2>2. m \notin stray => part[m][f] = GCS!Whole(g) /\ part[m][f] # None
    <3>1. m \notin stray => part[m][f] = GCS!Whole(g)
      BY <1>1, Zenon DEF GcsHeld, GcsTask
    <3>2. GCS!Whole(g) # None
      <4> HIDE DEF g
      <4> QED
        BY <2>1, Zenon DEF GCS!WellFormed
    <3> QED
      BY <3>1, <3>2, Zenon
  <2>3. disk'[f] = part[m][f] /\ \A x \in File : x # f => disk'[x] = disk[x]
    BY <1>4, Zenon DEF GcsHeld, GcsTypes
  <2> HIDE DEF g
  <2>4. \A e \in Download : dl'[e].pins = dl[e].pins /\ dl'[e].pc = dl[e].pc
    BY <1>1, <1>4, Zenon DEF GcsMoved
  <2>5. \A n \in Model : (Kept(n)' <=> Kept(n)) /\ (GCS!Untouched(n)' <=> GCS!Untouched(n))
    BY <1>1, GcsSameRemoved, Zenon
  <2>6. \A n \in Model : Listed[n] \subseteq File
    BY Zenon DEF GCS!WellFormed
  <2>7. ASSUME NEW n \in Model, GCS!Untouched(n), f \in Listed[n]
        PROVE  /\ m = n \/ m \in GCS!Overlapping(n)
               /\ m \notin stray /\ manifest[m] # None
               /\ "damage" \notin faults => dl[d].pins = manifest[m]
    <3>1. m = n \/ m \in GCS!Overlapping(n)
      BY <2>1, <2>7, <1>1, GcsShared, Zenon
    <3>2. Kept(m)
      BY <3>1, <2>7, <1>1, GcsNear, Zenon
    <3> QED
      BY <3>1, <3>2, <1>1, Zenon DEF GcsDirs, GcsKept
  <2>8. GcsDamage' /\ GcsKept' /\ GcsAdmission' /\ GCS!DeletionSparesOthers'
    <3>1. GcsDamage' /\ GCS!DeletionSparesOthers'
      BY <1>1, Zenon DEF GcsDirs, GcsDamage, GCS!DeletionSparesOthers
    <3>2. \A e \in Download : ModelOf[e] \in Model
      BY Zenon DEF GCS!WellFormed
    <3>3. GcsKept'
      BY <1>1, <2>4, <2>5, <3>2, ZenonT(40) DEF GcsDirs, GcsKept
    <3>4. \A e \in Download : Admitted(e)' <=> Admitted(e)
      BY <2>4, Zenon DEF Admitted
    <3>5. GcsAdmission'
      BY <1>1, <3>4, ZenonT(40) DEF GcsDirs, GcsAdmission, GCS!Overlapping, GCS!find_overlap
    <3> QED
      BY <3>1, <3>3, <3>5, Zenon
  <2>9. GcsWhole'
    <3> SUFFICES ASSUME NEW x \in File, disk'[x] # None
                 PROVE  (\E h \in Generation : disk'[x] = GCS!Whole(h)) \/ GCS!Around(x) \cap stray' # {}
      BY Zenon DEF GcsWhole, GCS!Whole, GCS!Around
    <3>1. CASE x # f
      BY <3>1, <2>3, <1>1, Zenon DEF GcsDirs, GcsWhole
    <3>2. CASE x = f /\ m \notin stray
      BY <3>2, <2>1, <2>2, <2>3, Zenon
    <3>3. CASE x = f /\ m \in stray
      BY <3>3, <2>1, <1>1, Zenon DEF GCS!Around
    <3> QED
      BY <3>1, <3>2, <3>3, Zenon
  <2>10. GcsOwned'
    <3> SUFFICES ASSUME NEW n \in Model, GCS!Untouched(n), NEW x \in Listed[n], disk'[x] # None
                 PROVE  \E k \in Model : x \in Listed[k] /\ manifest[k] # None
      BY <1>1, <2>5, Zenon DEF GcsOwned
    <3>1. CASE x = f
      BY <3>1, <1>1, <2>1, <2>7, Zenon
    <3>2. CASE x # f
      BY <3>2, <2>3, <2>6, Zenon DEF GcsDirs, GcsOwned
    <3> QED
      BY <3>1, <3>2, Zenon
  <2>11. GcsExact'
    <3> SUFFICES ASSUME ~raced', "damage" \notin faults', NEW n \in Model, GCS!Untouched(n)', manifest'[n] # None,
                        NEW x \in Listed[n], disk'[x] # None
                 PROVE  disk'[x] = GCS!Whole(manifest'[n][x])
      BY Zenon DEF GcsExact, GCS!Whole
    <3>1. ~raced /\ "damage" \notin faults /\ GCS!Untouched(n) /\ manifest[n] # None /\ x \in File
      BY <1>1, <2>5, <2>6, Zenon
    <3>2. CASE x = f
      <4>1. /\ m = n \/ m \in GCS!Overlapping(n)
            /\ m \notin stray /\ manifest[m] # None /\ dl[d].pins = manifest[m]
        BY <3>1, <3>2, <2>7, Zenon
      <4>2. m = n
        BY <4>1, <3>1, GcsNotBoth, Zenon DEF GcsDirs
      <4> QED
        BY <4>1, <4>2, <3>2, <1>1, <2>2, <2>3, Zenon DEF g
    <3>3. CASE x # f
      <4>1. disk[x] = GCS!Whole(manifest[n][x])
        BY <3>1, <3>3, <2>3, Zenon DEF GcsDirs, GcsExact
      <4> QED
        BY <4>1, <3>1, <3>3, <1>1, <2>3, Zenon
    <3> QED
      BY <3>2, <3>3, Zenon
  <2>12. GcsDone'
    <3> SUFFICES ASSUME NEW e \in Download, dl[e].pc = "ok", GCS!Untouched(ModelOf[e])
                 PROVE  manifest[ModelOf[e]] # None /\ \A x \in GCS!Wanted(e) : disk'[x] # None
      BY <1>1, <2>4, <2>5, GcsWantedFiles, ZenonT(40) DEF GcsDone, GCS!Wanted
    <3>1. manifest[ModelOf[e]] # None /\ \A x \in GCS!Wanted(e) : disk[x] # None
      BY Zenon DEF GcsDirs, GcsDone
    <3>2. ASSUME NEW x \in GCS!Wanted(e) PROVE disk'[x] # None
      <4>1. x \in Listed[ModelOf[e]] /\ x \in File /\ ModelOf[e] \in Model
        BY GcsWantedFiles, Zenon
      <4>2. CASE x = f
        BY <4>1, <4>2, <2>2, <2>3, <2>7, Zenon
      <4>3. CASE x # f
        BY <4>1, <4>3, <3>1, <2>3, Zenon
      <4> QED
        BY <4>2, <4>3, Zenon
    <3> QED
      BY <3>1, <3>2, Zenon
  <2> QED
    BY <1>2, <2>8, <2>9, <2>10, <2>11, <2>12, ZenonT(40) DEF GcsDirs
<1> QED
  BY <1>3, <1>4, GcsRenameHeld, Zenon

\* A directory is removed: what becomes of the rest.
GcsTaken(r) ==
  /\ \A n \in Model : manifest'[n] = manifest[n] \/ (n \in GCS!AtOrBelow(r) /\ manifest'[n] = None)
  /\ \A f \in File : disk'[f] = disk[f] \/ (f \in Listed[r] /\ disk'[f] = None)
  /\ stray \subseteq stray' /\ stray' \subseteq stray \cup GCS!AtOrBelow(r) /\ damaged' \subseteq damaged
  /\ \A d \in Download : dl'[d].pc = dl[d].pc /\ dl'[d].pins = dl[d].pins

\* remove takes nothing else, and a download below it no longer counts on a lock.
LEMMA GcsRemoveHeld ==
  ASSUME GCS!WellFormed, GcsHeld, NEW r \in Model, GCS!remove(r),
         bucket' = bucket, removed' \in [Deletion -> BOOLEAN]
  PROVE  GcsHeld' /\ GcsTaken(r)
<1> DEFINE gone == GCS!AtOrBelow(r)
           t(d) == [f \in File |-> IF ModelOf[d] \in gone /\ dl[d].task[f] = "stream" THEN "lost"
                                   ELSE dl[d].task[f]]
           q(d) == [dl[d] EXCEPT !.task = t(d)]
<1>1. /\ manifest' = [n \in Model |-> IF n \in gone THEN None ELSE manifest[n]]
      /\ disk' = [f \in File |-> IF f \in Listed[r] THEN None ELSE disk[f]]
      /\ part' = [n \in Model |-> IF n \in gone THEN [f \in File |-> <<>>] ELSE part[n]]
      /\ lock' = [n \in Model |-> IF n \in gone THEN [f \in File |-> None] ELSE lock[n]]
      /\ damaged' = damaged \ gone
      /\ dl' = [d \in Download |-> q(d)]
      /\ stray' = stray \cup {n \in gone : \E d \in Download :
                    ModelOf[d] = n /\ dl[d].pc \in {"manifest", "listing", "recheck", "tasks"}}
  BY Zenon DEF GCS!remove
<1>2. ASSUME NEW d \in Download
      PROVE  /\ q(d) \in GcsDl /\ q(d).pc = dl[d].pc /\ q(d).pins = dl[d].pins
             /\ \A f \in File : q(d).task[f] # "none" => dl[d].task[f] # "none"
             /\ ModelOf[d] \notin gone => \A f \in File : q(d).task[f] = dl[d].task[f]
  <2>1. dl[d] \in GcsDl /\ dl[d].task \in [File -> GcsTaskState]
    BY GcsFields, Zenon DEF GcsHeld
  <2>2. /\ t(d) \in [File -> GcsTaskState]
        /\ \A f \in File : t(d)[f] # "none" => dl[d].task[f] # "none"
        /\ ModelOf[d] \notin gone => \A f \in File : t(d)[f] = dl[d].task[f]
    BY <2>1, Zenon DEF GcsTaskState
  <2> HIDE DEF t
  <2>3. q(d) \in GcsDl /\ q(d).pc = dl[d].pc /\ q(d).pins = dl[d].pins /\ q(d).task = t(d)
    BY <2>1, <2>2, Zenon DEF GcsDl
  <2> QED
    BY <2>2, <2>3, Zenon
<1> HIDE DEF q
<1>3. dl' \in [Download -> GcsDl] /\ \A d \in Download : dl'[d] = q(d)
  BY <1>1, <1>2, Zenon
<1>4. /\ GcsGrid(part') /\ GcsGrid(lock')
      /\ \A n \in Model : n \notin gone => part'[n] = part[n] /\ lock'[n] = lock[n]
  BY <1>1, ZenonT(40) DEF GcsHeld, GcsTypes, GcsGrid
<1>5. /\ DOMAIN manifest' = Model /\ DOMAIN disk' = File
      /\ \A n \in Model : manifest'[n] = manifest[n] \/ (n \in gone /\ manifest'[n] = None)
      /\ \A f \in File : disk'[f] = disk[f] \/ (f \in Listed[r] /\ disk'[f] = None)
  BY <1>1, ZenonT(40)
<1>6. GcsTaken(r)
  BY <1>1, <1>2, <1>3, <1>5, ZenonT(40) DEF GcsTaken
<1>7. GcsTypes'
  <2>1. \A n \in Model : manifest'[n] \in [Listed[n] -> Generation] \cup {None}
    BY <1>5, Zenon DEF GcsHeld, GcsTypes
  <2>2. \A d \in Download : dl'[d].pc \in {"recheck", "tasks"} => dl'[d].pins \in [Listed[ModelOf[d]] -> Generation]
    BY <1>2, <1>3, ZenonT(40) DEF GcsHeld, GcsTypes
  <2> QED
    BY <1>3, <1>4, <1>5, <2>1, <2>2, ZenonT(40) DEF GcsHeld, GcsTypes, GcsGrid
<1>8. ASSUME NEW d \in Download PROVE GcsTask(d)'
  <2>1. /\ dl'[d].pins = dl[d].pins /\ dl'[d].pc = dl[d].pc /\ ModelOf[d] \in Model /\ GcsTask(d)
        /\ \A x \in File : dl'[d].task[x] # "none" => dl[d].task[x] # "none"
    <3>1. dl'[d] = q(d)
      BY <1>3, Zenon
    <3>2. /\ q(d).pc = dl[d].pc /\ q(d).pins = dl[d].pins
          /\ \A x \in File : q(d).task[x] # "none" => dl[d].task[x] # "none"
      BY <1>2, Zenon
    <3>3. ModelOf[d] \in Model /\ GcsTask(d)
      BY Zenon DEF GCS!WellFormed, GcsHeld
    <3> QED
      BY <3>1, <3>2, <3>3, Zenon
  <2>2. ASSUME dl[d].pc = "tasks", ModelOf[d] \notin stray', NEW x \in File
        PROVE  /\ dl'[d].task[x] = dl[d].task[x]
               /\ lock[ModelOf[d]][x] = d =>
                    lock'[ModelOf[d]][x] = d /\ part'[ModelOf[d]][x] = part[ModelOf[d]][x]
    <3>1. ModelOf[d] \notin gone
      BY <1>1, <2>2, Zenon
    <3> QED
      BY <1>2, <1>3, <1>4, <2>1, <3>1, Zenon
  <2>3. stray \subseteq stray'
    BY <1>1, Zenon
  <2> QED
    BY <2>1, <2>2, <2>3, GcsTaskKept, ZenonT(40)
<1> QED
  BY <1>6, <1>7, <1>8, Zenon DEF GcsHeld

\* A deletion.
LEMMA GcsDeleteMoves ==
  ASSUME GCS!WellFormed, GcsInv, NEW e \in Deletion, GCS!DeleteModel(e)
  PROVE  GcsInv'
<1> DEFINE r == Removes[e]
<1> USE DEF GcsInv
<1>1. /\ removed' = [removed EXCEPT ![e] = TRUE] /\ UNCHANGED <<bucket, raced, faults>> /\ r \in Model
  BY Zenon DEF GCS!DeleteModel, GCS!WellFormed
<1>2. removed' \in [Deletion -> BOOLEAN] /\ removed'[e] /\ \A x \in Deletion : removed[x] => removed'[x]
  BY <1>1, Zenon DEF GcsHeld, GcsTypes
<1>3. GcsHeld' /\ GcsTaken(r)
  <2>1. CASE GCS!remove(r)
    BY <1>1, <1>2, <2>1, GcsRemoveHeld, Zenon
  <2>2. CASE UNCHANGED <<GCS!dirVars, GCS!lockVars, dl>>
    <3>1. UNCHANGED <<manifest, damaged, disk, part, lock, stray, dl>>
      BY <2>2, Zenon DEF GCS!dirVars, GCS!lockVars
    <3>2. GcsTaken(r)
      BY <3>1, Zenon DEF GcsTaken
    <3>3. GcsTypes'
      BY <1>1, <1>2, <3>1, ZenonT(40) DEF GcsHeld, GcsTypes, GcsGrid
    <3>4. \A d \in Download : GcsTask(d)'
      BY <3>1, GcsTaskKept, ZenonT(40) DEF GcsHeld
    <3> QED
      BY <3>2, <3>3, <3>4, Zenon DEF GcsHeld
  <2> QED
    BY <2>1, <2>2, Zenon DEF GCS!DeleteModel
<1>4. \A n \in Model : /\ Kept(n)' => Kept(n) /\ n \notin GCS!AtOrBelow(r)
                       /\ GCS!Untouched(n)' => GCS!Untouched(n) /\ r # n /\ r \notin GCS!Overlapping(n)
  BY <1>2, ZenonT(40) DEF Kept, GCS!AtOrBelow, GCS!Untouched, GCS!Overlapping
<1>5. ASSUME NEW n \in Model, GCS!Untouched(n)'
      PROVE  /\ GCS!Untouched(n) /\ manifest'[n] = manifest[n]
             /\ \A f \in Listed[n] : f \in File /\ disk'[f] = disk[f]
  <2>1. GCS!Untouched(n) /\ r # n /\ r \notin GCS!Overlapping(n)
    BY <1>4, <1>5, Zenon
  <2>2. n \notin GCS!AtOrBelow(r)
    BY <1>1, <2>1, Zenon DEF GCS!AtOrBelow, GCS!Overlapping
  <2>3. \A f \in Listed[n] : f \in File /\ f \notin Listed[r]
    BY <1>1, <2>1, GcsShared, Zenon DEF GCS!WellFormed
  <2> QED
    BY <1>3, <2>1, <2>2, <2>3, Zenon DEF GcsTaken
<1>6. \A d \in Download : ModelOf[d] \in Model /\ dl'[d].pc = dl[d].pc /\ dl'[d].pins = dl[d].pins
  BY <1>3, Zenon DEF GcsTaken, GCS!WellFormed
<1>7. GcsDamage' /\ GcsWhole'
  <2>1. GcsDamage'
    BY <1>1, <1>3, Zenon DEF GcsDirs, GcsDamage, GcsTaken
  <2>2. ASSUME NEW f \in File, disk'[f] # None
        PROVE  (\E g \in Generation : disk'[f] = GCS!Whole(g)) \/ GCS!Around(f) \cap stray' # {}
    <3>1. disk'[f] = disk[f] /\ stray \subseteq stray'
      BY <1>3, <2>2, Zenon DEF GcsTaken
    <3>2. (\E g \in Generation : disk[f] = GCS!Whole(g)) \/ GCS!Around(f) \cap stray # {}
      BY <2>2, <3>1, Zenon DEF GcsDirs, GcsWhole
    <3> QED
      BY <3>1, <3>2, Zenon
  <2> QED
    BY <2>1, <2>2, Zenon DEF GcsWhole, GCS!Whole, GCS!Around
<1>8. GcsKept'
  <2>1. ASSUME NEW n \in Model, Kept(n)' PROVE n \notin stray' /\ manifest'[n] = manifest[n]
    <3>1. Kept(n) /\ n \notin GCS!AtOrBelow(r)
      BY <1>4, <2>1, Zenon
    <3> QED
      BY <1>3, <3>1, Zenon DEF GcsDirs, GcsKept, GcsTaken
  <2>2. ASSUME NEW d \in Download, Kept(ModelOf[d])', dl'[d].pc \in {"recheck", "tasks"}
        PROVE  manifest'[ModelOf[d]] # None /\ ("damage" \notin faults' => dl'[d].pins = manifest'[ModelOf[d]])
    <3>1. Kept(ModelOf[d]) /\ manifest'[ModelOf[d]] = manifest[ModelOf[d]]
      BY <1>4, <1>6, <2>1, <2>2, Zenon
    <3> QED
      BY <1>1, <1>6, <2>2, <3>1, Zenon DEF GcsDirs, GcsKept
  <2> QED
    BY <2>1, <2>2, Zenon DEF GcsKept
<1>9. GcsOwned'
  <2> SUFFICES ASSUME NEW m \in Model, GCS!Untouched(m)', NEW f \in Listed[m], disk'[f] # None
               PROVE  \E n \in Model : f \in Listed[n] /\ manifest'[n] # None
    BY Zenon DEF GcsOwned
  <2>1. GCS!Untouched(m) /\ disk[f] # None
    BY <1>5, Zenon
  <2>2. PICK n \in Model : f \in Listed[n] /\ manifest[n] # None
    BY <2>1, Zenon DEF GcsDirs, GcsOwned
  <2>3. n = m \/ n \in GCS!Overlapping(m)
    BY <2>2, GcsShared, Zenon
  <2>4. n \notin GCS!AtOrBelow(r)
    <3>1. r # m /\ r \notin GCS!Overlapping(m)
      BY <1>4, Zenon
    <3>2. CASE n = m
      BY <1>1, <3>1, <3>2, Zenon DEF GCS!AtOrBelow, GCS!Overlapping
    <3>3. CASE n \in GCS!Overlapping(m)
      <4>1. <<r, n>> \in Below => r = m \/ r \in GCS!Overlapping(m)
        BY <1>1, <3>3, Zenon DEF GCS!WellFormed
      <4> QED
        BY <3>1, <3>3, <4>1, Zenon DEF GCS!AtOrBelow
    <3> QED
      BY <2>3, <3>2, <3>3, Zenon
  <2>5. manifest'[n] = manifest[n]
    BY <1>3, <2>4, Zenon DEF GcsTaken
  <2> QED
    BY <2>2, <2>5, Zenon
<1>10. GcsExact'
  <2> SUFFICES ASSUME ~raced', "damage" \notin faults', NEW m \in Model, GCS!Untouched(m)', manifest'[m] # None,
                      NEW f \in Listed[m], disk'[f] # None
               PROVE  disk'[f] = GCS!Whole(manifest'[m][f])
    BY Zenon DEF GcsExact, GCS!Whole
  <2>1. GCS!Untouched(m) /\ manifest'[m] = manifest[m] /\ disk'[f] = disk[f]
    BY <1>5, Zenon
  <2>2. disk[f] = GCS!Whole(manifest[m][f])
    BY <1>1, <2>1, Zenon DEF GcsDirs, GcsExact
  <2> QED
    BY <2>1, <2>2, Zenon
<1>11. GcsDone'
  <2> SUFFICES ASSUME NEW d \in Download, dl'[d].pc = "ok", GCS!Untouched(ModelOf[d])'
               PROVE  manifest'[ModelOf[d]] # None /\ \A f \in GCS!Wanted(d) : disk'[f] # None
    BY Zenon DEF GcsDone, GCS!Wanted
  <2>1. /\ GCS!Untouched(ModelOf[d]) /\ manifest'[ModelOf[d]] = manifest[ModelOf[d]]
        /\ \A f \in Listed[ModelOf[d]] : disk'[f] = disk[f]
    BY <1>5, <1>6, Zenon
  <2>2. manifest[ModelOf[d]] # None /\ \A f \in GCS!Wanted(d) : disk[f] # None
    BY <1>6, <2>1, Zenon DEF GcsDirs, GcsDone
  <2>3. GCS!Wanted(d) \subseteq Listed[ModelOf[d]]
    BY GcsWantedFiles, Zenon
  <2> QED
    BY <2>1, <2>2, <2>3, Zenon
<1>12. \A n \in Model : manifest'[n] # None => manifest[n] # None
  BY <1>3, Zenon DEF GcsTaken
<1>13. GcsAdmission'
  <2>1. \A d \in Download : Admitted(d)' => Admitted(d)
    BY <1>6, Zenon DEF Admitted
  <2>2. \A n : GCS!find_overlap(n)' \subseteq GCS!find_overlap(n)
    BY <1>12, Zenon DEF GCS!find_overlap, GCS!Overlapping
  <2> QED
    BY <1>1, <2>1, <2>2, Zenon DEF GcsDirs, GcsAdmission, GCS!Overlapping
<1>14. GCS!DeletionSparesOthers'
  <2>1. \A p \in Below : p[1] \in Model /\ p[2] \in Model
    BY Zenon DEF GCS!WellFormed
  <2> QED
    BY <1>1, <1>12, <2>1, Zenon DEF GcsDirs, GCS!DeletionSparesOthers
<1> QED
  BY <1>3, <1>7, <1>8, <1>9, <1>10, <1>11, <1>13, <1>14, ZenonT(40) DEF GcsDirs

\* The world outside: an object is replaced, a manifest damaged, or nothing happens.
LEMMA GcsWorldMoves ==
  ASSUME GCS!WellFormed, GcsInv, GCS!ObjectReplaced \/ GCS!ManifestDamaged \/ UNCHANGED GCS!vars
  PROVE  GcsInv'
<1> USE DEF GcsInv
<1>1. /\ UNCHANGED <<manifest, disk, part, lock, stray, dl, removed, raced>>
      /\ bucket' \in [File -> Generation]
      /\ \/ damaged' = damaged /\ faults' = faults \cup {"replace"}
         \/ faults' = faults \cup {"damage"}
         \/ damaged' = damaged /\ faults' = faults
  <2>1. CASE GCS!ObjectReplaced
    <3>1. PICK f \in File, g \in Generation : bucket' = [bucket EXCEPT ![f] = g]
      BY <2>1, Zenon DEF GCS!ObjectReplaced
    <3>2. bucket' \in [File -> Generation]
      BY <3>1, Zenon DEF GcsHeld, GcsTypes
    <3> QED
      BY <2>1, <3>2, Zenon DEF GCS!ObjectReplaced, GCS!dirVars, GCS!lockVars, GCS!Fail
  <2>2. CASE GCS!ManifestDamaged
    BY <2>2, Zenon DEF GCS!ManifestDamaged, GCS!Fail, GCS!lockVars, GcsHeld, GcsTypes
  <2>3. CASE UNCHANGED GCS!vars
    BY <2>3, Zenon DEF GCS!vars, GCS!dirVars, GCS!lockVars, GcsHeld, GcsTypes
  <2> QED
    BY <2>1, <2>2, <2>3, Zenon
<1>2. GcsHeld'
  <2>1. GcsTypes'
    BY <1>1, ZenonT(40) DEF GcsHeld, GcsTypes, GcsGrid
  <2>2. \A d \in Download : GcsTask(d)'
    BY <1>1, GcsTaskKept, ZenonT(40) DEF GcsHeld
  <2> QED
    BY <2>1, <2>2, Zenon DEF GcsHeld
<1>3. GcsWhole' /\ GcsOwned' /\ GcsExact' /\ GCS!DeletionSparesOthers'
  <2>1. faults \subseteq faults'
    BY <1>1, Zenon
  <2> QED
    BY <1>1, <2>1, GcsSameFiles, Zenon
<1>4. \A n \in Model : (Kept(n)' <=> Kept(n)) /\ (GCS!Untouched(n)' <=> GCS!Untouched(n))
  BY <1>1, GcsSameRemoved, Zenon
<1>5. \A d \in Download : ModelOf[d] \in Model
  BY Zenon DEF GCS!WellFormed
<1>6. "damage" \notin faults' => "damage" \notin faults /\ damaged' = damaged
  BY <1>1, Zenon
<1>7. GcsDamage' /\ GcsDone'
  BY <1>1, <1>4, <1>5, <1>6, ZenonT(40) DEF GcsDirs, GcsDamage, GcsDone, GCS!Wanted
<1>8. GcsKept'
  BY <1>1, <1>4, <1>5, <1>6, ZenonT(40) DEF GcsDirs, GcsKept
<1>9. GcsAdmission'
  BY <1>1, Zenon DEF GcsDirs, GcsAdmission, Admitted, GCS!Overlapping, GCS!find_overlap
<1> QED
  BY <1>2, <1>3, <1>7, <1>8, <1>9, Zenon DEF GcsDirs

\* The invariant holds throughout.
LEMMA GcsInvariance == GCS!WellFormed /\ GCS!Spec => []GcsInv
<1> SUFFICES ASSUME GCS!WellFormed PROVE GCS!Spec => []GcsInv
  BY Zenon
<1>1. GCS!Init => GcsInv
  <2> SUFFICES ASSUME GCS!Init PROVE GcsInv
    BY Zenon
  <2>1. \A d \in Download : dl[d].pc = "start" /\ dl[d].pins = None
    BY Zenon DEF GCS!Init
  <2>2. /\ damaged = {} /\ stray = {} /\ \A m \in Model : manifest[m] = None
        /\ \A f \in File : disk[f] = None
    BY Zenon DEF GCS!Init
  <2>3. GcsTypes
    <3> DEFINE t == [f \in File |-> "none"]
               r == [pc |-> "start", pins |-> None, task |-> t]
    <3>1. t \in [File -> GcsTaskState]
      BY Zenon DEF GcsTaskState
    <3>2. dl = [d \in Download |-> r]
      BY Zenon DEF GCS!Init
    <3> HIDE DEF t
    <3>3. r \in GcsDl
      BY <3>1, Zenon DEF GcsDl, GcsPc
    <3> HIDE DEF r
    <3>4. dl \in [Download -> GcsDl]
      BY <3>2, <3>3, Zenon
    <3>5. bucket \in [File -> Generation] /\ removed \in [Deletion -> BOOLEAN]
      BY Zenon DEF GCS!Init, GCS!WellFormed
    <3>6. DOMAIN manifest = Model /\ DOMAIN disk = File /\ GcsGrid(part) /\ GcsGrid(lock)
      BY Zenon DEF GCS!Init, GcsGrid
    <3> QED
      BY <2>1, <2>2, <3>4, <3>5, <3>6, Zenon DEF GcsTypes
  <2>4. GcsHeld
    BY <2>1, <2>3, Zenon DEF GcsHeld, GcsTask
  <2>5. GcsDamage /\ GcsWhole /\ GcsKept
    BY <2>1, <2>2, Zenon DEF GcsDamage, GcsWhole, GcsKept
  <2>6. \A m \in Model : \A f \in Listed[m] : f \in File
    BY Zenon DEF GCS!WellFormed
  <2>7. GcsOwned /\ GcsExact
    BY <2>2, <2>6, Zenon DEF GcsOwned, GcsExact
  <2>8. GcsDone /\ GcsAdmission
    BY <2>1, Zenon DEF GcsDone, GcsAdmission, Admitted
  <2>9. GCS!DeletionSparesOthers
    BY <2>2, Zenon DEF GCS!DeletionSparesOthers, GCS!WellFormed
  <2> QED
    BY <2>4, <2>5, <2>7, <2>8, <2>9, Zenon DEF GcsInv, GcsDirs
<1>2. GcsInv /\ [GCS!Next]_GCS!vars => GcsInv'
  <2> SUFFICES ASSUME GcsInv, [GCS!Next]_GCS!vars PROVE GcsInv'
    BY Zenon
  <2>1. ASSUME NEW d \in Download, GCS!DownloadStep(d) PROVE GcsInv'
    BY ZenonT(40), <2>1, GcsQuietSteps, GcsAdmissionMoves, GcsFindMoves, GcsManifestMoves, GcsRenameMoves
       DEF GCS!DownloadStep
  <2>2. ASSUME NEW d \in Download, GCS!DownloadFails(d) PROVE GcsInv'
    BY <2>2, GcsQuietSteps, ZenonT(40)
  <2>3. ASSUME NEW e \in Deletion, GCS!DeleteModel(e) PROVE GcsInv'
    BY <2>3, GcsDeleteMoves, Zenon
  <2>4. CASE GCS!ObjectReplaced \/ GCS!ManifestDamaged \/ UNCHANGED GCS!vars
    BY <2>4, GcsWorldMoves, Zenon
  <2> QED
    BY <2>1, <2>2, <2>3, <2>4, ZenonT(40) DEF GCS!Next
<1> QED
  BY <1>1, <1>2, PTL DEF GCS!Spec

\* An installed file is a whole object, unless its directory was removed under a
\* running download; a download that succeeded has left every file it wanted while
\* nothing was deleted around it, and they are what the manifest pins unless it was
\* damaged or a model above or below was admitted at once (gcs:
\* promote_verified_temp_file, cache_satisfies_request, remove_dir_all).
THEOREM GcsInstalledWhole == GCS!WellFormed /\ GCS!Spec => []GCS!InstalledWhole
<1> SUFFICES ASSUME GCS!WellFormed PROVE GCS!Spec => []GCS!InstalledWhole
  BY Zenon
<1>0. GCS!Spec => []GcsInv
  BY GcsInvariance, Zenon
<1>1. GcsInv => GCS!InstalledWhole
  <2> SUFFICES ASSUME GcsInv PROVE GCS!InstalledWhole
    BY Zenon
  <2>1. ASSUME NEW d \in Download, dl[d].pc = "ok", GCS!Untouched(ModelOf[d]), NEW f \in GCS!Wanted(d)
        PROVE  /\ disk[f] # None
               /\ "damage" \notin faults /\ ~raced => disk[f] = GCS!Whole(manifest[ModelOf[d]][f])
    <3>1. ModelOf[d] \in Model /\ f \in Listed[ModelOf[d]]
      BY GcsWantedFiles, Zenon
    <3>2. disk[f] # None /\ manifest[ModelOf[d]] # None
      BY <2>1, Zenon DEF GcsInv, GcsDirs, GcsDone
    <3> QED
      BY <2>1, <3>1, <3>2, Zenon DEF GcsInv, GcsDirs, GcsExact
  <2> QED
    BY <2>1, Zenon DEF GcsInv, GcsDirs, GcsWhole, GCS!InstalledWhole
<1> QED
  BY <1>0, <1>1, PTL

\* Models whose directories contain each other are not both installed, so that
\* deleting one spares the other, unless both were admitted at once (gcs:
\* find_overlap, ensure_available).
THEOREM GcsDeletionSparesOthers == GCS!WellFormed /\ GCS!Spec => []GCS!DeletionSparesOthers
<1> SUFFICES ASSUME GCS!WellFormed PROVE GCS!Spec => []GCS!DeletionSparesOthers
  BY Zenon
<1>0. GCS!Spec => []GcsInv
  BY GcsInvariance, Zenon
<1>1. GcsInv => GCS!DeletionSparesOthers
  BY Zenon DEF GcsInv, GcsDirs
<1> QED
  BY <1>0, <1>1, PTL

-----------------------------------------------------------------------------
(* S3: a marker stands for a whole model.                                  *)

S3 == INSTANCE S3Download

S3Task ==
  [pc : {"list", "write", "ok", "failed"}, next : Nat \ {0}, at : Nat, open : BOOLEAN, torn : BOOLEAN]

\* A file that can be written is there, and no file has more units than it should.
S3Shape ==
  /\ data \in [File -> (SUBSET (1 .. Size)) \cup {None}] /\ marker \subseteq Model
  /\ dl \in [Download -> S3Task]
  /\ \A d \in Download : dl[d].pc = "write" =>
       /\ dl[d].next <= Len(Object[ModelOf[d]])
       /\ dl[d].open => data[Object[ModelOf[d]][dl[d].next]] \subseteq 1 .. Size

\* The objects of d are on disk up to the one it writes; at the end there is a marker.
S3Good(d) ==
  LET m == ModelOf[d] IN
  /\ \A i \in 1 .. Len(Object[m]) : i < dl[d].next => data[Object[m][i]] = 1 .. Size
  /\ dl[d].pc = "write" => dl[d].open /\ 1 .. dl[d].at \subseteq data[Object[m][dl[d].next]]
  /\ dl[d].pc = "ok" => dl[d].next > Len(Object[m]) /\ Len(Object[m]) # 0 /\ m \in marker

S3Progress == \A d \in Download : dl[d].pc # "failed" /\ ~dl[d].torn => S3Good(d)

S3Inv == S3Shape /\ S3Progress

\* A position within a sequence of a given length.
LEMMA Within ==
  ASSUME NEW a \in Nat \ {0}, NEW b \in Nat, a <= b
  PROVE  a \in 1 .. b
OBVIOUS

\* One more unit of a file.
LEMMA OneMore ==
  ASSUME NEW a \in Nat
  PROVE  (1 .. a) \cup {a + 1} = 1 .. (a + 1)
OBVIOUS

\* The constants, fact by fact.
LEMMA S3Constants ==
  ASSUME S3!WellFormed
  PROVE  /\ Size \in Nat
         /\ \A d \in Download : ModelOf[d] \in Model
         /\ \A m \in Model : /\ Len(Object[m]) \in Nat /\ DOMAIN Object[m] = 1 .. Len(Object[m])
                             /\ \A i \in 1 .. Len(Object[m]) : Object[m][i] \in S3!Key(m) /\ Object[m][i] \in File
                             /\ \A x \in S3!Key(m) : x \in File
                             /\ \A i, j \in 1 .. Len(Object[m]) : Object[m][i] = Object[m][j] => i = j
<1>1. Size \in Nat /\ \A d \in Download : ModelOf[d] \in Model
  BY Zenon DEF S3!WellFormed
<1>2. ASSUME NEW m \in Model
      PROVE  /\ Len(Object[m]) \in Nat /\ DOMAIN Object[m] = 1 .. Len(Object[m])
             /\ \A i \in 1 .. Len(Object[m]) : Object[m][i] \in S3!Key(m) /\ Object[m][i] \in File
             /\ \A x \in S3!Key(m) : x \in File
             /\ \A i, j \in 1 .. Len(Object[m]) : Object[m][i] = Object[m][j] => i = j
  <2>1. Object[m] \in Seq(File)
    BY Zenon DEF S3!WellFormed
  <2>2. /\ Len(Object[m]) \in Nat /\ DOMAIN Object[m] = 1 .. Len(Object[m])
        /\ \A i \in 1 .. Len(Object[m]) : Object[m][i] \in File
    BY <2>1
  <2>3. /\ \A i \in DOMAIN Object[m] : Object[m][i] \in S3!Key(m)
        /\ \A x \in S3!Key(m) : x \in File
    BY <2>2, Zenon DEF S3!Key
  <2>4. \A i, j \in DOMAIN Object[m] : Object[m][i] = Object[m][j] => i = j
    BY Zenon DEF S3!WellFormed
  <2> QED
    BY <2>2, <2>3, <2>4, Zenon
<1> QED
  BY <1>1, <1>2, Zenon

\* The fields of a download.
LEMMA S3Fields ==
  ASSUME S3Shape, NEW d \in Download
  PROVE  /\ dl[d].pc \in {"list", "write", "ok", "failed"}
         /\ dl[d].next \in Nat \ {0} /\ dl[d].at \in Nat
         /\ dl[d].open \in BOOLEAN /\ dl[d].torn \in BOOLEAN
BY Zenon DEF S3Shape, S3Task

\* The file that d writes.
LEMMA S3Current ==
  ASSUME S3!WellFormed, S3Shape, NEW d \in Download, dl[d].next <= Len(Object[ModelOf[d]])
  PROVE  /\ dl[d].next \in 1 .. Len(Object[ModelOf[d]])
         /\ Object[ModelOf[d]][dl[d].next] \in File
         /\ Object[ModelOf[d]][dl[d].next] \in S3!Key(ModelOf[d])
<1>1. ModelOf[d] \in Model /\ Len(Object[ModelOf[d]]) \in Nat /\ dl[d].next \in Nat \ {0}
  BY S3Constants, S3Fields, Zenon
<1>2. dl[d].next \in 1 .. Len(Object[ModelOf[d]])
  BY <1>1, Within, Zenon
<1> QED
  BY <1>1, <1>2, S3Constants, Zenon

\* The record of one download changes.
LEMMA S3Set ==
  ASSUME S3Shape, NEW d \in Download, NEW r \in S3Task, dl' = [dl EXCEPT ![d] = r]
  PROVE  /\ dl' \in [Download -> S3Task] /\ dl'[d] = r
         /\ \A e \in Download : e # d => dl'[e] = dl[e]
BY Zenon DEF S3Shape

\* A download fails.
LEMMA S3Fails ==
  ASSUME S3Shape, NEW d \in Download, S3!Failed(d)
  PROVE  /\ dl' \in [Download -> S3Task] /\ dl'[d].pc = "failed"
         /\ \A e \in Download : e # d => dl'[e] = dl[e]
<1> DEFINE r == [dl[d] EXCEPT !.pc = "failed"]
<1>1. dl[d] \in S3Task
  BY Zenon DEF S3Shape
<1>2. r \in S3Task /\ r.pc = "failed"
  BY <1>1, Zenon DEF S3Task
<1>3. dl' = [dl EXCEPT ![d] = r]
  BY Zenon DEF S3!Failed
<1> HIDE DEF r
<1> QED
  BY <1>2, <1>3, S3Set, Zenon

\* A download whose files only grow stays good.
LEMMA S3Apart ==
  ASSUME S3!WellFormed, S3Inv, NEW e \in Download,
         dl[e].pc # "failed", ~dl[e].torn,
         dl'[e].pc = dl[e].pc, dl'[e].next = dl[e].next, dl'[e].at = dl[e].at,
         dl[e].pc = "write" => dl'[e].open = dl[e].open,
         ModelOf[e] \in marker => ModelOf[e] \in marker',
         \A f \in S3!Key(ModelOf[e]) :
           data'[f] = data[f] \/ (data[f] \subseteq data'[f] /\ data'[f] \subseteq 1 .. Size)
  PROVE  S3Good(e)'
<1> DEFINE m == ModelOf[e]
<1>1. S3Good(e) /\ m \in Model
  BY S3Constants, Zenon DEF S3Inv, S3Progress
<1>2. \A i \in 1 .. Len(Object[m]) : Object[m][i] \in S3!Key(m)
  BY <1>1, S3Constants, Zenon
<1>3. \A i \in 1 .. Len(Object[m]) : i < dl[e].next => data'[Object[m][i]] = 1 .. Size
  <2> SUFFICES ASSUME NEW i \in 1 .. Len(Object[m]), i < dl[e].next PROVE data'[Object[m][i]] = 1 .. Size
    BY Zenon
  <2>1. data[Object[m][i]] = 1 .. Size /\ Object[m][i] \in S3!Key(m)
    BY <1>1, <1>2, Zenon DEF S3Good
  <2> QED
    BY <2>1, Zenon
<1>4. dl[e].pc = "write" => 1 .. dl[e].at \subseteq data'[Object[m][dl[e].next]]
  <2> SUFFICES ASSUME dl[e].pc = "write" PROVE 1 .. dl[e].at \subseteq data'[Object[m][dl[e].next]]
    BY Zenon
  <2>1. Object[m][dl[e].next] \in S3!Key(m)
    BY S3Current, Zenon DEF S3Inv, S3Shape
  <2>2. 1 .. dl[e].at \subseteq data[Object[m][dl[e].next]]
    BY <1>1, Zenon DEF S3Good
  <2> QED
    BY <2>1, <2>2, Zenon
<1>5. /\ dl'[e].pc = "write" => dl'[e].open
      /\ dl'[e].pc = "ok" => dl'[e].next > Len(Object[m]) /\ Len(Object[m]) # 0 /\ m \in marker'
  BY <1>1, Zenon DEF S3Good
<1> QED
  BY <1>3, <1>4, <1>5, Zenon DEF S3Good

\* A step in which d fails and no file changes.
LEMMA S3FailureMoves ==
  ASSUME S3!WellFormed, S3Inv, NEW d \in Download, S3!Failed(d), data' = data, marker' = marker
  PROVE  S3Inv'
<1>1. /\ dl' \in [Download -> S3Task] /\ dl'[d].pc = "failed"
      /\ \A e \in Download : e # d => dl'[e] = dl[e]
  BY S3Fails, Zenon DEF S3Inv
<1>2. S3Shape'
  BY <1>1, ZenonT(40) DEF S3Inv, S3Shape
<1>3. ASSUME NEW e \in Download, dl'[e].pc # "failed", ~dl'[e].torn
      PROVE  S3Good(e)'
  BY <1>1, <1>3, S3Apart, Zenon
<1> QED
  BY <1>2, <1>3, Zenon DEF S3Inv, S3Progress

\* A download that opens an object.
LEMMA S3OpenMoves ==
  ASSUME S3!WellFormed, S3Inv, NEW d \in Download, S3!OpenObject(d)
  PROVE  S3Inv'
<1> DEFINE m == ModelOf[d]
           n == dl[d].next
           f == Object[m][n]
<1> USE DEF S3Inv
<1>1. CASE S3!Failed(d) /\ UNCHANGED data
  BY <1>1, S3FailureMoves, Zenon DEF S3!OpenObject
<1>2. ASSUME ~(S3!Failed(d) /\ UNCHANGED data)
      PROVE  S3Inv'
  <2>1. /\ dl[d].pc = "list" /\ n <= Len(Object[m]) /\ marker' = marker
        /\ data' = [data EXCEPT ![f] = {}]
        /\ dl' = [x \in Download |->
             IF x = d THEN [dl[d] EXCEPT !.pc = "write", !.at = 0, !.open = TRUE]
             ELSE [dl[x] EXCEPT !.torn = @ \/ (S3!Begun(x) /\ ModelOf[x] \in S3!Holding(f))]]
    BY <1>2, Zenon DEF S3!OpenObject
  <2>2. f \in File /\ m \in Model /\ n \in 1 .. Len(Object[m]) /\ n \in Nat \ {0}
    BY <2>1, S3Current, S3Constants, S3Fields, Zenon
  <2>3. /\ dl'[d].pc = "write" /\ dl'[d].at = 0 /\ dl'[d].open = TRUE /\ dl'[d].next = n
        /\ dl'[d].torn = dl[d].torn /\ dl'[d] \in S3Task
    <3>1. dl[d] \in S3Task /\ dl'[d] = [dl[d] EXCEPT !.pc = "write", !.at = 0, !.open = TRUE]
      BY <2>1, Zenon DEF S3Shape
    <3>2. 0 \in Nat
      OBVIOUS
    <3> QED
      BY <3>1, <3>2, Zenon DEF S3Task
  <2>4. \A e \in Download : e # d =>
          /\ dl'[e].pc = dl[e].pc /\ dl'[e].at = dl[e].at /\ dl'[e].open = dl[e].open
          /\ dl'[e].next = dl[e].next /\ dl'[e] \in S3Task
          /\ dl'[e].torn = (dl[e].torn \/ (S3!Begun(e) /\ ModelOf[e] \in S3!Holding(f)))
    <3> SUFFICES ASSUME NEW e \in Download, e # d
                 PROVE  /\ dl'[e].pc = dl[e].pc /\ dl'[e].at = dl[e].at /\ dl'[e].open = dl[e].open
                        /\ dl'[e].next = dl[e].next /\ dl'[e] \in S3Task
                        /\ dl'[e].torn = (dl[e].torn \/ (S3!Begun(e) /\ ModelOf[e] \in S3!Holding(f)))
      BY Zenon
    <3> DEFINE t == dl[e].torn \/ (S3!Begun(e) /\ ModelOf[e] \in S3!Holding(f))
    <3>1. dl[e] \in S3Task /\ dl'[e] = [dl[e] EXCEPT !.torn = t] /\ t \in BOOLEAN
      BY <2>1, Zenon DEF S3Shape
    <3> HIDE DEF t
    <3>2. /\ dl'[e].pc = dl[e].pc /\ dl'[e].at = dl[e].at /\ dl'[e].open = dl[e].open
          /\ dl'[e].next = dl[e].next /\ dl'[e] \in S3Task /\ dl'[e].torn = t
      BY <3>1, Zenon DEF S3Task
    <3> QED
      BY <3>2, Zenon DEF t
  <2>5. dl' \in [Download -> S3Task]
    BY <2>1, <2>3, <2>4, Zenon
  <2>6. \A x \in File : data'[x] = IF x = f THEN {} ELSE data[x]
    BY <2>1, <2>2, Zenon DEF S3Shape
  <2>7. S3Shape'
    <3>1. data' \in [File -> (SUBSET (1 .. Size)) \cup {None}]
      BY <2>1, <2>2, Zenon DEF S3Shape
    <3>2. ASSUME NEW e \in Download, dl'[e].pc = "write"
          PROVE  /\ dl'[e].next <= Len(Object[ModelOf[e]])
                 /\ dl'[e].open => data'[Object[ModelOf[e]][dl'[e].next]] \subseteq 1 .. Size
      <4>1. dl'[e].next = dl[e].next /\ dl[e].next <= Len(Object[ModelOf[e]])
        BY <3>2, <2>1, <2>3, <2>4, Zenon DEF S3Shape
      <4>2. Object[ModelOf[e]][dl[e].next] \in File
        BY <4>1, S3Current, Zenon
      <4>3. CASE Object[ModelOf[e]][dl[e].next] = f
        BY <4>1, <4>2, <4>3, <2>6, Zenon
      <4>4. CASE Object[ModelOf[e]][dl[e].next] # f
        <5>1. e # d
          BY <4>4, Zenon
        <5> QED
          BY <3>2, <5>1, <4>1, <4>2, <4>4, <2>4, <2>6, Zenon DEF S3Shape
      <4> QED
        BY <4>3, <4>4, Zenon
    <3> QED
      BY <2>1, <2>5, <3>1, <3>2, Zenon DEF S3Shape
  <2>8. ASSUME NEW e \in Download, dl'[e].pc # "failed", ~dl'[e].torn
        PROVE  S3Good(e)'
    <3>1. CASE e = d
      <4>1. S3Good(d)
        BY <3>1, <2>1, <2>3, <2>8, Zenon DEF S3Progress
      <4>2. \A i \in 1 .. Len(Object[m]) : i < n => Object[m][i] \in File /\ Object[m][i] # f
        BY <2>2, S3Constants
      <4>3. \A i \in 1 .. Len(Object[m]) : i < n => data'[Object[m][i]] = 1 .. Size
        BY <4>1, <4>2, <2>6, Zenon DEF S3Good
      <4>4. data'[f] = {} /\ 1 .. 0 = {}
        BY <2>2, <2>6
      <4> QED
        BY <3>1, <4>3, <4>4, <2>3, Zenon DEF S3Good
    <3>2. CASE e # d /\ ~S3!Begun(e)
      <4>1. dl'[e].pc = "list" /\ dl'[e].next = 1
        <5>1. dl[e].pc = "list" /\ ~(dl[e].next > 1) /\ dl[e].next \in Nat \ {0}
          BY <3>2, S3Fields, Zenon DEF S3!Begun
        <5>2. dl[e].next = 1
          BY <5>1
        <5> QED
          BY <3>2, <5>1, <5>2, <2>4, Zenon
      <4>2. \A i \in 1 .. Len(Object[ModelOf[e]]) : ~(i < 1)
        OBVIOUS
      <4> QED
        BY <4>1, <4>2, Zenon DEF S3Good
    <3>3. CASE e # d /\ S3!Begun(e)
      <4>1. ~dl[e].torn /\ ModelOf[e] \in Model /\ f \notin S3!Key(ModelOf[e])
        BY <3>3, <2>4, <2>8, S3Constants, Zenon DEF S3!Holding
      <4>2. \A x \in S3!Key(ModelOf[e]) : x \in File
        BY <4>1, S3Constants, Zenon
      <4>3. \A x \in S3!Key(ModelOf[e]) : data'[x] = data[x]
        BY <4>1, <4>2, <2>6, Zenon
      <4> QED
        BY <3>3, <4>1, <4>3, <2>1, <2>4, <2>8, S3Apart, ZenonT(40)
    <3> QED
      BY <3>1, <3>2, <3>3, Zenon
  <2> QED
    BY <2>7, <2>8, Zenon DEF S3Progress
<1> QED
  BY <1>1, <1>2, Zenon

\* A unit is written.
LEMMA S3UnitMoves ==
  ASSUME S3!WellFormed, S3Inv, NEW d \in Download, dl[d].pc = "write", dl[d].at < Size,
         dl' = [dl EXCEPT ![d].at = @ + 1], marker' = marker,
         data' = [data EXCEPT ![Object[ModelOf[d]][dl[d].next]] =
                    IF dl[d].open THEN @ \cup {dl[d].at + 1} ELSE @]
  PROVE  S3Inv'
<1> DEFINE m == ModelOf[d]
           f == Object[m][dl[d].next]
           a == dl[d].at
           r == [dl[d] EXCEPT !.at = a + 1]
<1> USE DEF S3Inv
<1>1. /\ f \in File /\ a \in Nat /\ Size \in Nat /\ a + 1 \in Nat /\ a + 1 \in 1 .. Size
      /\ dl[d].open \in BOOLEAN /\ dl[d] \in S3Task
  <2>1. f \in File /\ a \in Nat /\ Size \in Nat /\ dl[d].open \in BOOLEAN /\ dl[d] \in S3Task
    BY S3Current, S3Constants, S3Fields, Zenon DEF S3Shape
  <2> QED
    BY <2>1
<1>2. /\ r \in S3Task /\ r.pc = "write" /\ r.torn = dl[d].torn /\ r.next = dl[d].next
      /\ r.open = dl[d].open /\ r.at = a + 1
  <2> HIDE DEF a
  <2> QED
    BY <1>1, Zenon DEF S3Task
<1>3. /\ dl' \in [Download -> S3Task] /\ dl'[d] = r
      /\ \A e \in Download : e # d => dl'[e] = dl[e]
  <2>1. dl' = [dl EXCEPT ![d] = r]
    BY Zenon
  <2> HIDE DEF r
  <2> QED
    BY <1>2, <2>1, S3Set, Zenon
<1> HIDE DEF r, a, f
<1>4. \A x \in File : data'[x] = IF x = f /\ dl[d].open THEN data[f] \cup {a + 1} ELSE data[x]
  BY <1>1, Zenon DEF S3Shape, f, a
<1>5. dl[d].open => data[f] \subseteq 1 .. Size /\ data[f] \cup {a + 1} \subseteq 1 .. Size
  BY <1>1, Zenon DEF S3Shape, f
<1>6. \A x \in File : data'[x] = data[x] \/ (data[x] \subseteq data'[x] /\ data'[x] \subseteq 1 .. Size)
  <2> SUFFICES ASSUME NEW x \in File, data'[x] # data[x]
               PROVE  data[x] \subseteq data'[x] /\ data'[x] \subseteq 1 .. Size
    BY Zenon
  <2>1. x = f /\ dl[d].open
    BY <1>4, Zenon
  <2>2. data'[x] = data[x] \cup {a + 1}
    BY <1>4, <2>1, Zenon
  <2> QED
    BY <1>5, <2>1, <2>2, Zenon
<1>7. S3Shape'
  <2>1. data' \in [File -> (SUBSET (1 .. Size)) \cup {None}]
    <3>1. \A x \in File : data'[x] \in (SUBSET (1 .. Size)) \cup {None}
      BY <1>6, Zenon DEF S3Shape
    <3>2. data' = [x \in File |-> data'[x]]
      BY Zenon DEF S3Shape
    <3> QED
      BY <3>1, <3>2, Zenon
  <2>2. ASSUME NEW e \in Download, dl'[e].pc = "write"
        PROVE  /\ dl'[e].next <= Len(Object[ModelOf[e]])
               /\ dl'[e].open => data'[Object[ModelOf[e]][dl'[e].next]] \subseteq 1 .. Size
    <3>1. dl[e].pc = "write" /\ dl'[e].next = dl[e].next /\ dl'[e].open = dl[e].open
      BY <2>2, <1>2, <1>3, Zenon
    <3>2. dl[e].next <= Len(Object[ModelOf[e]]) /\ Object[ModelOf[e]][dl[e].next] \in File
      BY <3>1, S3Current, Zenon DEF S3Shape
    <3> QED
      BY <3>1, <3>2, <1>6, Zenon DEF S3Shape
  <2> QED
    BY <1>3, <2>1, <2>2, Zenon DEF S3Shape
<1>8. ASSUME NEW e \in Download, dl'[e].pc # "failed", ~dl'[e].torn
      PROVE  S3Good(e)'
  <2>1. \A x \in S3!Key(ModelOf[e]) : x \in File
    BY S3Constants, Zenon
  <2>2. CASE e # d
    BY <2>1, <2>2, <1>3, <1>6, <1>8, S3Apart, ZenonT(40)
  <2>3. CASE e = d
    <3>1. S3Good(d)
      BY <2>3, <1>2, <1>3, <1>8, Zenon DEF S3Progress
    <3>2. ASSUME NEW i \in 1 .. Len(Object[m]), i < dl[d].next
          PROVE  data'[Object[m][i]] = 1 .. Size
      <4>1. data[Object[m][i]] = 1 .. Size /\ Object[m][i] \in File
        BY <3>1, <3>2, S3Constants, Zenon DEF S3Good
      <4> QED
        BY <4>1, <1>6, Zenon
    <3>3. dl[d].open /\ 1 .. a \subseteq data[f]
      BY <3>1, Zenon DEF S3Good, f, a
    <3>4. 1 .. (a + 1) \subseteq data'[f]
      <4>1. data'[f] = data[f] \cup {a + 1}
        BY <3>3, <1>1, <1>4, Zenon
      <4>2. (1 .. a) \cup {a + 1} = 1 .. (a + 1)
        BY <1>1, OneMore, Zenon
      <4> QED
        BY <3>3, <4>1, <4>2, Zenon
    <3> QED
      BY <2>3, <3>2, <3>3, <3>4, <1>2, <1>3, Zenon DEF S3Good, f
  <2> QED
    BY <2>2, <2>3, Zenon
<1> QED
  BY <1>7, <1>8, Zenon DEF S3Progress

\* A download that writes a unit, ends an object or fails.
LEMMA S3WriteMoves ==
  ASSUME S3!WellFormed, S3Inv, NEW d \in Download, S3!WriteUnit(d)
  PROVE  S3Inv'
<1> DEFINE m == ModelOf[d]
           n == dl[d].next
           r == [dl[d] EXCEPT !.pc = "list", !.next = n + 1, !.open = FALSE]
<1> USE DEF S3Inv
<1>1. CASE /\ dl[d].at < Size /\ dl' = [dl EXCEPT ![d].at = @ + 1]
           /\ data' = [data EXCEPT ![Object[m][n]] = IF dl[d].open THEN @ \cup {dl[d].at + 1} ELSE @]
  BY <1>1, S3UnitMoves, ZenonT(40) DEF S3!WriteUnit
<1>2. CASE /\ dl[d].at = Size /\ data' = data
           /\ dl' = [dl EXCEPT ![d].pc = "list", ![d].next = @ + 1, ![d].open = FALSE]
  <2>1. /\ dl[d].pc = "write" /\ marker' = marker /\ dl[d] \in S3Task
        /\ n \in Nat \ {0} /\ n \in 1 .. Len(Object[m]) /\ m \in Model
    BY S3Current, S3Constants, S3Fields, Zenon DEF S3!WriteUnit, S3Shape
  <2>2. n + 1 \in Nat \ {0}
    BY <2>1
  <2>3. r \in S3Task /\ r.pc = "list" /\ r.next = n + 1 /\ r.torn = dl[d].torn
    <3> HIDE DEF n
    <3> QED
      BY <2>1, <2>2, Zenon DEF S3Task
  <2>4. dl' = [dl EXCEPT ![d] = r]
    BY <1>2, Zenon
  <2> HIDE DEF r
  <2>5. /\ dl' \in [Download -> S3Task] /\ dl'[d] = r
        /\ \A e \in Download : e # d => dl'[e] = dl[e]
    BY <2>3, <2>4, S3Set, Zenon
  <2>6. S3Shape'
    BY <1>2, <2>1, <2>3, <2>5, ZenonT(40) DEF S3Shape
  <2>7. ASSUME NEW e \in Download, dl'[e].pc # "failed", ~dl'[e].torn
        PROVE  S3Good(e)'
    <3>1. CASE e # d
      BY <3>1, <1>2, <2>1, <2>5, <2>7, S3Apart, ZenonT(40)
    <3>2. CASE e = d
      <4>1. S3Good(d)
        BY <3>2, <2>1, <2>3, <2>5, <2>7, Zenon DEF S3Progress
      <4>2. data[Object[m][n]] = 1 .. Size
        <5>1. dl[d].open /\ 1 .. Size \subseteq data[Object[m][n]]
          BY <4>1, <1>2, <2>1, Zenon DEF S3Good
        <5>2. data[Object[m][n]] \subseteq 1 .. Size
          BY <5>1, <2>1, Zenon DEF S3Shape
        <5> QED
          BY <5>1, <5>2, Zenon
      <4>3. \A i \in 1 .. Len(Object[m]) : i < n + 1 => i < n \/ i = n
        BY <2>1
      <4>4. \A i \in 1 .. Len(Object[m]) : i < n + 1 => data'[Object[m][i]] = 1 .. Size
        <5> HIDE DEF n
        <5> QED
          BY <4>1, <4>2, <4>3, <1>2, Zenon DEF S3Good, n
      <4> HIDE DEF n
      <4> QED
        BY <3>2, <4>4, <2>3, <2>5, Zenon DEF S3Good
    <3> QED
      BY <3>1, <3>2, Zenon
  <2> QED
    BY <2>6, <2>7, Zenon DEF S3Progress
<1>3. CASE S3!Failed(d) /\ data' = data
  BY <1>3, S3FailureMoves, Zenon DEF S3!WriteUnit
<1> QED
  BY <1>1, <1>2, <1>3, Zenon DEF S3!WriteUnit

\* A download that ends.
LEMMA S3MarkerMoves ==
  ASSUME S3!WellFormed, S3Inv, NEW d \in Download, S3!WriteMarker(d)
  PROVE  S3Inv'
<1> DEFINE m == ModelOf[d]
           r == [dl[d] EXCEPT !.pc = "ok"]
<1> USE DEF S3Inv
<1>1. CASE S3!Failed(d) /\ marker' = marker
  BY <1>1, S3FailureMoves, Zenon DEF S3!WriteMarker
<1>2. CASE Len(Object[m]) # 0 /\ marker' = marker \cup {m} /\ dl' = [dl EXCEPT ![d].pc = "ok"]
  <2>1. /\ dl[d].pc = "list" /\ dl[d].next > Len(Object[m]) /\ data' = data
        /\ dl[d] \in S3Task /\ m \in Model
    BY S3Constants, Zenon DEF S3!WriteMarker, S3Shape
  <2>2. r \in S3Task /\ r.pc = "ok" /\ r.next = dl[d].next /\ r.torn = dl[d].torn
    BY <2>1, Zenon DEF S3Task
  <2>3. dl' = [dl EXCEPT ![d] = r]
    BY <1>2, Zenon
  <2> HIDE DEF r
  <2>4. /\ dl' \in [Download -> S3Task] /\ dl'[d] = r
        /\ \A e \in Download : e # d => dl'[e] = dl[e]
    BY <2>2, <2>3, S3Set, Zenon
  <2>5. S3Shape'
    BY <1>2, <2>1, <2>2, <2>4, ZenonT(40) DEF S3Shape
  <2>6. ASSUME NEW e \in Download, dl'[e].pc # "failed", ~dl'[e].torn
        PROVE  S3Good(e)'
    <3>1. CASE e # d
      BY <3>1, <1>2, <2>1, <2>4, <2>6, S3Apart, ZenonT(40)
    <3>2. CASE e = d
      <4>1. S3Good(d)
        BY <3>2, <2>1, <2>2, <2>4, <2>6, Zenon DEF S3Progress
      <4> QED
        BY <3>2, <4>1, <1>2, <2>1, <2>2, <2>4, Zenon DEF S3Good
    <3> QED
      BY <3>1, <3>2, Zenon
  <2> QED
    BY <2>5, <2>6, Zenon DEF S3Progress
<1> QED
  BY <1>1, <1>2, Zenon DEF S3!WriteMarker

\* A deletion.
LEMMA S3DeleteMoves ==
  ASSUME S3!WellFormed, S3Inv, NEW x \in Deletion, S3!DeleteModel(x)
  PROVE  S3Inv'
<1> DEFINE m == Removes[x]
           gone == {k \in Model : k = m \/ <<m, k>> \in Below}
           current(d) == Object[ModelOf[d]][dl[d].next]
           kept(d) == dl[d].open /\ current(d) \notin S3!Key(m)
           cut(d) == dl[d].torn \/ (S3!Begun(d) /\ S3!Key(ModelOf[d]) \cap S3!Key(m) # {})
<1> USE DEF S3Inv
<1>1. /\ data' = [f \in File |-> IF f \in S3!Key(m) THEN None ELSE data[f]]
      /\ marker' = marker \ gone
      /\ dl' = [d \in Download |-> [dl[d] EXCEPT !.open = kept(d), !.torn = cut(d)]]
  BY Zenon DEF S3!DeleteModel
<1>2. ASSUME NEW d \in Download
      PROVE  /\ dl'[d].pc = dl[d].pc /\ dl'[d].next = dl[d].next /\ dl'[d].at = dl[d].at
             /\ dl'[d].open = kept(d) /\ dl'[d].torn = cut(d) /\ dl'[d] \in S3Task
  <2>1. dl[d] \in S3Task /\ kept(d) \in BOOLEAN /\ cut(d) \in BOOLEAN
    BY Zenon DEF S3Shape
  <2> HIDE DEF kept, cut
  <2>2. dl'[d] = [dl[d] EXCEPT !.open = kept(d), !.torn = cut(d)]
    BY <1>1, Zenon
  <2> QED
    BY <2>1, <2>2, Zenon DEF S3Task
<1>3. dl' \in [Download -> S3Task]
  <2> HIDE DEF kept, cut
  <2> QED
    BY <1>1, <1>2, Zenon
<1>4. S3Shape'
  <2>1. data' \in [File -> (SUBSET (1 .. Size)) \cup {None}] /\ marker' \subseteq Model
    BY <1>1, Zenon DEF S3Shape
  <2>2. ASSUME NEW d \in Download, dl'[d].pc = "write"
        PROVE  /\ dl'[d].next <= Len(Object[ModelOf[d]])
               /\ dl'[d].open => data'[Object[ModelOf[d]][dl'[d].next]] \subseteq 1 .. Size
    <3>1. dl[d].next <= Len(Object[ModelOf[d]]) /\ current(d) \in File
      BY <1>2, <2>2, S3Current, Zenon DEF S3Shape
    <3>2. dl'[d].open => data'[current(d)] = data[current(d)] /\ dl[d].open
      BY <1>1, <1>2, <3>1, Zenon
    <3> QED
      BY <1>2, <2>2, <3>1, <3>2, Zenon DEF S3Shape
  <2> QED
    BY <1>3, <2>1, <2>2, Zenon DEF S3Shape
<1>5. ASSUME NEW d \in Download, dl'[d].pc # "failed", ~dl'[d].torn
      PROVE  S3Good(d)'
  <2>1. CASE ~S3!Begun(d)
    <3>1. dl[d].pc = "list" /\ ~(dl[d].next > 1) /\ dl[d].next \in Nat \ {0}
      BY <2>1, S3Fields, Zenon DEF S3!Begun
    <3>2. dl[d].next = 1 /\ \A i \in 1 .. Len(Object[ModelOf[d]]) : ~(i < 1)
      BY <3>1
    <3> QED
      BY <1>2, <3>1, <3>2, Zenon DEF S3Good
  <2>2. CASE S3!Begun(d)
    <3>1. ~dl[d].torn /\ S3!Key(ModelOf[d]) \cap S3!Key(m) = {} /\ ModelOf[d] \in Model
      BY <2>2, <1>2, <1>5, S3Constants, Zenon
    <3>2. \A f \in S3!Key(ModelOf[d]) : data'[f] = data[f]
      <4>1. \A f \in S3!Key(ModelOf[d]) : f \in File
        BY <3>1, S3Constants, Zenon
      <4> QED
        BY <1>1, <3>1, <4>1, Zenon
    <3>3. dl[d].pc = "write" => dl'[d].open = dl[d].open
      <4>1. dl[d].pc = "write" => current(d) \in S3!Key(ModelOf[d])
        BY S3Current, Zenon DEF S3Shape
      <4>2. dl[d].open \in BOOLEAN
        BY S3Fields, Zenon
      <4> QED
        BY <1>2, <3>1, <4>1, <4>2, Zenon
    <3>4. CASE dl[d].pc # "ok"
      <4>1. S3Good(d)
        BY <1>2, <1>5, <3>1, Zenon DEF S3Progress
      <4>2. \A i \in 1 .. Len(Object[ModelOf[d]]) : Object[ModelOf[d]][i] \in S3!Key(ModelOf[d])
        BY <3>1, S3Constants, Zenon
      <4>3. dl[d].pc = "write" => current(d) \in S3!Key(ModelOf[d])
        BY S3Current, Zenon DEF S3Shape
      <4> HIDE DEF kept, cut
      <4> QED
        BY <1>2, <3>2, <3>3, <3>4, <4>1, <4>2, <4>3, ZenonT(40) DEF S3Good
    <3>5. CASE dl[d].pc = "ok"
      <4>1. S3Good(d)
        BY <1>2, <1>5, <3>1, Zenon DEF S3Progress
      <4>2. Len(Object[ModelOf[d]]) # 0 /\ Len(Object[ModelOf[d]]) \in Nat /\ ModelOf[d] \in marker
        BY <3>1, <3>5, <4>1, S3Constants, Zenon DEF S3Good
      <4>3. 1 \in 1 .. Len(Object[ModelOf[d]])
        BY <4>2
      <4>4. Object[ModelOf[d]][1] \in S3!Key(ModelOf[d])
        BY <3>1, <4>3, S3Constants, Zenon
      <4>5. ModelOf[d] \in gone => S3!Key(ModelOf[d]) \subseteq S3!Key(m)
        <5>1. ASSUME <<m, ModelOf[d]>> \in Below PROVE S3!Key(ModelOf[d]) \subseteq S3!Key(m)
          <6> DEFINE b == <<m, ModelOf[d]>>
          <6>1. b[1] = m /\ b[2] = ModelOf[d]
            OBVIOUS
          <6>2. S3!Key(b[2]) \subseteq S3!Key(b[1])
            <7> HIDE DEF S3!Key
            <7> QED
              BY <5>1, Zenon DEF S3!WellFormed
          <6> QED
            BY <6>1, <6>2, Zenon
        <5> QED
          BY <5>1, Zenon
      <4>6. ModelOf[d] \in marker'
        BY <1>1, <3>1, <4>2, <4>4, <4>5, Zenon
      <4> HIDE DEF kept, cut, gone
      <4> QED
        BY <1>2, <1>5, <3>1, <3>2, <3>3, <4>6, S3Apart, ZenonT(40)
    <3> QED
      BY <3>4, <3>5, Zenon
  <2> QED
    BY <2>1, <2>2, Zenon
<1> QED
  BY <1>4, <1>5, Zenon DEF S3Progress

\* The marker that a download has set stands for a whole model until another
\* download, of this model or of one above or below it, opens one of its files or
\* a deletion removes one, whatever was broken off before (s3.rs: download_model
\* lists recursively, get_model_path and list_models go by the marker).
THEOREM S3InstalledWhole == S3!WellFormed /\ S3!Spec => []S3!InstalledWhole
<1> SUFFICES ASSUME S3!WellFormed PROVE S3!Spec => []S3!InstalledWhole
  BY Zenon
<1>1. S3!Init => S3Inv
  <2> SUFFICES ASSUME S3!Init PROVE S3Inv
    BY Zenon
  <2> DEFINE r == [pc |-> "list", next |-> 1, at |-> 0, open |-> FALSE, torn |-> FALSE]
  <2>1. r \in S3Task /\ r.pc = "list" /\ r.next = 1
    BY DEF S3Task
  <2>2. dl = [d \in Download |-> r]
    BY Zenon DEF S3!Init
  <2> HIDE DEF r
  <2>3. \A d \in Download : dl[d].pc = "list" /\ dl[d].next = 1
    BY <2>1, <2>2, Zenon
  <2>4. S3Shape
    BY <2>1, <2>2, <2>3, Zenon DEF S3!Init, S3Shape
  <2>5. S3Progress
    <3>1. \A d \in Download : \A i \in 1 .. Len(Object[ModelOf[d]]) : ~(i < 1)
      OBVIOUS
    <3> QED
      BY <2>3, <3>1, Zenon DEF S3Progress, S3Good
  <2> QED
    BY <2>4, <2>5, Zenon DEF S3Inv
<1>2. S3Inv /\ [S3!Next]_S3!vars => S3Inv'
  <2> SUFFICES ASSUME S3Inv, [S3!Next]_S3!vars PROVE S3Inv'
    BY Zenon
  <2>1. ASSUME NEW d \in Download, S3!DownloadStep(d) PROVE S3Inv'
    BY <2>1, S3OpenMoves, S3WriteMoves, S3MarkerMoves, ZenonT(40) DEF S3!DownloadStep
  <2>2. ASSUME NEW e \in Deletion, S3!DeleteModel(e) PROVE S3Inv'
    BY <2>2, S3DeleteMoves, Zenon
  <2>3. CASE UNCHANGED S3!vars
    BY <2>3, ZenonT(40) DEF S3!vars, S3Inv, S3Shape, S3Progress, S3Good
  <2> QED
    BY <2>1, <2>2, <2>3, Zenon DEF S3!Next
<1>3. S3Inv => S3!InstalledWhole
  <2> SUFFICES ASSUME S3Inv, NEW d \in Download, dl[d].pc = "ok", ~dl[d].torn
               PROVE  ModelOf[d] \in marker /\ \A f \in S3!Key(ModelOf[d]) : data[f] = 1 .. Size
    BY Zenon DEF S3!InstalledWhole
  <2>1. S3Good(d)
    BY Zenon DEF S3Inv, S3Progress
  <2>2. /\ dl[d].next > Len(Object[ModelOf[d]]) /\ ModelOf[d] \in marker /\ ModelOf[d] \in Model
        /\ Len(Object[ModelOf[d]]) \in Nat /\ dl[d].next \in Nat
        /\ DOMAIN Object[ModelOf[d]] = 1 .. Len(Object[ModelOf[d]])
    BY <2>1, S3Constants, S3Fields, Zenon DEF S3Good, S3Inv
  <2>3. \A i \in 1 .. Len(Object[ModelOf[d]]) : i < dl[d].next
    BY <2>2
  <2> QED
    BY <2>1, <2>2, <2>3, Zenon DEF S3Good, S3!Key
<1> QED
  BY <1>1, <1>2, <1>3, PTL DEF S3!Spec

-----------------------------------------------------------------------------
(* NGC: an artifact is whole, and its token is exchanged once per expiry.    *)

NGC == INSTANCE NgcDownload

NoDeletion == \A e \in Deletion : ~removed[e]

NgcPc == {"start", "token", "list", "checksums", "plan", "transfer", "ok", "failed"}

NgcTaskState == {"none", "todo", "stale", "get", "body", "done", "error"}

NgcDl == [pc : NgcPc, page : Nat, listed : SUBSET NGC!File, bearer : BOOLEAN,
          task : [NGC!File -> NgcTaskState]]

NgcTypes ==
  /\ dl \in [Download -> NgcDl]
  /\ removed \in [Deletion -> BOOLEAN] /\ fresh \in BOOLEAN
  /\ refreshes \in Nat /\ expiries \in Nat

NgcRunning(d) == dl[d].pc \in {"token", "list", "checksums", "plan", "transfer"}
NgcFiles(d) == IF d \in Metadata THEN NGC!File \ Weights ELSE NGC!File

\* What is known of one download: it has the lock while it runs, all pages once
\* it has left the list, and the files of the tasks that are done.
NgcLocal(d) ==
  /\ NgcRunning(d) => lock = d
  /\ dl[d].pc \in {"start", "token"} => dl[d].page = 1
  /\ dl[d].pc = "list" => dl[d].page \in 1 .. NGC!Pages /\
       \A i \in 1 .. NGC!Pages : i < dl[d].page => Page[i] \subseteq dl[d].listed
  /\ dl[d].pc \in {"plan", "transfer"} => dl[d].listed = NGC!File
  /\ dl[d].pc = "transfer" =>
       /\ \A f \in NgcFiles(d) : dl[d].task[f] # "none"
       /\ NoDeletion => \A f \in NGC!File : dl[d].task[f] = "done" => f \in disk
  /\ dl[d].pc = "ok" /\ NoDeletion => NgcFiles(d) \subseteq disk

\* A temporary file is being written, or its download has failed or will.
NgcTemp ==
  \A f \in temp : \E d \in Download :
    dl[d].pc = "failed" \/ (dl[d].pc = "transfer" /\ f \in NGC!File /\ dl[d].task[f] \in {"body", "error"})

NgcUsed == disk \cup temp # {} => \E d \in Download : dl[d].pc # "start"

\* The transfer that refreshes the token waits for it.
NgcRefreshing ==
  \A d \in Download, f \in NGC!File : refreshing = <<d, f>> =>
    dl[d].pc = "transfer" /\ dl[d].task[f] = "stale"

\* A stale token that nobody refreshes has an expiry to answer for.
NgcOwed ==
  "token" \notin faults =>
    /\ refreshes <= expiries
    /\ ~fresh /\ refreshing = None /\ (\E d \in Download : dl[d].pc = "transfer") => refreshes < expiries

NgcInv ==
  /\ NgcTypes /\ (\A d \in Download : NgcLocal(d))
  /\ NgcTemp /\ NgcUsed /\ NgcRefreshing /\ NgcOwed

\* A step of one download leaves what is known of the others.
LEMMA NgcOthers ==
  ASSUME NGC!WellFormed, NgcInv, NEW d \in Download, NEW e \in Download, e # d, dl'[e] = dl[e],
         lock' = lock \/ lock = d \/ lock = None,
         removed' = removed, disk \subseteq disk'
  PROVE  NgcLocal(e)'
<1>1. NgcRunning(e)' <=> NgcRunning(e)
  BY Zenon DEF NgcRunning
<1>2. NgcRunning(e) => lock' = e
  BY Zenon DEF NgcInv, NgcLocal, NGC!WellFormed
<1>3. NoDeletion' <=> NoDeletion
  BY Zenon DEF NoDeletion
<1> QED
  BY <1>1, <1>2, <1>3, ZenonT(40) DEF NgcInv, NgcLocal, NgcFiles, NGC!Pages, NGC!File

\* The record of one download changes.
LEMMA NgcSet ==
  ASSUME NgcTypes, NEW d \in Download, NEW r \in NgcDl, dl' = [dl EXCEPT ![d] = r]
  PROVE  /\ dl' \in [Download -> NgcDl] /\ dl'[d] = r
         /\ \A e \in Download : e # d => dl'[e] = dl[e]
BY Zenon DEF NgcTypes

\* A download's program counter is set.
LEMMA NgcGoto ==
  ASSUME NgcTypes, NEW d \in Download, NEW pc \in NgcPc, dl' = [dl EXCEPT ![d].pc = pc]
  PROVE  /\ dl' \in [Download -> NgcDl] /\ \A e \in Download : e # d => dl'[e] = dl[e]
         /\ dl'[d].pc = pc /\ dl'[d].page = dl[d].page /\ dl'[d].listed = dl[d].listed
<1> DEFINE r == [dl[d] EXCEPT !.pc = pc]
<1>1. dl[d] \in NgcDl
  BY Zenon DEF NgcTypes
<1>2. r \in NgcDl /\ r.pc = pc /\ r.page = dl[d].page /\ r.listed = dl[d].listed
  BY <1>1, Zenon DEF NgcDl
<1>3. dl' = [dl EXCEPT ![d] = r]
  BY Zenon
<1> HIDE DEF r
<1> QED
  BY <1>2, <1>3, NgcSet, ZenonT(40)

\* The state of a transfer is set.
LEMMA NgcSetTask ==
  ASSUME NgcTypes, NEW d \in Download, NEW f \in NGC!File, NEW s \in NgcTaskState, NGC!SetTask(d, f, s)
  PROVE  /\ dl' \in [Download -> NgcDl] /\ lock' = lock
         /\ \A e \in Download : e # d => dl'[e] = dl[e]
         /\ dl'[d].pc = dl[d].pc /\ dl'[d].listed = dl[d].listed
         /\ \A g \in NGC!File : dl'[d].task[g] = IF g = f THEN s ELSE dl[d].task[g]
<1> DEFINE t == [dl[d].task EXCEPT ![f] = s]
           r == [dl[d] EXCEPT !.task = t]
<1>1. dl[d] \in NgcDl
  BY Zenon DEF NgcTypes
<1>2. /\ t \in [NGC!File -> NgcTaskState]
      /\ \A g \in NGC!File : t[g] = IF g = f THEN s ELSE dl[d].task[g]
  BY <1>1, Zenon DEF NgcDl
<1>3. dl' = [dl EXCEPT ![d] = r] /\ lock' = lock
  BY Zenon DEF NGC!SetTask
<1> HIDE DEF t
<1>4. r \in NgcDl /\ r.pc = dl[d].pc /\ r.listed = dl[d].listed /\ r.task = t
  BY <1>1, <1>2, Zenon DEF NgcDl
<1> HIDE DEF r
<1> QED
  BY <1>2, <1>3, <1>4, NgcSet, ZenonT(40)

\* A step of d that is not of its transfers, or ends them with a failure.
LEMMA NgcOutside ==
  ASSUME NGC!WellFormed, NgcInv, NEW d \in Download,
         dl' \in [Download -> NgcDl], \A e \in Download : e # d => dl'[e] = dl[e],
         UNCHANGED <<disk, temp, removed, fresh, refreshes, expiries>>,
         refreshing' = refreshing \/ (refreshing' = None /\ lock = d),
         faults \subseteq faults',
         lock' = lock \/ lock = d \/ lock = None,
         dl'[d].pc \notin {"transfer", "start"},
         dl[d].pc # "transfer" \/ dl'[d].pc = "failed",
         dl[d].pc = "failed" => dl'[d].pc = "failed",
         dl[d].pc = "transfer" => refreshing' = None,
         NgcLocal(d)'
  PROVE  NgcInv'
<1> USE DEF NgcInv
<1>1. NgcTypes'
  BY Zenon DEF NgcTypes
<1>2. \A e \in Download : NgcLocal(e)'
  BY NgcOthers, Zenon
<1>3. NgcTemp'
  <2> SUFFICES ASSUME NEW f \in temp
               PROVE  \E e \in Download : dl'[e].pc = "failed" \/
                        (dl'[e].pc = "transfer" /\ f \in NGC!File /\ dl'[e].task[f] \in {"body", "error"})
    BY Zenon DEF NgcTemp, NGC!File
  <2>1. PICK e \in Download : dl[e].pc = "failed" \/
               (dl[e].pc = "transfer" /\ f \in NGC!File /\ dl[e].task[f] \in {"body", "error"})
    BY Zenon DEF NgcTemp
  <2> QED
    BY <2>1, Zenon
<1>4. NgcUsed'
  BY Zenon DEF NgcUsed
<1>5. NgcRefreshing'
  <2> SUFFICES ASSUME NEW e \in Download, NEW f \in NGC!File, refreshing' = <<e, f>>
               PROVE  dl'[e].pc = "transfer" /\ dl'[e].task[f] = "stale"
    BY Zenon DEF NgcRefreshing, NGC!File
  <2>1. refreshing' = refreshing
    BY Zenon DEF NGC!WellFormed
  <2>2. dl[e].pc = "transfer" /\ dl[e].task[f] = "stale"
    BY SMTT(30), <2>1 DEF NgcRefreshing
  <2>3. e # d
    BY <2>2, Zenon DEF NGC!WellFormed
  <2> QED
    BY <2>2, <2>3, Zenon
<1>6. NgcOwed'
  <2> SUFFICES ASSUME "token" \notin faults
               PROVE  /\ refreshes <= expiries
                      /\ ~fresh /\ refreshing' = None /\ (\E e \in Download : dl'[e].pc = "transfer") =>
                           refreshes < expiries
    BY Zenon DEF NgcOwed
  <2>1. refreshes <= expiries
    BY Zenon DEF NgcOwed
  <2>2. ASSUME ~fresh, refreshing' = None, NEW e \in Download, dl'[e].pc = "transfer"
        PROVE  refreshes < expiries
    <3>1. e # d /\ dl[e].pc = "transfer"
      BY <2>2, Zenon
    <3>2. lock = e
      BY <3>1, Zenon DEF NgcLocal, NgcRunning
    <3> QED
      BY <2>2, <3>1, <3>2, ZenonT(40) DEF NgcOwed
  <2> QED
    BY <2>1, <2>2, Zenon
<1> QED
  BY <1>1, <1>2, <1>3, <1>4, <1>5, <1>6, ZenonT(40)

\* A step of one transfer of d.
LEMMA NgcTransfer ==
  ASSUME NGC!WellFormed, NgcInv, NEW d \in Download, NEW f \in NGC!File, NEW s \in NgcTaskState,
         dl[d].pc = "transfer", NGC!SetTask(d, f, s), removed' = removed, disk \subseteq disk',
         fresh' \in BOOLEAN, UNCHANGED <<refreshes, expiries>>,
         s # "none", s = "done" => f \in disk',
         temp' \subseteq temp \cup {f},
         f \in temp' => s \in {"body", "error"} \/ (f \in temp /\ dl[d].task[f] \notin {"body", "error"}),
         refreshing' \in {refreshing, None}, refreshing' # <<d, f>>,
         NgcOwed'
  PROVE  NgcInv'
<1> USE DEF NgcInv
<1>1. /\ dl' \in [Download -> NgcDl] /\ lock' = lock
      /\ \A e \in Download : e # d => dl'[e] = dl[e]
      /\ dl'[d].pc = "transfer" /\ dl'[d].listed = dl[d].listed
      /\ \A g \in NGC!File : dl'[d].task[g] = IF g = f THEN s ELSE dl[d].task[g]
  BY NgcSetTask
<1>2. NgcTypes'
  BY <1>1, Zenon DEF NgcTypes
<1>3. NgcLocal(d)'
  <2>1. NgcLocal(d)
    BY Zenon
  <2>2. lock = d /\ dl'[d].listed = NGC!File
    BY <1>1, <2>1, Zenon DEF NgcLocal, NgcRunning
  <2>3. NoDeletion' <=> NoDeletion
    BY Zenon DEF NoDeletion
  <2>4. NgcFiles(d) \subseteq NGC!File
    BY Zenon DEF NgcFiles
  <2>5. \A g \in NgcFiles(d) : dl'[d].task[g] # "none"
    BY <1>1, <2>1, <2>4, ZenonT(40) DEF NgcLocal
  <2>6. NoDeletion => \A g \in NGC!File : dl'[d].task[g] = "done" => g \in disk'
    BY <1>1, <2>1, Zenon DEF NgcLocal
  <2> QED
    BY <1>1, <2>2, <2>3, <2>5, <2>6, ZenonT(40) DEF NgcLocal, NgcRunning, NgcFiles, NGC!File
<1>4. \A e \in Download : NgcLocal(e)'
  BY <1>1, <1>3, NgcOthers, ZenonT(40)
<1>5. NgcTemp'
  <2> SUFFICES ASSUME NEW g \in temp'
               PROVE  \E e \in Download : dl'[e].pc = "failed" \/
                        (dl'[e].pc = "transfer" /\ g \in NGC!File /\ dl'[e].task[g] \in {"body", "error"})
    BY Zenon DEF NgcTemp, NGC!File
  <2>1. CASE g = f /\ s \in {"body", "error"}
    BY <1>1, <2>1, Zenon
  <2>2. CASE g \in temp /\ (g = f => dl[d].task[f] \notin {"body", "error"})
    <3>1. PICK e \in Download : dl[e].pc = "failed" \/
                 (dl[e].pc = "transfer" /\ g \in NGC!File /\ dl[e].task[g] \in {"body", "error"})
      BY <2>2, Zenon DEF NgcTemp
    <3> QED
      BY <1>1, <2>2, <3>1, ZenonT(40)
  <2> QED
    BY <2>1, <2>2, Zenon
<1>6. NgcUsed'
  BY <1>1, Zenon DEF NgcUsed
<1>7. NgcRefreshing'
  <2> SUFFICES ASSUME NEW e \in Download, NEW g \in NGC!File, refreshing' = <<e, g>>
               PROVE  dl'[e].pc = "transfer" /\ dl'[e].task[g] = "stale"
    BY Zenon DEF NgcRefreshing, NGC!File
  <2>1. refreshing = <<e, g>> /\ (e # d \/ g # f)
    BY Zenon DEF NGC!WellFormed
  <2>2. dl[e].pc = "transfer" /\ dl[e].task[g] = "stale"
    BY <2>1, Zenon DEF NgcRefreshing
  <2> QED
    BY <1>1, <2>1, <2>2, ZenonT(40)
<1> QED
  BY <1>2, <1>4, <1>5, <1>6, <1>7, ZenonT(40)

\* The account of refreshes is not touched by a step that neither begins nor ends
\* one, and begins no transfers.
LEMMA NgcOwedKept ==
  ASSUME NgcOwed, UNCHANGED <<refreshes, expiries, fresh, refreshing>>, faults \subseteq faults',
         \A d \in Download : dl'[d].pc = "transfer" => dl[d].pc = "transfer"
  PROVE  NgcOwed'
BY Zenon DEF NgcOwed

\* The steps that come before the transfers.
LEMMA NgcListingMoves ==
  ASSUME NGC!WellFormed, NgcInv, NEW d \in Download,
         \/ NGC!Acquire(d) \/ NGC!fetch_token(d) \/ NGC!fetch_artifact_files(d)
         \/ NGC!fetch_files_via_checksum_manifest(d)
  PROVE  NgcInv'
<1> USE DEF NgcInv
<1>1. /\ UNCHANGED <<disk, temp, removed, fresh, refreshes, expiries, refreshing>>
      /\ faults \subseteq faults' /\ dl[d].pc \in {"start", "token", "list", "checksums"}
  BY Zenon DEF NGC!Acquire, NGC!fetch_token, NGC!fetch_artifact_files,
         NGC!fetch_files_via_checksum_manifest, NGC!tokenVars, NGC!Fail, NGC!NoFault
<1>2. NgcLocal(d)
  BY Zenon
<1>3. ASSUME lock' = lock \/ lock = d \/ lock = None, dl' \in [Download -> NgcDl],
             \A e \in Download : e # d => dl'[e] = dl[e],
             dl'[d].pc \in {"token", "list", "checksums", "plan", "failed"},
             NgcLocal(d)'
      PROVE  NgcInv'
  BY <1>1, <1>3, NgcOutside, Zenon
<1>4. ASSUME NEW pc \in {"token", "list", "checksums", "plan", "failed"},
             dl' = [dl EXCEPT ![d].pc = pc]
      PROVE  /\ dl' \in [Download -> NgcDl] /\ \A e \in Download : e # d => dl'[e] = dl[e]
             /\ dl'[d].pc = pc /\ dl'[d].page = dl[d].page /\ dl'[d].listed = dl[d].listed
  <2>1. pc \in NgcPc
    BY Zenon DEF NgcPc
  <2> QED
    BY <1>4, <2>1, NgcGoto, Zenon
<1>5. ASSUME NGC!End(d, "failed") PROVE NgcInv'
  <2>1. dl' = [dl EXCEPT ![d].pc = "failed"] /\ (lock' = lock \/ lock = d)
    BY <1>5, Zenon DEF NGC!End
  <2>2. NgcLocal(d)'
    BY <2>1, <1>4, Zenon DEF NgcLocal, NgcRunning
  <2> QED
    BY <2>1, <2>2, <1>3, <1>4, ZenonT(40)
<1>6. CASE NGC!Acquire(d)
  <2>1. dl' = [dl EXCEPT ![d].pc = "token"] /\ lock = None /\ lock' = d /\ dl[d].pc = "start"
    BY <1>6, Zenon DEF NGC!Acquire
  <2>2. NgcLocal(d)'
    <3>1. dl'[d].pc = "token" /\ dl'[d].page = 1
      BY <2>1, <1>2, <1>4, ZenonT(40) DEF NgcLocal
    <3> QED
      BY <2>1, <3>1, Zenon DEF NgcLocal, NgcRunning
  <2> QED
    BY <2>1, <2>2, <1>3, <1>4, ZenonT(40)
<1>7. CASE dl[d].pc = "token" /\ NGC!Goto(d, "list")
  <2>1. dl' = [dl EXCEPT ![d].pc = "list"] /\ lock' = lock
    BY <1>7, Zenon DEF NGC!Goto
  <2>2. lock = d /\ dl[d].page = 1
    BY <1>2, <1>7, ZenonT(40) DEF NgcLocal, NgcRunning
  <2>3. NgcLocal(d)'
    BY SMTT(30), <2>1, <2>2, <1>4 DEF NgcLocal, NgcRunning, NGC!WellFormed, NGC!Pages
  <2> QED
    BY <2>1, <2>3, <1>3, <1>4, ZenonT(40)
<1>8. CASE NGC!fetch_token(d)
  BY <1>5, <1>7, <1>8, ZenonT(40) DEF NGC!fetch_token
<1>9. CASE dl[d].pc = "list" /\ NGC!Goto(d, "checksums")
  <2>1. dl' = [dl EXCEPT ![d].pc = "checksums"] /\ lock' = lock
    BY <1>9, Zenon DEF NGC!Goto
  <2>2. NgcLocal(d)'
    BY <2>1, <1>2, <1>4, <1>9, ZenonT(40) DEF NgcLocal, NgcRunning
  <2> QED
    BY <2>1, <2>2, <1>3, <1>4, ZenonT(40)
<1>10. CASE /\ dl[d].pc = "list" /\ lock' = lock
            /\ dl' = [dl EXCEPT ![d].pc = IF NGC!LastPage(dl[d].page) THEN "plan" ELSE "list",
                                ![d].page = dl[d].page + 1,
                                ![d].listed = dl[d].listed \cup Page[dl[d].page]]
  <2> DEFINE i == dl[d].page
  <2> DEFINE got == dl[d].listed \cup Page[i]
  <2>1. /\ lock = d /\ i \in 1 .. NGC!Pages /\ NGC!Pages \in Nat
        /\ \A j \in 1 .. NGC!Pages : j < i => Page[j] \subseteq dl[d].listed
    BY <1>2, <1>10, Zenon DEF NgcLocal, NgcRunning, NGC!WellFormed
  <2>2. \A j \in 1 .. NGC!Pages : Page[j] \subseteq NGC!File
    BY Zenon DEF NGC!File, NGC!WellFormed
  <2>3. got \subseteq NGC!File /\ i \in Nat
    <3>1. dl[d] \in NgcDl
      BY Zenon DEF NgcTypes
    <3>2. dl[d].listed \subseteq NGC!File /\ i \in Nat
      BY <3>1, Zenon DEF NgcDl
    <3> QED
      BY <2>1, <2>2, <3>2, ZenonT(40)
  <2>4. /\ dl' \in [Download -> NgcDl] /\ \A e \in Download : e # d => dl'[e] = dl[e]
        /\ dl'[d].pc = (IF NGC!LastPage(i) THEN "plan" ELSE "list")
        /\ dl'[d].page = i + 1 /\ dl'[d].listed = got
    <3> DEFINE pc == IF NGC!LastPage(i) THEN "plan" ELSE "list"
               r == [dl[d] EXCEPT !.pc = pc, !.page = i + 1, !.listed = got]
    <3>1. dl[d] \in NgcDl
      BY Zenon DEF NgcTypes
    <3>2. pc \in NgcPc /\ i + 1 \in Nat
      BY <2>3 DEF NgcPc
    <3>3. dl' = [dl EXCEPT ![d] = r]
      BY <1>10, Zenon DEF NgcTypes
    <3> HIDE DEF pc, got
    <3>4. r \in NgcDl /\ r.pc = pc /\ r.page = i + 1 /\ r.listed = got
      BY <2>3, <3>1, <3>2, ZenonT(40) DEF NgcDl
    <3> HIDE DEF r, i
    <3> QED
      BY <3>3, <3>4, NgcSet, ZenonT(40) DEF pc
  <2>5. \A j \in 1 .. NGC!Pages : j < i + 1 => Page[j] \subseteq got
    BY SMTT(30), <2>1
  <2>6. NGC!LastPage(i) => got = NGC!File
    <3> SUFFICES ASSUME NGC!LastPage(i), NEW f \in NGC!File PROVE f \in got
      BY <2>3, Zenon
    <3>1. PICK j \in 1 .. NGC!Pages : f \in Page[j]
      BY Zenon DEF NGC!File, NGC!WellFormed
    <3>2. j < i + 1
      BY SMTT(30), <2>1, <3>1 DEF NGC!LastPage
    <3> QED
      BY <2>5, <3>1, <3>2, ZenonT(40)
  <2>7. ~NGC!LastPage(i) => i + 1 \in 1 .. NGC!Pages
    BY SMTT(30), <2>1 DEF NGC!LastPage
  <2>8. NgcLocal(d)'
    <3>1. CASE NGC!LastPage(i)
      BY <3>1, <2>1, <2>4, <2>6, <1>10, SMTT(30) DEF NgcLocal, NgcRunning, NGC!File
    <3>2. CASE ~NGC!LastPage(i)
      BY SMTT(30), <3>2, <2>1, <2>4, <2>5, <2>7, <1>10 DEF NgcLocal, NgcRunning, NGC!Pages
    <3> QED
      BY <3>1, <3>2, ZenonT(40)
  <2> QED
    BY <1>10, <2>4, <2>8, <1>3, ZenonT(40)
<1>11. CASE NGC!fetch_artifact_files(d)
  BY <1>5, <1>9, <1>10, <1>11, ZenonT(40) DEF NGC!fetch_artifact_files
<1>12. CASE /\ dl[d].pc = "checksums" /\ lock' = lock
            /\ dl' = [dl EXCEPT ![d].pc = "plan", ![d].listed = NGC!File, ![d].bearer = TRUE]
  <2>1. /\ dl' \in [Download -> NgcDl] /\ \A e \in Download : e # d => dl'[e] = dl[e]
        /\ dl'[d].pc = "plan" /\ dl'[d].listed = NGC!File
    <3> DEFINE r == [dl[d] EXCEPT !.pc = "plan", !.listed = NGC!File, !.bearer = TRUE]
    <3>1. dl[d] \in NgcDl
      BY Zenon DEF NgcTypes
    <3>2. r \in NgcDl /\ r.pc = "plan" /\ r.listed = NGC!File
      BY <3>1, Zenon DEF NgcDl, NgcPc
    <3>3. dl' = [dl EXCEPT ![d] = r]
      BY <1>12, Zenon DEF NgcTypes
    <3> HIDE DEF r
    <3> QED
      BY <3>2, <3>3, NgcSet, ZenonT(40)
  <2>2. lock = d
    BY <1>2, <1>12, Zenon DEF NgcLocal, NgcRunning
  <2>3. NgcLocal(d)'
    BY <1>12, <2>1, <2>2, ZenonT(40) DEF NgcLocal, NgcRunning, NGC!File
  <2> QED
    BY <1>12, <2>1, <2>3, <1>3, ZenonT(40)
<1>13. CASE NGC!fetch_files_via_checksum_manifest(d)
  BY <1>5, <1>12, <1>13, ZenonT(40) DEF NGC!fetch_files_via_checksum_manifest
<1> QED
  BY <1>6, <1>8, <1>11, <1>13, ZenonT(40)

\* The plan of the transfers.
LEMMA NgcPlanMoves ==
  ASSUME NGC!WellFormed, NgcInv, NEW d \in Download, NGC!PlanFiles(d)
  PROVE  NgcInv'
<1> USE DEF NgcInv
<1>1. /\ dl[d].pc = "plan" /\ UNCHANGED <<disk, temp, refreshing, refreshes, expiries, removed, faults>>
      /\ fresh' = TRUE
  BY Zenon DEF NGC!PlanFiles
<1>2. NgcLocal(d) /\ lock = d /\ dl[d].listed = NGC!File
  BY <1>1, Zenon DEF NgcLocal, NgcRunning
<1>3. NGC!Wanted(d) = NgcFiles(d) /\ NgcFiles(d) \subseteq NGC!File
  BY <1>2, Zenon DEF NGC!Wanted, NgcFiles
<1>4. NoDeletion' <=> NoDeletion
  BY <1>1, Zenon DEF NoDeletion
<1>5. /\ dl' \in [Download -> NgcDl] /\ \A e \in Download : e # d => dl'[e] = dl[e]
      /\ dl'[d].pc \in {"failed", "transfer"} /\ dl'[d].listed = NGC!File
      /\ lock' = lock \/ lock = d
      /\ dl'[d].pc = "transfer" => lock' = d /\ \A f \in NGC!File :
           dl'[d].task[f] = IF f \notin NgcFiles(d) THEN "none" ELSE IF f \in disk THEN "done" ELSE "todo"
  <2>1. CASE NGC!End(d, "failed")
    <3>1. dl' = [dl EXCEPT ![d].pc = "failed"] /\ "failed" \in NgcPc
      BY <2>1, Zenon DEF NGC!End, NgcPc
    <3> QED
      BY <2>1, <1>2, <3>1, NgcGoto, ZenonT(40)
  <2>2. CASE /\ lock' = lock
             /\ dl' = [dl EXCEPT ![d].pc = "transfer",
                  ![d].task = [f \in NGC!File |-> IF f \notin NGC!Wanted(d) THEN "none"
                                                  ELSE IF f \in disk THEN "done" ELSE "todo"]]
    <3> DEFINE t == [f \in NGC!File |-> IF f \notin NGC!Wanted(d) THEN "none"
                                        ELSE IF f \in disk THEN "done" ELSE "todo"]
               r == [dl[d] EXCEPT !.pc = "transfer", !.task = t]
    <3>1. dl[d] \in NgcDl
      BY Zenon DEF NgcTypes
    <3>2. /\ t \in [NGC!File -> NgcTaskState]
          /\ \A f \in NGC!File : t[f] = IF f \notin NgcFiles(d) THEN "none"
                                         ELSE IF f \in disk THEN "done" ELSE "todo"
      BY <1>3, Zenon DEF NgcTaskState
    <3>3. dl' = [dl EXCEPT ![d] = r]
      BY <2>2, Zenon DEF NgcTypes
    <3> HIDE DEF t
    <3>4. r \in NgcDl /\ r.pc = "transfer" /\ r.listed = NGC!File /\ r.task = t
      BY <1>2, <3>1, <3>2, ZenonT(40) DEF NgcDl, NgcPc
    <3> HIDE DEF r
    <3> QED
      BY <1>2, <2>2, <3>2, <3>3, <3>4, NgcSet, ZenonT(30)
  <2> QED
    BY <2>1, <2>2, Zenon DEF NGC!PlanFiles
<1>6. NgcTypes'
  BY <1>1, <1>5, Zenon DEF NgcTypes
<1>7. NgcLocal(d)'
  <2>1. CASE dl'[d].pc = "failed"
    BY <2>1, Zenon DEF NgcLocal, NgcRunning
  <2>2. CASE dl'[d].pc = "transfer"
    BY <2>2, <1>1, <1>3, <1>4, <1>5, ZenonT(40) DEF NgcLocal, NgcRunning, NgcFiles, NGC!File
  <2> QED
    BY <2>1, <2>2, <1>5, ZenonT(40)
<1>8. \A e \in Download : NgcLocal(e)'
  BY <1>1, <1>5, <1>7, NgcOthers, ZenonT(40)
<1>9. NgcTemp'
  <2> SUFFICES ASSUME NEW f \in temp
               PROVE  \E e \in Download : dl'[e].pc = "failed" \/
                        (dl'[e].pc = "transfer" /\ f \in NGC!File /\ dl'[e].task[f] \in {"body", "error"})
    BY <1>1, Zenon DEF NgcTemp, NGC!File
  <2>1. PICK e \in Download : dl[e].pc = "failed" \/
               (dl[e].pc = "transfer" /\ f \in NGC!File /\ dl[e].task[f] \in {"body", "error"})
    BY Zenon DEF NgcTemp
  <2> QED
    BY <2>1, <1>1, <1>5, ZenonT(40)
<1>10. NgcUsed' /\ NgcOwed'
  BY <1>1, <1>5, ZenonT(40) DEF NgcUsed, NgcOwed
<1>11. NgcRefreshing'
  BY SMTT(30), <1>1, <1>5 DEF NgcRefreshing, NGC!File
<1> QED
  BY <1>6, <1>8, <1>9, <1>10, <1>11, ZenonT(40)

\* The steps of the transfers.
LEMMA NgcTransferMoves ==
  ASSUME NGC!WellFormed, NgcInv, NEW d \in Download, NEW f \in NGC!File,
         \/ NGC!StartTransfer(d, f) \/ NGC!BeginRefresh(d, f) \/ NGC!EndRefresh(d, f)
         \/ NGC!OpenTransfer(d, f) \/ NGC!EndTransfer(d, f)
  PROVE  NgcInv'
<1> USE DEF NgcInv
<1>1. ASSUME NEW s \in NgcTaskState, NGC!SetTask(d, f, s)
      PROVE  \A e \in Download : dl'[e].pc = "transfer" => dl[e].pc = "transfer"
  BY <1>1, NgcSetTask, Zenon
<1>2. ASSUME dl[d].pc = "transfer", dl[d].task[f] # "stale" PROVE refreshing # <<d, f>>
  BY <1>2, Zenon DEF NgcRefreshing
<1>3. CASE NGC!StartTransfer(d, f)
  <2>1. PICK s \in {"stale", "get"} : NGC!SetTask(d, f, s)
    BY <1>3, Zenon DEF NGC!StartTransfer
  <2>2. /\ dl[d].pc = "transfer" /\ dl[d].task[f] = "todo"
        /\ UNCHANGED <<disk, temp, fresh, refreshing, refreshes, expiries, removed, faults>>
    BY <1>3, Zenon DEF NGC!StartTransfer, NGC!tokenVars
  <2>3. s \in NgcTaskState /\ s \notin {"none", "done"}
    BY Zenon DEF NgcTaskState
  <2>4. NgcOwed'
    BY <2>1, <2>2, <2>3, <1>1, NgcOwedKept, ZenonT(40)
  <2>5. refreshing' # <<d, f>> /\ fresh' \in BOOLEAN
    BY <2>2, <1>2, ZenonT(40) DEF NgcTypes
  <2> QED
    BY <2>1, <2>2, <2>3, <2>4, <2>5, NgcTransfer, ZenonT(40)
<1>4. CASE NGC!BeginRefresh(d, f)
  <2>1. /\ dl[d].pc = "transfer" /\ dl[d].task[f] = "stale" /\ refreshing = None
        /\ UNCHANGED <<disk, temp, fresh, expiries, removed, faults>>
    BY <1>4, Zenon DEF NGC!BeginRefresh
  <2>2. CASE NGC!SetTask(d, f, "get") /\ UNCHANGED <<refreshing, refreshes>>
    <3>0. "get" \in NgcTaskState
      BY Zenon DEF NgcTaskState
    <3>1. NgcOwed'
      BY <2>1, <2>2, <3>0, <1>1, NgcOwedKept, ZenonT(40)
    <3>2. refreshing' # <<d, f>> /\ fresh' \in BOOLEAN
      BY <2>1, <2>2, Zenon DEF NGC!WellFormed, NgcTypes
    <3> QED
      BY <2>1, <2>2, <3>0, <3>1, <3>2, NgcTransfer, ZenonT(40)
  <2>3. CASE ~fresh /\ refreshing' = <<d, f>> /\ refreshes' = refreshes + 1 /\ UNCHANGED <<dl, lock>>
    <3>1. NgcTypes'
      BY SMTT(30), <2>1, <2>3 DEF NgcTypes
    <3>2. ASSUME NEW e \in Download PROVE NgcLocal(e)'
      BY <2>1, <2>3, ZenonT(40) DEF NgcLocal, NgcRunning, NgcFiles, NoDeletion, NGC!File, NGC!Pages
    <3>3. NgcTemp' /\ NgcUsed'
      BY <2>1, <2>3, Zenon DEF NgcTemp, NgcUsed, NGC!File
    <3>4. NgcRefreshing'
      BY <2>1, <2>3, Zenon DEF NgcRefreshing, NGC!File
    <3>5. refreshing' # None
      BY <2>3, Zenon DEF NGC!WellFormed
    <3>6. "token" \notin faults => refreshes < expiries
      BY <2>1, <2>3, ZenonT(40) DEF NgcOwed
    <3>7. NgcOwed'
      BY SMTT(30), <2>1, <2>3, <3>5, <3>6 DEF NgcOwed, NgcTypes
    <3> QED
      BY <3>1, <3>2, <3>3, <3>4, <3>7, ZenonT(40)
  <2> QED
    BY <1>4, <2>2, <2>3, ZenonT(40) DEF NGC!BeginRefresh, NGC!StillStale
<1>5. CASE NGC!EndRefresh(d, f)
  <2>1. /\ refreshing = <<d, f>> /\ refreshing' = None
        /\ UNCHANGED <<disk, temp, refreshes, expiries, removed>>
    BY <1>5, Zenon DEF NGC!EndRefresh
  <2>2. dl[d].pc = "transfer" /\ dl[d].task[f] = "stale" /\ refreshing' # <<d, f>>
    BY <2>1, Zenon DEF NgcRefreshing, NGC!WellFormed
  <2>3. CASE fresh' = TRUE /\ NGC!SetTask(d, f, "get") /\ NGC!NoFault
    <3>1. NgcOwed'
      BY <2>1, <2>3, ZenonT(40) DEF NgcOwed, NGC!NoFault
    <3>2. "get" \in NgcTaskState
      BY Zenon DEF NgcTaskState
    <3> QED
      BY <2>1, <2>2, <2>3, <3>1, <3>2, NgcTransfer, ZenonT(40)
  <2>4. CASE NGC!Fail("token") /\ NGC!SetTask(d, f, "error") /\ UNCHANGED fresh
    <3>1. NgcOwed'
      BY <2>4, Zenon DEF NgcOwed, NGC!Fail
    <3>2. "error" \in NgcTaskState /\ fresh' \in BOOLEAN
      BY <2>4, Zenon DEF NgcTaskState, NgcTypes
    <3> QED
      BY <2>1, <2>2, <2>4, <3>1, <3>2, NgcTransfer, ZenonT(40)
  <2> QED
    BY <1>5, <2>3, <2>4, ZenonT(40) DEF NGC!EndRefresh
<1>6. CASE NGC!OpenTransfer(d, f)
  <2>1. /\ dl[d].pc = "transfer" /\ dl[d].task[f] = "get" /\ faults \subseteq faults'
        /\ UNCHANGED <<disk, fresh, refreshing, refreshes, expiries, removed>>
        /\ \/ temp' = temp \cup {f} /\ NGC!SetTask(d, f, "body")
           \/ temp' = temp /\ NGC!SetTask(d, f, "error")
    BY <1>6, Zenon DEF NGC!OpenTransfer, NGC!tokenVars, NGC!Fail, NGC!NoFault
  <2>2. {"body", "done", "error"} \subseteq NgcTaskState
    BY Zenon DEF NgcTaskState
  <2>3. \A e \in Download : dl'[e].pc = "transfer" => dl[e].pc = "transfer"
    BY <2>1, <2>2, <1>1, ZenonT(40)
  <2>4. NgcOwed'
    BY <2>1, <2>3, NgcOwedKept, ZenonT(40)
  <2>5. refreshing' # <<d, f>> /\ fresh' \in BOOLEAN
    BY <2>1, <1>2, Zenon DEF NgcTypes
  <2> QED
    BY <2>1, <2>2, <2>4, <2>5, NgcTransfer, ZenonT(40)
<1>7. CASE NGC!EndTransfer(d, f)
  <2>1. /\ dl[d].pc = "transfer" /\ dl[d].task[f] = "body" /\ faults \subseteq faults'
        /\ UNCHANGED <<fresh, refreshing, refreshes, expiries, removed>>
        /\ \/ temp' = temp \ {f} /\ disk' = disk \cup {f} /\ NGC!SetTask(d, f, "done")
           \/ temp' = temp /\ disk' = disk /\ NGC!SetTask(d, f, "error")
    BY <1>7, Zenon DEF NGC!EndTransfer, NGC!tokenVars, NGC!Fail, NGC!NoFault
  <2>2. {"body", "done", "error"} \subseteq NgcTaskState
    BY Zenon DEF NgcTaskState
  <2>3. \A e \in Download : dl'[e].pc = "transfer" => dl[e].pc = "transfer"
    BY <2>1, <2>2, <1>1, ZenonT(40)
  <2>4. NgcOwed'
    BY <2>1, <2>3, NgcOwedKept, ZenonT(40)
  <2>5. refreshing' # <<d, f>> /\ fresh' \in BOOLEAN
    BY <2>1, <1>2, ZenonT(40) DEF NgcTypes
  <2> QED
    BY <2>1, <2>2, <2>4, <2>5, NgcTransfer, ZenonT(40)
<1> QED
  BY <1>3, <1>4, <1>5, <1>6, <1>7, ZenonT(40)

\* The end of the transfers.
LEMMA NgcFinishMoves ==
  ASSUME NGC!WellFormed, NgcInv, NEW d \in Download, NGC!FinishDownload(d)
  PROVE  NgcInv'
<1> DEFINE pc == IF \E f \in NGC!File : dl[d].task[f] = "error" THEN "failed" ELSE "ok"
<1> USE DEF NgcInv
<1>1. /\ dl[d].pc = "transfer" /\ \A f \in NGC!File : dl[d].task[f] \in {"none", "done", "error"}
      /\ dl' = [dl EXCEPT ![d].pc = pc] /\ (lock' = lock \/ lock = d)
      /\ UNCHANGED <<disk, temp, fresh, refreshing, refreshes, expiries, removed, faults>>
  BY Zenon DEF NGC!FinishDownload, NGC!End, NGC!tokenVars
<1>2. /\ dl' \in [Download -> NgcDl] /\ \A e \in Download : e # d => dl'[e] = dl[e]
      /\ dl'[d].pc = pc /\ pc \in {"ok", "failed"}
  <2>1. pc \in {"ok", "failed"} /\ pc \in NgcPc
    BY Zenon DEF NgcPc
  <2>2. dl' = [dl EXCEPT ![d].pc = pc]
    BY <1>1, Zenon
  <2> HIDE DEF pc
  <2> QED
    BY <2>1, <2>2, NgcGoto, ZenonT(40)
<1>3. NgcTypes'
  BY <1>1, <1>2, Zenon DEF NgcTypes
<1>4. NgcLocal(d)'
  <2>1. pc = "ok" /\ NoDeletion => NgcFiles(d) \subseteq disk
    <3>1. NgcFiles(d) \subseteq NGC!File
      BY Zenon DEF NgcFiles
    <3>2. NgcLocal(d)
      BY Zenon
    <3> QED
      BY <1>1, <3>1, <3>2, ZenonT(40) DEF NgcLocal
  <2>2. NoDeletion' <=> NoDeletion
    BY <1>1, Zenon DEF NoDeletion
  <2> QED
    BY <1>1, <1>2, <2>1, <2>2, ZenonT(40) DEF NgcLocal, NgcRunning, NgcFiles, NGC!File
<1>5. \A e \in Download : NgcLocal(e)'
  BY <1>1, <1>2, <1>4, NgcOthers, ZenonT(40)
<1>6. NgcTemp'
  <2> SUFFICES ASSUME NEW f \in temp
               PROVE  \E e \in Download : dl'[e].pc = "failed" \/
                        (dl'[e].pc = "transfer" /\ f \in NGC!File /\ dl'[e].task[f] \in {"body", "error"})
    BY <1>1, Zenon DEF NgcTemp, NGC!File
  <2>1. PICK e \in Download : dl[e].pc = "failed" \/
               (dl[e].pc = "transfer" /\ f \in NGC!File /\ dl[e].task[f] \in {"body", "error"})
    BY Zenon DEF NgcTemp
  <2>2. CASE e # d
    BY <2>1, <2>2, <1>2, ZenonT(40)
  <2>3. CASE e = d
    <3>1. f \in NGC!File /\ dl[d].task[f] = "error"
      BY <2>1, <2>3, <1>1, ZenonT(40)
    <3> QED
      BY <3>1, <1>2, Zenon
  <2> QED
    BY <2>2, <2>3, Zenon
<1>7. NgcUsed'
  BY <1>1, <1>2, Zenon DEF NgcUsed
<1>8. NgcRefreshing'
  <2> SUFFICES ASSUME NEW e \in Download, NEW f \in NGC!File, refreshing = <<e, f>>
               PROVE  dl'[e].pc = "transfer" /\ dl'[e].task[f] = "stale"
    BY <1>1, Zenon DEF NgcRefreshing, NGC!File
  <2>1. dl[e].pc = "transfer" /\ dl[e].task[f] = "stale"
    BY Zenon DEF NgcRefreshing
  <2> QED
    BY <2>1, <1>1, <1>2, ZenonT(40)
<1>9. NgcOwed'
  <2>1. \A e \in Download : dl'[e].pc = "transfer" => dl[e].pc = "transfer"
    BY <1>1, <1>2, Zenon
  <2> QED
    BY <2>1, <1>1, NgcOwedKept, ZenonT(40)
<1> QED
  BY <1>3, <1>5, <1>6, <1>7, <1>8, <1>9, ZenonT(40)

\* A crash.
LEMMA NgcCrashMoves ==
  ASSUME NGC!WellFormed, NgcInv, NEW d \in Download, NGC!Crash(d)
  PROVE  NgcInv'
<1>1. /\ lock = d /\ faults \subseteq faults' /\ refreshing' = None
      /\ dl' = [dl EXCEPT ![d].pc = "failed"]
      /\ UNCHANGED <<disk, temp, fresh, refreshes, expiries, removed>>
  BY Zenon DEF NGC!Crash, NGC!Fail, NGC!End
<1>2. /\ dl' \in [Download -> NgcDl] /\ \A e \in Download : e # d => dl'[e] = dl[e]
      /\ dl'[d].pc = "failed"
  BY <1>1, NgcGoto, Zenon DEF NgcInv, NgcPc
<1>3. NgcLocal(d)'
  BY <1>2, Zenon DEF NgcLocal, NgcRunning
<1> QED
  BY <1>1, <1>2, <1>3, NgcOutside, ZenonT(40)

\* A deletion, or the token's expiry.
LEMMA NgcWorldMoves ==
  ASSUME NGC!WellFormed, NgcInv, (\E e \in Deletion : NGC!DeleteModel(e)) \/ NGC!TokenExpires
  PROVE  NgcInv'
<1> USE DEF NgcInv
<1>1. CASE \E e \in Deletion : NGC!DeleteModel(e)
  <2>1. PICK e \in Deletion : NGC!DeleteModel(e)
    BY <1>1, Zenon
  <2>2. /\ removed' = [removed EXCEPT ![e] = TRUE] /\ disk' = {} /\ temp' = {}
        /\ UNCHANGED <<lock, dl, fresh, refreshing, refreshes, expiries, faults>>
    BY <2>1, Zenon DEF NGC!DeleteModel, NGC!tokenVars
  <2>3. ~NoDeletion' /\ NgcTypes'
    BY <2>2, Zenon DEF NoDeletion, NgcTypes
  <2>4. ASSUME NEW d \in Download PROVE NgcLocal(d)'
    BY <2>2, <2>3, ZenonT(40) DEF NgcLocal, NgcRunning, NgcFiles, NGC!File, NGC!Pages
  <2>5. NgcTemp' /\ NgcUsed'
    BY <2>2, ZenonT(40) DEF NgcTemp, NgcUsed
  <2>6. NgcRefreshing' /\ NgcOwed'
    BY <2>2, Zenon DEF NgcRefreshing, NgcOwed, NGC!File
  <2> QED
    BY <2>3, <2>4, <2>5, <2>6, ZenonT(40)
<1>2. CASE NGC!TokenExpires
  <2>1. /\ fresh /\ fresh' = FALSE /\ expiries' = expiries + 1 /\ faults \subseteq faults'
        /\ UNCHANGED <<disk, temp, lock, dl, refreshing, refreshes, removed>>
    BY <1>2, ZenonT(40) DEF NGC!TokenExpires, NGC!Fail
  <2>2. NgcTypes'
    <3>1. expiries' \in Nat
      BY SMTT(30), <2>1 DEF NgcTypes
    <3>2. fresh' \in BOOLEAN
      BY <2>1, Zenon
    <3> QED
      BY <2>1, <3>1, <3>2, ZenonT(40) DEF NgcTypes
  <2>3. ASSUME NEW d \in Download PROVE NgcLocal(d)'
    BY <2>1, Zenon DEF NgcLocal, NgcRunning, NgcFiles, NoDeletion, NGC!File, NGC!Pages
  <2>4. NgcTemp' /\ NgcUsed' /\ NgcRefreshing'
    BY <2>1, ZenonT(40) DEF NgcTemp, NgcUsed, NgcRefreshing, NGC!File
  <2>5. NgcOwed'
    BY SMTT(30), <2>1 DEF NgcOwed, NgcTypes
  <2> QED
    BY <2>2, <2>3, <2>4, <2>5, ZenonT(40)
<1> QED
  BY <1>1, <1>2, Zenon

\* The invariant holds throughout.
LEMMA NgcInvariance == NGC!WellFormed /\ NGC!Spec => []NgcInv
<1> SUFFICES ASSUME NGC!WellFormed PROVE NGC!Spec => []NgcInv
  BY Zenon
<1>1. NGC!Init => NgcInv
  <2> SUFFICES ASSUME NGC!Init PROVE NgcInv
    BY Zenon
  <2>1. NgcTypes
    <3> DEFINE t == [f \in NGC!File |-> "none"]
               r == [pc |-> "start", page |-> 1, listed |-> {}, bearer |-> FALSE, task |-> t]
    <3>1. t \in [NGC!File -> NgcTaskState]
      BY Zenon DEF NgcTaskState
    <3>2. dl = [d \in Download |-> r]
      BY Zenon DEF NGC!Init
    <3> HIDE DEF t
    <3>3. r \in NgcDl
      BY <3>1, Zenon DEF NgcDl, NgcPc
    <3> HIDE DEF r
    <3> QED
      BY <3>2, <3>3, ZenonT(40) DEF NGC!Init, NgcTypes
  <2>2. \A d \in Download : dl[d].pc = "start" /\ dl[d].page = 1
    BY Zenon DEF NGC!Init
  <2>3. ASSUME NEW d \in Download PROVE NgcLocal(d)
    BY <2>2, Zenon DEF NgcLocal, NgcRunning
  <2>4. NgcTemp /\ NgcUsed
    BY Zenon DEF NGC!Init, NgcTemp, NgcUsed
  <2>5. NgcRefreshing
    BY Zenon DEF NGC!Init, NgcRefreshing, NGC!WellFormed
  <2>6. NgcOwed
    BY DEF NGC!Init, NgcOwed
  <2> QED
    BY <2>1, <2>3, <2>4, <2>5, <2>6, ZenonT(40) DEF NgcInv
<1>2. NgcInv /\ [NGC!Next]_NGC!vars => NgcInv'
  <2> SUFFICES ASSUME NgcInv, [NGC!Next]_NGC!vars PROVE NgcInv'
    BY Zenon
  <2>1. ASSUME NEW d \in Download, NGC!DownloadStep(d) PROVE NgcInv'
    BY <2>1, NgcListingMoves, NgcPlanMoves, NgcTransferMoves, NgcFinishMoves, ZenonT(40) DEF NGC!DownloadStep
  <2>2. ASSUME NEW d \in Download, NGC!Crash(d) PROVE NgcInv'
    BY <2>2, NgcCrashMoves, Zenon
  <2>3. CASE (\E e \in Deletion : NGC!DeleteModel(e)) \/ NGC!TokenExpires
    BY <2>3, NgcWorldMoves, Zenon
  <2>4. CASE UNCHANGED NGC!vars
    <3>1. UNCHANGED <<disk, temp, lock, dl, fresh, refreshing, refreshes, expiries, removed, faults>>
      BY <2>4, Zenon DEF NGC!vars, NGC!tokenVars
    <3>2. ASSUME NEW d \in Download PROVE NgcLocal(d)'
      BY <3>1, ZenonT(40) DEF NgcInv, NgcLocal, NgcRunning, NgcFiles, NoDeletion, NGC!File, NGC!Pages
    <3> QED
      BY <3>1, <3>2, ZenonT(40) DEF NgcInv, NgcTypes, NgcTemp, NgcUsed, NgcRefreshing, NgcOwed, NgcDl, NGC!File
  <2> QED
    BY <2>1, <2>2, <2>3, <2>4, ZenonT(40) DEF NGC!Next
<1> QED
  BY <1>1, <1>2, PTL DEF NGC!Spec

\* Unless it was deleted, the artifact of a download that succeeded has every file
\* any page lists, and the path get_model_path gives while nothing runs and nothing
\* failed has them and nothing unfinished, whatever crashed before (ngc.rs).
THEOREM NgcInstalledWhole == NGC!WellFormed /\ NGC!Spec => []NGC!InstalledWhole
<1> SUFFICES ASSUME NGC!WellFormed PROVE NGC!Spec => []NGC!InstalledWhole
  BY Zenon
<1>0. NGC!Spec => []NgcInv
  BY NgcInvariance, Zenon
<1>1. NgcInv => NGC!InstalledWhole
  <2> SUFFICES ASSUME NgcInv, NoDeletion
               PROVE  /\ \A d \in Download : dl[d].pc = "ok" => NgcFiles(d) \subseteq disk
                      /\ NGC!get_model_path /\ (\A d \in Download : dl[d].pc \in {"start", "ok"}) =>
                           temp = {} /\ NGC!File \ Weights \subseteq disk
    BY Zenon DEF NGC!InstalledWhole, NoDeletion, NgcFiles
  <2>1. \A d \in Download : dl[d].pc = "ok" => NgcFiles(d) \subseteq disk
    BY Zenon DEF NgcInv, NgcLocal
  <2>2. ASSUME NGC!get_model_path, \A d \in Download : dl[d].pc \in {"start", "ok"}
        PROVE  temp = {} /\ NGC!File \ Weights \subseteq disk
    <3>1. temp = {}
      BY <2>2, Zenon DEF NgcInv, NgcTemp
    <3>2. PICK d \in Download : dl[d].pc # "start"
      BY <2>2, Zenon DEF NgcInv, NgcUsed, NGC!get_model_path
    <3>3. NgcFiles(d) \subseteq disk
      BY <2>1, <2>2, <3>2, ZenonT(40)
    <3> QED
      BY <3>1, <3>3, Zenon DEF NgcFiles
  <2> QED
    BY <2>1, <2>2, ZenonT(40)
<1> QED
  BY <1>0, <1>1, PTL

\* Transfers that find the shared token stale together exchange it once per expiry
\* (ngc.rs, SharedToken::get), unless an exchange failed.
THEOREM NgcRefreshedOnce == NGC!WellFormed /\ NGC!Spec => []NGC!RefreshedOnce
<1> SUFFICES ASSUME NGC!WellFormed PROVE NGC!Spec => []NGC!RefreshedOnce
  BY Zenon
<1>0. NGC!Spec => []NgcInv
  BY NgcInvariance, Zenon
<1>1. NgcInv => NGC!RefreshedOnce
  BY Zenon DEF NgcInv, NgcOwed, NGC!RefreshedOnce
<1> QED
  BY <1>0, <1>1, PTL
=============================================================================
