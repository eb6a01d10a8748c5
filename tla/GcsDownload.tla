----------------------------- MODULE GcsDownload -----------------------------
(***************************************************************************)
(* Downloads of models from Google Cloud Storage (modelexpress_common      *)
(* providers/gcs).  A model is the objects below a prefix, those of the     *)
(* models below it included; its directory holds the files, a manifest     *)
(* that pins every object's generation and checksum, and a partial file    *)
(* per object, which the next attempt resumes.  One lock file guards the   *)
(* manifest and one each file; deletions take none of them and remove them *)
(* with the directory.                                                     *)
(*                                                                         *)
(* Content is a sequence of units, each of the generation it was read      *)
(* from, so that a partial file may mix generations.                       *)
(***************************************************************************)
EXTENDS Naturals, Sequences, FiniteSets

CONSTANTS
  Model, File, Weights, Generation,
  Listed,      \* the files below the prefix of each model
  Below,       \* pairs <<a, b>> of models: the prefix of b lies below that of a
  Size,        \* units of an object of each generation
  Download, ModelOf,
  Metadata,    \* downloads that ignore the weights
  Deletion, Removes,
  Fault, MaxFaults, None

VARIABLES
  bucket,      \* the generation of each object
  manifest,    \* None, or the generation pinned for each file
  damaged,     \* models whose manifest file cannot be read
  dirs,        \* models whose directory exists
  disk, part,  \* content of the installed files, or None, and of the partial ones of each model
  dl, lock, manifestLock, removed,
  stray,       \* models whose directory was removed under a running download
  raced,       \* history: two overlapping models were admitted together
  faults, budget

dirVars == <<manifest, damaged, dirs, disk, part>>
lockVars == <<lock, manifestLock, stray>>
vars == <<bucket, dirVars, dl, lockVars, removed, raced, faults, budget>>

Init ==
  /\ bucket = [f \in File |-> 1]
  /\ manifest = [m \in Model |-> None] /\ damaged = {} /\ dirs = {}
  /\ disk = [f \in File |-> None]
  /\ part = [m \in Model |-> [f \in File |-> <<>>]]
  /\ dl = [d \in Download |-> [pc |-> "start", pins |-> None,
                               task |-> [f \in File |-> "none"]]]
  /\ lock = [m \in Model |-> [f \in File |-> None]]
  /\ manifestLock = [m \in Model |-> None]
  /\ removed = [e \in Deletion |-> FALSE]
  /\ stray = {} /\ raced = FALSE /\ faults = {} /\ budget = MaxFaults

Fail(k) == k \in Fault /\ budget > 0 /\ budget' = budget - 1 /\ faults' = faults \cup {k}
NoFault == UNCHANGED <<faults, budget>>

Whole(g) == [i \in 1..Size[g] |-> g]
Wanted(d) == IF d \in Metadata THEN Listed[ModelOf[d]] \ Weights ELSE Listed[ModelOf[d]]
Goto(d, pc) == dl' = [dl EXCEPT ![d].pc = pc]

-----------------------------------------------------------------------------
(* ModelDir *)

load_manifest(m) == IF m \in damaged THEN None ELSE manifest[m]

\* MUTANT of cache_satisfies_request: the manifest alone tells.
ManifestSatisfiesRequest(m, want) == load_manifest(m) # None /\ want # {}

cache_satisfies_request(m, want) ==
  /\ load_manifest(m) # None /\ want # {}
  /\ \A f \in want : disk[f] # None

Overlapping(m) == {n \in Model : <<m, n>> \in Below \/ <<n, m>> \in Below}

\* MUTANT of find_overlap: only the directories above are looked at.
FindAncestor(m) == {n \in Model : <<n, m>> \in Below /\ manifest[n] # None}

find_overlap(m) == {n \in Overlapping(m) : manifest[n] # None}

is_removable(m) == manifest[m] # None \/ (m \in dirs /\ find_overlap(m) = {})

\* The directories that are there with a file, and with the metadata of a model.
Around(f) == {n \in Model : f \in Listed[n]}
AtOrAbove(m) == {n \in Model : n = m \/ <<n, m>> \in Below}
AtOrBelow(m) == {n \in Model : n = m \/ <<m, n>> \in Below}

-----------------------------------------------------------------------------
(* download_with_clients *)

\* LockFile.  Once a directory was removed under a download, callers hold or poll
\* for lock files of which some have lost their names: none excludes anyone.
Free(m, holder) == holder = None \/ m \in stray

\* The locks d holds are released when its future is dropped.
Released(d) ==
  /\ lock' = [m \in Model |-> [f \in File |-> IF lock[m][f] = d THEN None ELSE lock[m][f]]]
  /\ manifestLock' = [m \in Model |-> IF manifestLock[m] = d THEN None ELSE manifestLock[m]]

CheckCache(d) == LET m == ModelOf[d] IN
  /\ dl[d].pc = "start"
  /\ Goto(d, IF cache_satisfies_request(m, Wanted(d)) THEN "ok" ELSE "available")
  /\ UNCHANGED <<bucket, dirVars, lockVars, removed, raced, faults, budget>>

ensure_available(d) == LET m == ModelOf[d] IN
  /\ dl[d].pc = "available"
  /\ Goto(d, IF find_overlap(m) # {} THEN "failed" ELSE "manifest")
  /\ raced' = (raced \/ \E e \in Download \ {d} :
                          ModelOf[e] \in Overlapping(m) /\ dl[e].pc \in {"manifest", "listing"})
  /\ UNCHANGED <<bucket, dirVars, lockVars, removed, faults, budget>>

\* ensure_manifest: read it, or take the lock to write it.
FindManifest(d) == LET m == ModelOf[d] IN
  /\ dl[d].pc = "manifest"
  /\ IF load_manifest(m) # None
       THEN /\ dl' = [dl EXCEPT ![d] = [@ EXCEPT !.pc = "recheck", !.pins = load_manifest(m)]]
            /\ UNCHANGED <<manifestLock, dirs>>
       ELSE /\ Free(m, manifestLock[m])
            /\ manifestLock' = [manifestLock EXCEPT ![m] = d]
            /\ dirs' = dirs \cup AtOrAbove(m)
            /\ Goto(d, "listing")
  /\ UNCHANGED <<bucket, manifest, damaged, disk, part, lock, stray, removed, raced, faults, budget>>

\* Every downloadable object below the prefix, with its generation.
collect_manifest_entries(m) == [f \in Listed[m] |-> bucket[f]]

\* Under the lock: read it again, or list the bucket and write it.
WriteManifest(d) == LET m == ModelOf[d]
                        pins == IF load_manifest(m) # None THEN load_manifest(m) ELSE collect_manifest_entries(m) IN
  /\ dl[d].pc = "listing"
  /\ manifest' = [manifest EXCEPT ![m] = pins] /\ damaged' = damaged \ {m}
  /\ dirs' = dirs \cup AtOrAbove(m)
  /\ dl' = [dl EXCEPT ![d] = [@ EXCEPT !.pc = "recheck", !.pins = pins]]
  /\ manifestLock' = [manifestLock EXCEPT ![m] = IF @ = d THEN None ELSE @]
  /\ UNCHANGED <<bucket, disk, part, lock, stray, removed, raced, faults, budget>>

\* download_tasks_from_manifest, unless another download has finished meanwhile.
PlanTasks(d) == LET m == ModelOf[d] IN
  /\ dl[d].pc = "recheck"
  /\ IF cache_satisfies_request(m, Wanted(d)) THEN Goto(d, "ok")
     ELSE IF Wanted(d) = {} THEN Goto(d, "failed")
     ELSE dl' = [dl EXCEPT ![d].pc = "tasks",
                           ![d].task = [f \in File |-> IF f \in Wanted(d) THEN "todo" ELSE "none"]]
  /\ UNCHANGED <<bucket, dirVars, lockVars, removed, raced, faults, budget>>

\* MUTANT of Verified: the length is all that is compared.
VerifiedLength(content, g) == Len(content) = Size[g]

\* promote_verified_temp_file: the checksum of the whole file is compared.
Verified(content, g) == content = Whole(g)

SetTask(d, f, s) == dl' = [dl EXCEPT ![d].task[f] = s]
\* The partial file is renamed or discarded: whoever else is writing to it, after
\* a removal, goes on without a name to its file.
SetTaskAlone(d, f, s, pc) ==
  dl' = [x \in Download |->
    IF x = d THEN [dl[d] EXCEPT !.pc = pc, !.task[f] = s]
    ELSE IF ModelOf[x] = ModelOf[d] /\ dl[x].task[f] = "stream" THEN [dl[x] EXCEPT !.task[f] = "lost"]
    ELSE dl[x]]

\* download_task_once under the file's lock, up to the first byte:
\* prepare_task_download decides what to keep of a partial file.
PrepareFile(d, f) == LET m == ModelOf[d] g == dl[d].pins[f] p == part[m][f] IN
  /\ dl[d].pc = "tasks" /\ dl[d].task[f] = "todo" /\ Free(m, lock[m][f])
  /\ dirs' = dirs \cup Around(f)
  /\ \/ /\ disk[f] # None
        /\ part' = [part EXCEPT ![m][f] = <<>>]
        /\ SetTaskAlone(d, f, "done", "tasks") /\ UNCHANGED lock
     \/ /\ disk[f] = None /\ Len(p) = Size[g] /\ Verified(p, g)
        /\ lock' = [lock EXCEPT ![m][f] = d]
        /\ SetTask(d, f, "verified") /\ UNCHANGED part
     \/ /\ disk[f] = None /\ Len(p) < Size[g]
        /\ lock' = [lock EXCEPT ![m][f] = d]
        /\ SetTask(d, f, "stream") /\ UNCHANGED part
     \/ /\ disk[f] = None /\ Len(p) >= Size[g] /\ ~Verified(p, g)
        /\ part' = [part EXCEPT ![m][f] = <<>>]
        /\ lock' = [lock EXCEPT ![m][f] = d]
        /\ SetTaskAlone(d, f, "stream", "tasks")
  /\ UNCHANGED <<bucket, manifest, damaged, disk, manifestLock, stray, removed, raced, faults, budget>>

\* stream_task_to_temp reads the pinned generation from the length on.
StreamChunk(d, f) == LET m == ModelOf[d] g == dl[d].pins[f] IN
  /\ dl[d].pc = "tasks" /\ dl[d].task[f] = "stream"
  /\ bucket[f] = g
  /\ Len(part[m][f]) < Size[g]
  /\ part' = [part EXCEPT ![m][f] = Append(@, g)]
  /\ UNCHANGED <<bucket, manifest, damaged, dirs, disk, dl, lockVars, removed, raced, faults, budget>>

\* finalize_task_download up to the checksum.  It looks at what the path of the
\* partial file names now; what does not verify is discarded.
FinalizeFile(d, f) == LET m == ModelOf[d] g == dl[d].pins[f] p == part[m][f] IN
  /\ dl[d].pc = "tasks" /\ dl[d].task[f] \in {"stream", "lost"}
  /\ dl[d].task[f] = "stream" => Len(p) >= Size[g] \/ bucket[f] # g
  /\ \/ /\ Len(p) = Size[g] /\ Verified(p, g)
        /\ SetTask(d, f, "verified") /\ UNCHANGED <<part, lock, manifestLock>>
     \/ /\ Len(p) # Size[g] \/ (dl[d].task[f] = "lost" /\ bucket[f] # g)
        /\ Released(d) /\ Goto(d, "failed") /\ UNCHANGED part
     \/ /\ Len(p) = Size[g] /\ ~Verified(p, g)
        /\ part' = [part EXCEPT ![m][f] = <<>>]
        /\ Released(d) /\ SetTaskAlone(d, f, "none", "failed")
  /\ UNCHANGED <<bucket, manifest, damaged, dirs, disk, stray, removed, raced, faults, budget>>

\* The rename of a verified file is a step of its own; it fails when the partial
\* file or the directory it goes to has been removed.
RenameFile(d, f) == LET m == ModelOf[d] IN
  /\ dl[d].pc = "tasks" /\ dl[d].task[f] = "verified"
  /\ IF part[m][f] # <<>> /\ Around(f) \subseteq dirs
       THEN /\ disk' = [disk EXCEPT ![f] = part[m][f]]
            /\ part' = [part EXCEPT ![m][f] = <<>>]
            /\ lock' = [lock EXCEPT ![m][f] = IF @ = d THEN None ELSE @]
            /\ SetTaskAlone(d, f, "done", "tasks") /\ UNCHANGED manifestLock
       ELSE Released(d) /\ Goto(d, "failed") /\ UNCHANGED <<disk, part>>
  /\ UNCHANGED <<bucket, manifest, damaged, dirs, stray, removed, raced, faults, budget>>

FinishDownload(d) == LET m == ModelOf[d] IN
  /\ dl[d].pc = "tasks"
  /\ \A f \in Wanted(d) : dl[d].task[f] = "done"
  /\ Goto(d, IF cache_satisfies_request(m, Wanted(d)) THEN "ok" ELSE "failed")
  /\ UNCHANGED <<bucket, dirVars, lockVars, removed, raced, faults, budget>>

\* A call of the storage service fails, or the process stops: the partial files stay.
DownloadFails(d) ==
  /\ dl[d].pc \in {"manifest", "listing", "tasks"}
  /\ Fail("network")
  /\ Released(d) /\ Goto(d, "failed")
  /\ UNCHANGED <<bucket, dirVars, stray, removed, raced>>

-----------------------------------------------------------------------------
\* The directory goes with all that lies below it, lock files included.  A
\* partial file that is being written has lost its name.
remove(m) == LET gone == AtOrBelow(m) IN
  /\ manifest' = [n \in Model |-> IF n \in gone THEN None ELSE manifest[n]]
  /\ disk' = [f \in File |-> IF f \in Listed[m] THEN None ELSE disk[f]]
  /\ part' = [n \in Model |-> IF n \in gone THEN [f \in File |-> <<>>] ELSE part[n]]
  /\ lock' = [n \in Model |-> IF n \in gone THEN [f \in File |-> None] ELSE lock[n]]
  /\ manifestLock' = [n \in Model |-> IF n \in gone THEN None ELSE manifestLock[n]]
  /\ damaged' = damaged \ gone /\ dirs' = dirs \ gone
  /\ dl' = [d \in Download |-> [dl[d] EXCEPT !.task = [f \in File |->
              IF ModelOf[d] \in gone /\ @[f] = "stream" THEN "lost" ELSE @[f]]]]
  /\ stray' = stray \cup {n \in gone : \E d \in Download :
                 ModelOf[d] = n /\ dl[d].pc \in {"manifest", "listing", "recheck", "tasks"}}

\* delete_model and clear_model.
DeleteModel(e) == LET m == Removes[e] IN
  /\ ~removed[e]
  /\ removed' = [removed EXCEPT ![e] = TRUE]
  /\ IF is_removable(m) THEN remove(m) ELSE UNCHANGED <<dirVars, lockVars, dl>>
  /\ UNCHANGED <<bucket, raced, faults, budget>>

ObjectReplaced == \E f \in File, g \in Generation :
  /\ g > bucket[f] /\ Fail("replace")
  /\ bucket' = [bucket EXCEPT ![f] = g]
  /\ UNCHANGED <<dirVars, dl, lockVars, removed, raced>>

ManifestDamaged == \E m \in Model \ damaged :
  /\ manifest[m] # None /\ Fail("damage")
  /\ damaged' = damaged \cup {m}
  /\ UNCHANGED <<bucket, manifest, dirs, disk, part, dl, lockVars, removed, raced>>

DownloadStep(d) ==
  \/ CheckCache(d) \/ ensure_available(d) \/ FindManifest(d) \/ WriteManifest(d) \/ PlanTasks(d)
  \/ \E f \in File : PrepareFile(d, f) \/ StreamChunk(d, f) \/ FinalizeFile(d, f) \/ RenameFile(d, f)
  \/ FinishDownload(d)

Next ==
  \/ \E d \in Download : DownloadStep(d) \/ DownloadFails(d)
  \/ \E e \in Deletion : DeleteModel(e)
  \/ ObjectReplaced \/ ManifestDamaged

Spec == Init /\ [][Next]_vars /\ \A d \in Download : WF_vars(DownloadStep(d))

\* What the constants are: prefixes are directories, so that two models share
\* files only if one lies below the other, whatever is above one of them is then
\* above or below the other, too; no object is empty.
WellFormed ==
  /\ 1 \in Generation /\ Size \in [Generation -> Nat \ {0}]
  /\ \A g \in Generation : Whole(g) # None
  /\ \A m \in Model : None \notin [Listed[m] -> Generation]
  /\ None \notin Download
  /\ Listed \in [Model -> SUBSET File]
  /\ Below \subseteq Model \X Model /\ \A p \in Below : p[1] # p[2]
  /\ \A m, n \in Model : m # n /\ Listed[m] \cap Listed[n] # {} => n \in Overlapping(m)
  /\ \A m, n, u \in Model : n \in Overlapping(m) /\ <<u, n>> \in Below => u = m \/ u \in Overlapping(m)
  /\ ModelOf \in [Download -> Model] /\ Removes \in [Deletion -> Model]

-----------------------------------------------------------------------------
\* Nobody has deleted m or a model above or below it.
Untouched(m) == \A e \in Deletion : removed[e] => Removes[e] # m /\ Removes[e] \notin Overlapping(m)

\* An installed file is one whole object, however often its download was broken
\* off, resumed by another process or overtaken by a new generation, unless its
\* directory was removed under a running download.  A download that succeeded has
\* left every file it wanted while nothing was deleted around it; and they are
\* what the manifest pins, unless it was damaged or a model above or below was
\* admitted at the same time.
InstalledWhole ==
  /\ \A f \in File : disk[f] # None =>
       (\E g \in Generation : disk[f] = Whole(g)) \/ Around(f) \cap stray # {}
  /\ \A d \in Download : LET m == ModelOf[d] IN
       dl[d].pc = "ok" /\ Untouched(m) =>
         \A f \in Wanted(d) :
           /\ disk[f] # None
           /\ "damage" \notin faults /\ ~raced => disk[f] = Whole(manifest[m][f])

\* Models whose directories contain each other are never both installed, so that
\* deleting one never takes the other, unless both were admitted at once.
DeletionSparesOthers ==
  \A p \in Below : manifest[p[1]] # None /\ manifest[p[2]] # None => raced

\* Every download ends: locks of one that failed or stopped do not hold up others.
Ended(d) == dl[d].pc \in {"ok", "failed"}
=============================================================================
