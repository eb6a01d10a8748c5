-------------------------- MODULE HuggingFaceCache --------------------------
(***************************************************************************)
(* The cache of one Hugging Face model (modelexpress_common                *)
(* providers/huggingface.rs): downloads resolve a branch or a pinned       *)
(* commit and fetch every eligible file of that commit; deletions of a     *)
(* revision remove its snapshot, the refs in refs/ itself that name it and *)
(* the blobs no other snapshot links to.  Nothing locks the repository:    *)
(* downloads and deletions of different revisions interleave.              *)
(*                                                                         *)
(* A snapshot maps files to links into blobs/ or to whole files, the refs  *)
(* map branches and commits to commits.                                    *)
(***************************************************************************)
EXTENDS Naturals, Sequences, FiniteSets

CONSTANTS
  Commit, Branch, File,
  Slashed,   \* branches whose name has a slash: their refs lie below refs/
  BlobOf,    \* content of each file of each commit
  Empty,     \* files of no bytes, which the range request refuses
  Download, Wants,   \* downloads, and the branch or commit each asks for, or None
  Deletion, Target,  \* deletions, and the branch or commit each removes; None
                     \* for the whole repository, "listed" for the files the hub lists
  Default,   \* the branch a request without a revision means
  Fault, MaxFaults, None

VARIABLES
  head,      \* the commit of each branch at the hub
  refs, snapshot, blobs,
  made,      \* snapshots/ exists
  order,     \* commits in the order their snapshots were created
  dl, del,
  offline,   \* HF_HUB_OFFLINE
  overlap,   \* history: a deletion and a download have been under way together
  faults, budget

cacheVars == <<refs, snapshot, blobs, made, order>>
vars == <<head, cacheVars, dl, del, offline, overlap, faults, budget>>

Revision == Branch \cup Commit
NoFiles == [f \in File |-> None]
Link(b) == [kind |-> "link", content |-> b]
Copy(b) == [kind |-> "copy", content |-> b]
Idle == [pc |-> "start", sha |-> None, todo |-> {}, file |-> None, got |-> FALSE, local |-> FALSE]

\* What a directory of files can hold.
Content == UNION {{BlobOf[c][f] : f \in File} : c \in Commit}
Slot == {None} \cup [kind : {"link", "copy"}, content : Content]

\* Branches are not commit hashes, and None is no revision, file or directory.
WellFormed ==
  /\ Branch \cap Commit = {} /\ None \notin Revision \cup File /\ Default \in Branch
  /\ Slashed \subseteq Branch
  /\ Wants \in [Download -> Revision \cup {None}]
  /\ None \notin [kind : {"link", "copy"}, content : Content] /\ None \notin [File -> Slot]

Init ==
  /\ head \in [Branch -> Commit]
  /\ refs = [r \in Revision |-> None]
  /\ snapshot = [c \in Commit |-> None]
  /\ blobs = {} /\ made = FALSE /\ order = <<>>
  /\ dl = [d \in Download |-> Idle]
  /\ del = [e \in Deletion |-> [pc |-> "start", commit |-> None, seen |-> {}, keep |-> {}]]
  /\ offline = FALSE /\ overlap = FALSE /\ faults = {} /\ budget = MaxFaults

Fail(k) == k \in Fault /\ budget > 0 /\ budget' = budget - 1 /\ faults' = faults \cup {k}
NoFault == UNCHANGED <<faults, budget>>

Asked(d) == IF Wants[d] = None THEN Default ELSE Wants[d]
Downloading == {d \in Download : dl[d].pc \in {"files", "link"}}
Deleting == {e \in Deletion : del[e].pc \notin {"start", "done"}}

-----------------------------------------------------------------------------
(* Looking at the cache *)

Resolves(entry) == entry # None /\ (entry.kind = "copy" \/ entry.content \in blobs)
latest_local_snapshot_path == IF order = <<>> THEN None ELSE order[Len(order)]
local_commit_for_revision(r) == IF refs[r] # None THEN refs[r] ELSE r

\* The commit a request is served from without asking the hub, or None.
resolve_revision_offline(r) ==
  LET c == IF r = None THEN latest_local_snapshot_path ELSE local_commit_for_revision(r)
  IN  IF c \in Commit /\ snapshot[c] # None THEN c ELSE None

(* download_at_revision *)

Failed(d) == dl' = [dl EXCEPT ![d] = [Idle EXCEPT !.pc = "failed"]]

Resolve(d) ==
  /\ dl[d].pc = "start"
  /\ \/ /\ ~offline
        /\ LET sha == IF Asked(d) \in Branch THEN head[Asked(d)] ELSE Asked(d) IN
             dl' = [dl EXCEPT ![d] = [Idle EXCEPT !.pc = "files", !.sha = sha, !.todo = File]]
        /\ NoFault
     \/ ~offline /\ Fail("hub") /\ Failed(d)
     \/ /\ offline
        /\ LET sha == resolve_revision_offline(Wants[d]) IN
             IF sha = None THEN Failed(d)
             ELSE dl' = [dl EXCEPT ![d] = [Idle EXCEPT !.pc = "ok", !.sha = sha, !.local = TRUE]]
        /\ NoFault
  /\ overlap' = (overlap \/ Deleting # {})
  /\ UNCHANGED <<head, offline, cacheVars, del>>

Entry(d, f) == IF snapshot[dl[d].sha] = None THEN None ELSE snapshot[dl[d].sha][f]

Files(c) == IF snapshot[c] = None THEN NoFiles ELSE snapshot[c]

\* A file appears in the snapshot, whose directory is created when it is missing.
AddEntry(c, f, entry) ==
  /\ snapshot' = [snapshot EXCEPT ![c] = [Files(c) EXCEPT ![f] = entry]]
  /\ order' = IF snapshot[c] = None THEN Append(order, c) ELSE order
  /\ made' = TRUE

\* MUTANT of Fetched: files are fetched from what the branch names now.
FetchedFromHead(d, f) ==
  IF Asked(d) \in Branch THEN BlobOf[head[Asked(d)]][f] ELSE BlobOf[dl[d].sha][f]

\* Every file comes from the commit that was resolved, not from the branch.
Fetched(d, f) == BlobOf[dl[d].sha][f]

\* hf-hub's get: a file that is cached is left alone, otherwise its blob is
\* written and linked; a file of no bytes is skipped.
Fetch(d) == \E f \in dl[d].todo :
  LET rest == [dl[d] EXCEPT !.todo = @ \ {f}] IN
  /\ dl[d].pc = "files"
  /\ \/ /\ f \in Empty
        /\ dl' = [dl EXCEPT ![d] = rest] /\ UNCHANGED blobs
     \/ /\ f \notin Empty /\ Resolves(Entry(d, f))
        /\ dl' = [dl EXCEPT ![d] = [rest EXCEPT !.got = TRUE]] /\ UNCHANGED blobs
     \/ /\ f \notin Empty /\ ~Resolves(Entry(d, f))
        /\ blobs' = blobs \cup {Fetched(d, f)}
        /\ dl' = [dl EXCEPT ![d] = [rest EXCEPT !.pc = "link", !.file = f]]
  /\ UNCHANGED <<head, offline, refs, snapshot, made, order, del, overlap, faults, budget>>

LinkBlob(d) ==
  /\ dl[d].pc = "link"
  /\ AddEntry(dl[d].sha, dl[d].file, Link(Fetched(d, dl[d].file)))
  /\ dl' = [dl EXCEPT ![d] = [dl[d] EXCEPT !.pc = "files", !.file = None, !.got = TRUE]]
  /\ UNCHANGED <<head, offline, refs, blobs, del, overlap, faults, budget>>

\* download_full_body_file: the mirror ignores ranges.  Commit and length are
\* checked, and the file appears whole or not at all.
FetchFullBody(d) == \E f \in dl[d].todo \ Empty :
  /\ dl[d].pc = "files" /\ ~Resolves(Entry(d, f))
  /\ Fail("range")
  /\ \/ /\ AddEntry(dl[d].sha, f, Copy(Fetched(d, f)))
        /\ dl' = [dl EXCEPT ![d] = [dl[d] EXCEPT !.todo = @ \ {f}, !.got = TRUE]]
     \/ Failed(d) /\ UNCHANGED <<snapshot, order, made>>
  /\ UNCHANGED <<head, offline, refs, blobs, del, overlap>>

FetchFails(d) ==
  /\ dl[d].pc = "files" /\ dl[d].todo # {}
  /\ Fail("network") /\ Failed(d)
  /\ UNCHANGED <<head, offline, cacheVars, del, overlap>>

\* The ref that was asked for now names the commit.
PublishRef(d) ==
  /\ dl[d].pc = "files" /\ dl[d].todo = {}
  /\ IF dl[d].got
       THEN /\ refs' = [refs EXCEPT ![Asked(d)] = dl[d].sha]
            /\ dl' = [dl EXCEPT ![d].pc = "ok"]
       ELSE Failed(d) /\ UNCHANGED refs
  /\ UNCHANGED <<head, offline, snapshot, blobs, made, order, del, overlap, faults, budget>>

-----------------------------------------------------------------------------
(* delete_model_revision *)

OrderWithout(c) == SelectSeq(order, LAMBDA k : k # c)

Step(e, pc) == del' = [del EXCEPT ![e].pc = pc]

RemoveSnapshot(e) == LET c == local_commit_for_revision(Target[e]) IN
  /\ del[e].pc = "start" /\ Target[e] \in Revision
  /\ IF c \in Commit
       THEN /\ snapshot' = [snapshot EXCEPT ![c] = None]
            /\ order' = OrderWithout(c)
       ELSE UNCHANGED <<snapshot, order>>
  /\ del' = [del EXCEPT ![e] = [del[e] EXCEPT !.pc = "refs", !.commit = c]]
  /\ overlap' = (overlap \/ Downloading # {} \/ Deleting # {})
  /\ UNCHANGED <<head, offline, refs, blobs, made, dl, faults, budget>>

\* MUTANT of Stale: only the ref that was asked for is dropped.
StaleNamed(e, r) == r = Target[e]

\* Only the files of refs/ itself are read: the ref of refs/pr/1 stays.
Stale(e, r) == r \notin Slashed /\ refs[r] = del[e].commit

DropRefs(e) ==
  /\ del[e].pc = "refs"
  /\ refs' = [r \in Revision |-> IF Stale(e, r) THEN None ELSE refs[r]]
  /\ Step(e, "look")
  /\ UNCHANGED <<head, offline, snapshot, blobs, made, order, dl, overlap, faults, budget>>

\* Is snapshots/ there and empty?
LookForSnapshots(e) ==
  /\ del[e].pc = "look"
  /\ Step(e, IF made /\ order = <<>> THEN "repo" ELSE "scan")
  /\ UNCHANGED <<head, offline, cacheVars, dl, overlap, faults, budget>>

\* The repository directory goes as it is now.
RemoveRepository(e) ==
  /\ del[e].pc = "repo"
  /\ refs' = [r \in Revision |-> None]
  /\ snapshot' = [c \in Commit |-> None]
  /\ blobs' = {} /\ made' = FALSE /\ order' = <<>>
  /\ Step(e, "done")
  /\ UNCHANGED <<head, offline, dl, overlap, faults, budget>>

LinkedBy(c) ==
  IF snapshot[c] = None THEN {}
  ELSE {snapshot[c][f].content : f \in {g \in File : snapshot[c][g] # None /\ snapshot[c][g].kind = "link"}}
Linked == UNION {LinkedBy(c) : c \in Commit}

\* reclaim_unreferenced_blobs: the snapshots are walked, then blobs/ is read.
ScanSnapshots(e) ==
  /\ del[e].pc = "scan"
  /\ IF made
       THEN del' = [del EXCEPT ![e] = [del[e] EXCEPT !.pc = "sweep", !.seen = blobs, !.keep = Linked \cap blobs]]
       ELSE Step(e, "done")
  /\ UNCHANGED <<head, offline, cacheVars, dl, overlap, faults, budget>>

\* MUTANT of Swept: the blobs of the removed revision go.
SweptOfTarget(e, listed) ==
  IF del[e].commit \in Commit THEN {BlobOf[del[e].commit][f] : f \in File} ELSE {}

Swept(e, listed) == listed \ del[e].keep

\* blobs/ was opened before the walk: what was added since may be listed or not.
SweepBlobs(e) == \E new \in SUBSET (blobs \ del[e].seen) :
  /\ del[e].pc = "sweep"
  /\ blobs' = blobs \ Swept(e, (blobs \cap del[e].seen) \cup new)
  /\ Step(e, "done")
  /\ UNCHANGED <<head, offline, refs, snapshot, made, order, dl, overlap, faults, budget>>

\* clear_model, which a deletion without a revision comes down to.
ClearModel(e) ==
  /\ del[e].pc = "start" /\ Target[e] = None
  /\ Step(e, "repo")
  /\ overlap' = (overlap \/ Downloading # {} \/ Deleting # {})
  /\ UNCHANGED <<head, offline, cacheVars, dl, faults, budget>>

\* delete_model: the cached files of the default branch that the hub lists are
\* removed from their snapshot, and the snapshot when that empties it.
DeleteListed(e) == LET c == refs[Default] IN
  /\ del[e].pc = "start" /\ Target[e] = "listed"
  /\ \/ /\ IF c \notin {k \in Commit : snapshot[k] # None} THEN UNCHANGED <<snapshot, order>>
           ELSE LET left == [f \in File |-> IF Resolves(snapshot[c][f]) THEN None ELSE snapshot[c][f]] IN
             IF left = NoFiles /\ snapshot[c] # NoFiles
               THEN snapshot' = [snapshot EXCEPT ![c] = None] /\ order' = OrderWithout(c)
               ELSE snapshot' = [snapshot EXCEPT ![c] = left] /\ UNCHANGED order
        /\ NoFault
     \/ Fail("hub") /\ UNCHANGED <<snapshot, order>>
  /\ Step(e, "done")
  /\ overlap' = (overlap \/ Downloading # {} \/ Deleting # {})
  /\ UNCHANGED <<head, offline, refs, blobs, made, dl>>

\* The server is started again without access to the hub.
RestartOffline ==
  /\ Downloading = {} /\ Deleting = {} /\ ~offline /\ Fail("offline")
  /\ offline' = TRUE
  /\ UNCHANGED <<head, cacheVars, dl, del, overlap>>

BranchMoves == \E b \in Branch, c \in Commit :
  /\ head[b] # c /\ Fail("move")
  /\ head' = [head EXCEPT ![b] = c]
  /\ UNCHANGED <<cacheVars, dl, del, offline, overlap>>

DownloadStep(d) == Resolve(d) \/ Fetch(d) \/ LinkBlob(d) \/ PublishRef(d)
DeletionStep(e) ==
  \/ RemoveSnapshot(e) \/ DropRefs(e) \/ LookForSnapshots(e) \/ RemoveRepository(e)
  \/ ScanSnapshots(e) \/ SweepBlobs(e)
  \/ ClearModel(e) \/ DeleteListed(e)

Next ==
  \/ \E d \in Download : DownloadStep(d) \/ FetchFullBody(d) \/ FetchFails(d)
  \/ \E e \in Deletion : DeletionStep(e)
  \/ BranchMoves \/ RestartOffline

Spec == Init /\ [][Next]_vars

-----------------------------------------------------------------------------
Quiet == Downloading = {} /\ Deleting = {}

\* A snapshot holds files of its own commit only, although the branch moves
\* while it is downloaded; and a download that succeeded left a whole snapshot,
\* as did the one that published the branch an offline request is served by.
\* (Offline, a commit is served once its directory exists, whole or not.)
InstalledWhole ==
  /\ \A c \in Commit, f \in File :
       snapshot[c] # None /\ snapshot[c][f] # None => snapshot[c][f].content = BlobOf[c][f]
  /\ \A d \in Download :
       dl[d].pc = "ok" /\ (dl[d].local => Wants[d] \in Branch) /\ (\A e \in Deletion : del[e].pc = "start") =>
         \A f \in File \ Empty : Resolves(Entry(d, f))

\* Unless a download and a deletion overlap, deleting one revision breaks no link
\* of another, leaves no ref of refs/ itself without its snapshot and no blob
\* without a link.  (A deletion by the hub's list leaves refs and blobs behind, as
\* the code says; a ref with a slash stays when its snapshot goes.)
DeletionSparesOthers ==
  ~overlap /\ (\A e \in Deletion : Target[e] = "listed" => del[e].pc = "start") =>
    /\ \A c \in Commit : LinkedBy(c) \subseteq blobs
    /\ Quiet => \A r \in Revision \ Slashed : refs[r] # None => snapshot[refs[r]] # None
    /\ Quiet /\ (\E e \in Deletion : del[e].pc = "done") => blobs \subseteq Linked

\* Reclaiming blobs removes none that a snapshot points at
\* (reclaim_unreferenced_blobs: "a blob we cannot classify is kept").
ReclaimKeepsLinked ==
  [][(\E e \in Deletion : SweepBlobs(e)) => Linked \cap blobs \subseteq blobs']_vars
=============================================================================
