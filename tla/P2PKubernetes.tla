---------------------------- MODULE P2PKubernetes ----------------------------
(***************************************************************************)
(* The Kubernetes backend of the P2P metadata                               *)
(* (modelexpress_server/src/p2p/backend/kubernetes.rs): one ModelMetadata   *)
(* object per worker of a source and one ConfigMap with its tensors.        *)
(*                                                                         *)
(* A call of the backend is several requests to the API server; requests of *)
(* other calls, and the garbage collector, come between them.  An object    *)
(* has a resource version that every write changes; only a status patch     *)
(* names the version it was computed from.  A payload is the publication    *)
(* call it comes from.                                                      *)
(***************************************************************************)
EXTENDS Naturals, FiniteSets

CONSTANTS
  None,
  Worker,       \* the workers of one source
  Call,         \* the calls of this instance, each made once
  Kind,         \* Kind[c]: "publish", "update", "removeWorker", "removeMetadata",
                \* "get" or "reap"
  Of,           \* Of[c]: the worker of a publish, update, removeWorker or get
  Owner,        \* Owner[c]: the namespace a publication is made for, or None
  Pod,          \* Pod[c]: the pod owner reference of a publication, or None
  NewStatus,    \* NewStatus[c]: the status a publish or update sets
  Unreliable,   \* the calls a request of which may fail
  Legacy,       \* the workers whose object was created without an owner label
  MaxRetries    \* max_retries of a status patch

VARIABLES
  cr,           \* worker -> None or the ModelMetadata object
  cm,           \* worker -> None or the ConfigMap
  clock,        \* the last resource version given out
  call,         \* call -> where it is and what it has read
  last,         \* worker -> the publication that patched the status last, or None
  owned,        \* worker -> the label its object was created with
  mixed         \* workers a removal or a second publication of which overlapped
                \* a publication, or whose publication failed half-way

vars == <<cr, cm, clock, call, last, owned, mixed>>

Fresh == [pc |-> "idle", uid |-> None, label |-> None, pod |-> None, rv |-> None,
          status |-> None, tries |-> 0, left |-> {}, clean |-> TRUE]

Object(v, label, pod) == [uid |-> v, rv |-> v, label |-> label, pod |-> pod, status |-> None]

Init ==
  /\ cr = [w \in Worker |-> IF w \in Legacy THEN Object(0, None, None) ELSE None]
  /\ cm = [w \in Worker |-> None]
  /\ clock = 0
  /\ call = [c \in Call |-> Fresh]
  /\ last = [w \in Worker |-> None]
  /\ owned = [w \in Worker |-> None]
  /\ mixed = {}

At(c, pc) == call[c].pc = pc
Go(c, pc) == call' = [call EXCEPT ![c].pc = pc]
Running(c) == call[c].pc \notin {"idle", "done", "failed"}
Publishes(c, w) == Kind[c] = "publish" /\ Of[c] = w
Removes(c) == Kind[c] \in {"removeWorker", "removeMetadata", "reap"}

\* A write to an object gives it a new resource version.
Write(w, obj) == clock' = clock + 1 /\ cr' = [cr EXCEPT ![w] = [obj EXCEPT !.rv = clock + 1]]

\* The call fails; a publication that fails has left what it wrote.
Fails(c) ==
  /\ Go(c, "failed")
  /\ mixed' = IF Kind[c] = "publish" THEN mixed \cup {Of[c]} ELSE mixed

-----------------------------------------------------------------------------
(* publish_metadata                                                          *)

\* get_opt. From here on the publication is under way.
PublishStart(c) ==
  LET w == Of[c] IN
  /\ Kind[c] = "publish" /\ At(c, "idle")
  /\ Go(c, IF cr[w] = None THEN "create" ELSE "get")
  /\ mixed' = IF \E d \in Call \ {c} : Running(d) /\ (Publishes(d, w) \/ Removes(d))
              THEN mixed \cup {w} ELSE mixed
  /\ UNCHANGED <<cr, cm, clock, last, owned>>

\* create; a conflict means that it is there.
PublishCreate(c) ==
  LET w == Of[c] IN
  /\ At(c, "create")
  /\ Go(c, "get")
  /\ IF cr[w] = None
     THEN /\ cr' = [cr EXCEPT ![w] = Object(clock + 1, Owner[c], Pod[c])]
          /\ clock' = clock + 1
          /\ owned' = [owned EXCEPT ![w] = Owner[c]]
     ELSE UNCHANGED <<cr, clock, owned>>
  /\ UNCHANGED <<cm, last, mixed>>

\* MUTANT of OwnerAgrees: whoever publishes last owns the object.
OwnerIgnored(c, label) == TRUE

OwnerAgrees(c, label) == Owner[c] # None => label \in {None, Owner[c]}

\* get: the uid, and the owner check.
PublishGet(c) ==
  LET w == Of[c] IN
  /\ At(c, "get")
  /\ IF cr[w] = None \/ ~OwnerAgrees(c, cr[w].label)
     THEN Fails(c)
     ELSE /\ call' = [call EXCEPT ![c] = [@ EXCEPT !.pc = "label", !.uid = cr[w].uid,
                                                   !.label = cr[w].label, !.pod = cr[w].pod]]
          /\ UNCHANGED mixed
  /\ UNCHANGED <<cr, cm, clock, last, owned>>

\* The merge patch of the owner label, on an object that has none.
PublishLabel(c) ==
  LET w == Of[c] IN
  /\ At(c, "label")
  /\ IF Owner[c] # None /\ call[c].label # Owner[c]
     THEN IF cr[w] = None THEN Fails(c) /\ UNCHANGED <<cr, clock>>
          ELSE /\ Write(w, [cr[w] EXCEPT !.label = Owner[c]])
               /\ Go(c, "pod")
               /\ UNCHANGED mixed
     ELSE Go(c, "pod") /\ UNCHANGED <<cr, clock, mixed>>
  /\ UNCHANGED <<cm, last, owned>>

\* The merge patch of the pod owner reference.
PublishPod(c) ==
  LET w == Of[c] IN
  /\ At(c, "pod")
  /\ IF Pod[c] # None /\ call[c].pod # Pod[c]
     THEN IF cr[w] = None THEN Fails(c) /\ UNCHANGED <<cr, clock>>
          ELSE /\ Write(w, [cr[w] EXCEPT !.pod = Pod[c]])
               /\ Go(c, "cm")
               /\ UNCHANGED mixed
     ELSE Go(c, "cm") /\ UNCHANGED <<cr, clock, mixed>>
  /\ UNCHANGED <<cm, last, owned>>

\* upsert_tensor_configmap: create, and a patch when it exists.
UpsertConfigMap(c) ==
  LET w == Of[c] IN
  /\ At(c, "cm")
  /\ IF cm[w] = None
     THEN cm' = [cm EXCEPT ![w] = [payload |-> c, owner |-> call[c].uid]] /\ Go(c, "read")
     ELSE Go(c, "cmPatch") /\ UNCHANGED cm
  /\ UNCHANGED <<cr, clock, last, owned, mixed>>

PatchConfigMap(c) ==
  LET w == Of[c] IN
  /\ At(c, "cmPatch")
  /\ IF cm[w] = None THEN Fails(c) /\ UNCHANGED cm
     ELSE /\ cm' = [cm EXCEPT ![w] = [payload |-> c, owner |-> call[c].uid]]
          /\ Go(c, "read")
          /\ UNCHANGED mixed
  /\ UNCHANGED <<cr, clock, last, owned>>

-----------------------------------------------------------------------------
(* The status patch that publish_metadata and update_status end with.        *)

\* Ready holds exactly of a worker that is READY.
Status(payload, status) == [payload |-> payload, status |-> status, ready |-> status = "READY"]

\* get, before each attempt.
ReadForPublish(c) ==
  LET w == Of[c] IN
  /\ Kind[c] = "publish" /\ At(c, "read")
  /\ IF cr[w] = None THEN Fails(c)
     ELSE /\ call' = [call EXCEPT ![c] = [@ EXCEPT !.pc = "patch", !.rv = cr[w].rv]]
          /\ UNCHANGED mixed
  /\ UNCHANGED <<cr, cm, clock, last, owned>>

\* update_status needs the status of a publication, which it sends back.
ReadForUpdate(c) ==
  LET w == Of[c] IN
  /\ Kind[c] = "update" /\ call[c].pc \in {"idle", "read"}
  /\ IF cr[w] = None THEN Fails(c)
     ELSE IF cr[w].status = None THEN Fails(c)
     ELSE /\ call' = [call EXCEPT ![c] = [@ EXCEPT !.pc = "patch", !.rv = cr[w].rv,
                                                   !.status = cr[w].status]]
          /\ UNCHANGED mixed
  /\ UNCHANGED <<cr, cm, clock, last, owned>>

\* MUTANT of Unchanged: the patch does not name a resource version.
UnchangedAlways(c) == TRUE

\* The API server refuses a patch of another version than the one it names.
Unchanged(c) == cr[Of[c]].rv = call[c].rv

\* patch_status: applied, refused with a conflict and retried, or the object is gone.
PatchStatus(c, payload) ==
  LET w == Of[c] IN
  /\ At(c, "patch")
  /\ CASE cr[w] = None -> Fails(c) /\ UNCHANGED <<cr, clock, last>>
       [] cr[w] # None /\ Unchanged(c) ->
            /\ Write(w, [cr[w] EXCEPT !.status = Status(payload, NewStatus[c])])
            /\ last' = IF Kind[c] = "publish" THEN [last EXCEPT ![w] = c] ELSE last
            /\ Go(c, "done")
            /\ UNCHANGED mixed
       [] OTHER ->
            /\ IF call[c].tries + 1 < MaxRetries
               THEN /\ call' = [call EXCEPT ![c] = [@ EXCEPT !.pc = "read", !.tries = call[c].tries + 1]]
                    /\ UNCHANGED mixed
               ELSE Fails(c)
            /\ UNCHANGED <<cr, clock, last>>
  /\ UNCHANGED <<cm, owned>>

PatchPublication(c) == Kind[c] = "publish" /\ PatchStatus(c, c)

PatchUpdate(c) == Kind[c] = "update" /\ At(c, "patch") /\ PatchStatus(c, call[c].status.payload)

-----------------------------------------------------------------------------
(* Removal                                                                   *)

\* An object is deleted, or was gone.
Delete(w) ==
  /\ cr' = [cr EXCEPT ![w] = None]
  /\ last' = [last EXCEPT ![w] = None]
  /\ owned' = [owned EXCEPT ![w] = None]

\* The workers with a publication in progress, which a removal disturbs.
Publishing == {w \in Worker : \E c \in Call : Publishes(c, w) /\ Running(c)}

remove_worker(c) ==
  /\ Kind[c] = "removeWorker" /\ At(c, "idle")
  /\ Delete(Of[c])
  /\ mixed' = mixed \cup (Publishing \cap {Of[c]})
  /\ Go(c, "done")
  /\ UNCHANGED <<cm, clock>>

\* remove_metadata lists the objects of the source, deletes them one by one,
\* then lists and deletes the ConfigMaps with its label.
RemoveMetadataList(c) ==
  /\ Kind[c] = "removeMetadata" /\ At(c, "idle")
  /\ call' = [call EXCEPT ![c] = [@ EXCEPT !.pc = "objects", !.left = {w \in Worker : cr[w] # None}]]
  /\ mixed' = mixed \cup Publishing
  /\ UNCHANGED <<cr, cm, clock, last, owned>>

RemoveMetadataObject(c) ==
  /\ At(c, "objects")
  /\ IF call[c].left = {} THEN Go(c, "sweep") /\ UNCHANGED <<cr, last, owned>>
     ELSE \E w \in call[c].left :
            Delete(w) /\ call' = [call EXCEPT ![c].left = @ \ {w}]
  /\ UNCHANGED <<cm, clock, mixed>>

RemoveMetadataSweep(c) ==
  /\ At(c, "sweep")
  /\ call' = [call EXCEPT ![c] = [@ EXCEPT !.pc = "configMaps", !.left = {w \in Worker : cm[w] # None}]]
  /\ UNCHANGED <<cr, cm, clock, last, owned, mixed>>

\* One that cannot be deleted is passed over.
RemoveMetadataConfigMap(c) ==
  /\ At(c, "configMaps")
  /\ IF call[c].left = {} THEN Go(c, "done") /\ UNCHANGED cm
     ELSE \E w \in call[c].left :
            /\ cm' \in {[cm EXCEPT ![w] = None]} \cup (IF c \in Unreliable THEN {cm} ELSE {})
            /\ call' = [call EXCEPT ![c].left = @ \ {w}]
  /\ UNCHANGED <<cr, clock, last, owned, mixed>>

\* list_workers of one status: an object without a status matches none.
list_workers(status) == {w \in Worker : cr[w] # None /\ cr[w].status # None /\ cr[w].status.status = status}

\* The collection pass of the reaper: it lists, then removes what was STALE.
ReapList(c) ==
  /\ Kind[c] = "reap" /\ At(c, "idle")
  /\ call' = [call EXCEPT ![c] = [@ EXCEPT !.pc = "reaping", !.left = list_workers("STALE")]]
  /\ mixed' = mixed \cup (Publishing \cap list_workers("STALE"))
  /\ UNCHANGED <<cr, cm, clock, last, owned>>

ReapRemove(c) ==
  /\ At(c, "reaping")
  /\ IF call[c].left = {} THEN Go(c, "done") /\ UNCHANGED <<cr, last, owned>>
     ELSE \E w \in call[c].left :
            Delete(w) /\ call' = [call EXCEPT ![c].left = @ \ {w}]
  /\ UNCHANGED <<cm, clock, mixed>>

\* The garbage collector removes a ConfigMap whose owner is gone.
CollectConfigMap(w) ==
  /\ cm[w] # None
  /\ cr[w] # None => cr[w].uid # cm[w].owner
  /\ cm' = [cm EXCEPT ![w] = None]
  /\ UNCHANGED <<cr, clock, call, last, owned, mixed>>

-----------------------------------------------------------------------------
(* get_metadata: the object, then its ConfigMap; tensors that cannot be read *)
(* are left out.                                                             *)

GetObject(c) ==
  LET w == Of[c] IN
  /\ Kind[c] = "get" /\ At(c, "idle")
  /\ IF cr[w] = None \/ cr[w].status = None
     THEN Go(c, "done")
     ELSE call' = [call EXCEPT ![c] = [@ EXCEPT !.pc = "tensors", !.status = cr[w].status,
                                                !.clean = w \notin Publishing, !.uid = cr[w].uid]]
  /\ UNCHANGED <<cr, cm, clock, last, owned, mixed>>

GetTensors(c) ==
  LET w == Of[c] IN
  /\ Kind[c] = "get" /\ At(c, "tensors")
  /\ call' = [call EXCEPT ![c] = [@ EXCEPT
       !.pc = "done",
       !.left = IF cm[w] = None THEN {} ELSE {cm[w].payload},
       !.clean = call[c].clean /\ w \notin Publishing /\ cr[w] # None /\ cr[w].uid = call[c].uid
                   /\ cr[w].status.payload = call[c].status.payload]]
  /\ UNCHANGED <<cr, cm, clock, last, owned, mixed>>

\* A request fails, or its answer is lost: the call returns an error.
RequestFails(c) ==
  /\ c \in Unreliable /\ Running(c)
  /\ Fails(c)
  /\ UNCHANGED <<cr, cm, clock, last, owned>>

Next ==
  \/ \E c \in Call :
       \/ PublishStart(c) \/ PublishCreate(c) \/ PublishGet(c) \/ PublishLabel(c)
       \/ PublishPod(c) \/ UpsertConfigMap(c) \/ PatchConfigMap(c)
       \/ ReadForPublish(c) \/ PatchPublication(c) \/ ReadForUpdate(c) \/ PatchUpdate(c)
       \/ remove_worker(c) \/ RemoveMetadataList(c) \/ RemoveMetadataObject(c)
       \/ RemoveMetadataSweep(c) \/ RemoveMetadataConfigMap(c) \/ ReapList(c) \/ ReapRemove(c)
       \/ GetObject(c) \/ GetTensors(c) \/ RequestFails(c)
  \/ \E w \in Worker : CollectConfigMap(w)

Spec == Init /\ [][Next]_vars

\* What is written, and that it is never None.
StatusRecord == [payload : Call, status : {NewStatus[c] : c \in Call}, ready : BOOLEAN]
ObjectRecord ==
  [uid : Nat, rv : Nat, label : {None} \cup {Owner[c] : c \in Call},
   pod : {None} \cup {Pod[c] : c \in Call}, status : StatusRecord \cup {None}]
TensorRecord == [payload : Call, owner : Nat \cup {None}]

WellFormed ==
  /\ None \notin StatusRecord \cup ObjectRecord \cup TensorRecord
  /\ \A c \in Call : Kind[c] \in {"publish", "update", "removeWorker", "get"} => Of[c] \in Worker

-----------------------------------------------------------------------------
\* A publication stands until the next one or a removal: a status update that
\* read the object before it is refused and never puts the older payload back.
PublicationKept ==
  \A w \in Worker : cr[w] # None /\ cr[w].status # None => cr[w].status.payload = last[w]

\* The Ready condition of an object is that of the status next to it.
ReadyAgrees ==
  \A w \in Worker : cr[w] # None /\ cr[w].status # None =>
    (cr[w].status.ready <=> cr[w].status.status = "READY")

\* An object keeps the owner it was created with, whoever publishes.
OwnerKept == \A w \in Worker : cr[w] # None /\ owned[w] # None => cr[w].label = owned[w]

\* Between publications, an object with a status has the tensors of its
\* publication, unless a removal or another publication overlapped one.
TensorsKept ==
  \A w \in Worker \ (mixed \cup Publishing) :
    cr[w] # None /\ cr[w].status # None =>
      cm[w] # None /\ cm[w].payload = cr[w].status.payload /\ cm[w].owner = cr[w].uid

\* A read that no publication or removal overlaps returns the tensors of the
\* publication whose status it returns.
ReadsOnePublication ==
  \A c \in Call : Kind[c] = "get" /\ At(c, "done") /\ call[c].status # None
                    /\ call[c].clean /\ Of[c] \notin mixed =>
    call[c].left = {call[c].status.payload}
=============================================================================
