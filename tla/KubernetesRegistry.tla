-------------------------- MODULE KubernetesRegistry --------------------------
(***************************************************************************)
(* The Kubernetes model registry (registry/backend/kubernetes.rs) for one  *)
(* model name: one ModelCacheEntry per provider, and the name-only entry   *)
(* left by an older server.  Every call to the API server is a step, so    *)
(* the callers of several replicas interleave between the read, the local  *)
(* decision and the conditional write of one claim.                        *)
(*                                                                         *)
(* A lease is not a deadline here: a replica counts an owner as lapsed     *)
(* when it has seen the same owner and heartbeat for a whole lease         *)
(* duration.  The version of the write that last set the lease stands for  *)
(* its leaseExpiresAt, which no two writes share.                          *)
(***************************************************************************)
EXTENDS Naturals, Sequences, FiniteSets

CONSTANTS
  Replica,     \* server replicas
  Claim,       \* callers, each with its claim id
  Provider,    \* model providers
  ProviderSeq, \* ALL_PROVIDERS, in the order names are tried
  HomeOf,      \* the replica a caller runs in
  ProviderOf,  \* the provider it asks for
  Legacies,    \* entries an older server may have left under the bare name
  Fault,       \* kinds of faults that may happen
  MaxFaults,   \* how many of them
  MaxVersion,  \* heartbeats stop at this version
  None

VARIABLES
  crs,      \* ModelCacheEntry objects by name
  version,  \* resourceVersion of the last write under a name
  obs,      \* lease_observations of each replica
  pc, read, \* where a caller is, and the object it decides on
  spent,    \* claims handed to a download
  removal,  \* delete_model in progress: its replica and the names left
  faults, budget \* the kinds of faults so far, and how many may follow

vars == <<crs, version, obs, pc, read, spent, removal, faults, budget>>

Name == Provider \cup {"legacy"}
NameOf(c) == ProviderOf[c]
Downloading(claim, beat) == [phase |-> "DOWNLOADING", claim |-> claim, beat |-> beat]
Terminal(s) == [phase |-> s, claim |-> None, beat |-> 0]
NoRead == [version |-> 0, status |-> None, fresh |-> FALSE]
\* The candidate names of a model, provider-scoped ones first.
candidate_cr_names == Append(ProviderSeq, "legacy")

\* No phase was written: the object has no status, or one that a touch made.
Touched == [phase |-> "", claim |-> None, beat |-> 0]
Unset(st) == st = None \/ st.phase = ""

\* MUTANT of status_from_phase: a status that was never written is an unknown phase.
MissingReadsAsError(st) == IF Unset(st) THEN "ERROR" ELSE st.phase

\* A phase that was never written reads as DOWNLOADING.
status_from_phase(st) == IF Unset(st) THEN "DOWNLOADING" ELSE st.phase
Fingerprint(st) == IF st = None THEN <<None, 0>> ELSE <<st.claim, st.beat>>

Fail(k) ==
  /\ k \in Fault /\ budget > 0
  /\ budget' = budget - 1
  /\ faults' = faults \cup {k}
NoFault == UNCHANGED <<faults, budget>>
Without(K) == faults \cap K = {}

Init ==
  /\ \E l \in Legacies : crs = [n \in Name |-> IF n = "legacy" THEN l ELSE None]
  /\ version = [n \in Name |-> 0]
  /\ obs = [r \in Replica |-> [n \in Name |-> None]]
  /\ pc = [c \in Claim |-> "get"]
  /\ read = [c \in Claim |-> NoRead]
  /\ spent = {}
  /\ removal = [by |-> None, names |-> <<>>]
  /\ faults = {} /\ budget = MaxFaults

-----------------------------------------------------------------------------
(* Objects of the API server.  A write moves the resourceVersion.          *)

WriteStatus(n, st) ==
  /\ crs' = [crs EXCEPT ![n].status = st]
  /\ version' = [version EXCEPT ![n] = @ + 1]
CreateCR(n, p) ==
  /\ crs' = [crs EXCEPT ![n] = [provider |-> p, status |-> None]]
  /\ version' = [version EXCEPT ![n] = @ + 1]
KeepObjects == UNCHANGED <<crs, version>>

ForgetObservation(r, n) == obs' = [obs EXCEPT ![r][n] = None]
To(c, label) == pc' = [pc EXCEPT ![c] = label]
\* The answer of a claim: wait and poll again, retry an error, or be served.
Outcome(c, status) ==
  To(c, CASE status = "DOWNLOADED" -> "done" [] status = "ERROR" -> "retry" [] OTHER -> "get")

(* try_claim_for_download *)

\* GET of the provider-scoped object.
ClaimGet(c) == LET n == NameOf(c) IN
  /\ pc[c] = "get"
  /\ IF crs[n] = None
       THEN To(c, "legacy") /\ UNCHANGED read
       ELSE /\ To(c, "examine")
            /\ read' = [read EXCEPT ![c] = [version |-> version[n], status |-> crs[n].status,
                                            fresh |-> FALSE]]
  /\ KeepObjects /\ UNCHANGED <<obs, spent, removal, faults, budget>>

\* MUTANT of LegacyGet: any provider's name-only object is adopted.
LegacyGetAny(c) ==
  /\ pc[c] = "legacy"
  /\ IF crs["legacy"] # None
       THEN /\ To(c, "adopt")
            /\ read' = [read EXCEPT ![c].status = crs["legacy"].status]
       ELSE To(c, "create") /\ UNCHANGED read
  /\ KeepObjects /\ UNCHANGED <<obs, spent, removal, faults, budget>>

\* adopt_legacy_cr reads the name-only object; another provider's is left alone.
LegacyGet(c) ==
  /\ pc[c] = "legacy"
  /\ IF crs["legacy"] # None /\ crs["legacy"].provider = ProviderOf[c]
       THEN /\ To(c, "adopt")
            /\ read' = [read EXCEPT ![c].status = crs["legacy"].status]
       ELSE To(c, "create") /\ UNCHANGED read
  /\ KeepObjects /\ UNCHANGED <<obs, spent, removal, faults, budget>>

\* MUTANT of AdoptCreate: the object is recreated without its status.
AdoptCreateBare(c) == LET n == NameOf(c) IN
  /\ pc[c] = "adopt"
  /\ IF crs[n] = None THEN CreateCR(n, ProviderOf[c]) ELSE KeepObjects
  /\ To(c, "drop")
  /\ UNCHANGED <<obs, read, spent, removal, faults, budget>>

\* It recreates it under the scoped name; a 409 adopts what is there.
AdoptCreate(c) == LET n == NameOf(c) IN
  /\ pc[c] = "adopt"
  /\ IF crs[n] = None
       THEN CreateCR(n, ProviderOf[c]) /\ To(c, "copy")
       ELSE KeepObjects /\ To(c, "drop")
  /\ UNCHANGED <<obs, read, spent, removal, faults, budget>>

\* The status is copied by a merge patch that tests nothing; a 404 is an error.
AdoptCopy(c) == LET n == NameOf(c) st == read[c].status IN
  /\ pc[c] = "copy"
  /\ IF crs[n] = None
       THEN KeepObjects /\ To(c, "get")
       ELSE /\ WriteStatus(n, [phase |-> status_from_phase(st), claim |-> Fingerprint(st)[1],
                               beat |-> Fingerprint(st)[2]])
            /\ To(c, "drop")
  /\ UNCHANGED <<obs, read, spent, removal, faults, budget>>

\* Best-effort delete of the name-only object.
AdoptDrop(c) ==
  /\ pc[c] = "drop"
  /\ \/ crs' = [crs EXCEPT !["legacy"] = None] /\ NoFault
     \/ Fail("error") /\ UNCHANGED crs
  /\ To(c, "adopted")
  /\ UNCHANGED <<version, obs, read, spent, removal>>

\* The answer is what the scoped object says now.
AdoptRead(c) == LET n == NameOf(c) IN
  /\ pc[c] = "adopted"
  /\ Outcome(c, IF crs[n] = None THEN "DOWNLOADING" ELSE status_from_phase(crs[n].status))
  /\ read' = [read EXCEPT ![c] = NoRead]
  /\ KeepObjects /\ UNCHANGED <<obs, spent, removal, faults, budget>>

\* POST: the creator claims the uninitialized object, a loser reads it again.
Create(c) == LET n == NameOf(c) IN
  /\ pc[c] = "create"
  /\ IF crs[n] = None
       THEN /\ CreateCR(n, ProviderOf[c])
            /\ read' = [read EXCEPT ![c] = [version |-> version[n] + 1, status |-> None, fresh |-> TRUE]]
            /\ To(c, "examine")
       ELSE KeepObjects /\ UNCHANGED read /\ To(c, "raced")
  /\ UNCHANGED <<obs, spent, removal, faults, budget>>

Raced(c) == LET n == NameOf(c) IN
  /\ pc[c] = "raced"
  /\ IF crs[n] = None
       THEN To(c, "get") /\ UNCHANGED read
       ELSE /\ read' = [read EXCEPT ![c] = [version |-> version[n], status |-> crs[n].status,
                                            fresh |-> FALSE]]
            /\ To(c, "examine")
  /\ KeepObjects /\ UNCHANGED <<obs, spent, removal, faults, budget>>

(* try_claim_existing: the decision, made on the object as it was read.    *)

\* MUTANT of lease_has_expired: any aged observation counts, whatever it saw.
LeaseExpiredIgnoringHeartbeat(r, n, st) == obs[r][n] # None /\ obs[r][n].aged

\* lease_has_expired: the same fingerprint was first seen a lease ago.
lease_has_expired(r, n, st) ==
  obs[r][n] # None /\ obs[r][n].seen = Fingerprint(st) /\ obs[r][n].aged

\* lease_observation_expired: a new fingerprint starts a new observation.
Observe(r, n, st) ==
  obs' = IF obs[r][n] # None /\ obs[r][n].seen = Fingerprint(st) THEN obs
         ELSE [obs EXCEPT ![r][n] = [seen |-> Fingerprint(st), aged |-> FALSE]]

Examine(c) ==
  LET n == NameOf(c)  r == HomeOf[c]  st == read[c].status
      fresh == read[c].fresh /\ st = None
  IN
  /\ pc[c] = "examine"
  /\ \/ /\ status_from_phase(st) # "DOWNLOADING"
        /\ ForgetObservation(r, n)
        /\ Outcome(c, status_from_phase(st))
        /\ read' = [read EXCEPT ![c] = NoRead]
     \/ /\ status_from_phase(st) = "DOWNLOADING"
        /\ fresh
        /\ To(c, "patch") /\ UNCHANGED <<obs, read>>
     \/ /\ status_from_phase(st) = "DOWNLOADING"
        /\ ~fresh
        /\ IF lease_has_expired(r, n, st)
             THEN To(c, "patch") /\ UNCHANGED <<obs, read>>
             ELSE /\ Observe(r, n, st)
                  /\ To(c, "get") /\ read' = [read EXCEPT ![c] = NoRead]
  /\ KeepObjects /\ UNCHANGED <<spent, removal, faults, budget>>

\* MUTANT of PatchApplies: the patch tests the phase only.
PatchAppliesOnPhase(c) ==
  crs[NameOf(c)] # None /\ status_from_phase(crs[NameOf(c)].status) = "DOWNLOADING"

\* The JSON patch tests the resourceVersion it decided on, and the phase of a
\* status that is there; 409 and 422 read again.
PatchApplies(c) == LET n == NameOf(c) IN
  /\ crs[n] # None /\ version[n] = read[c].version
  /\ crs[n].status # None => crs[n].status.phase = "DOWNLOADING"

Patch(c) == LET n == NameOf(c) IN
  /\ pc[c] = "patch"
  /\ \/ /\ PatchApplies(c)
        /\ WriteStatus(n, Downloading(c, version[n] + 1))
        /\ \/ /\ ForgetObservation(HomeOf[c], n)
              /\ To(c, "owner")
              /\ spent' = spent \cup {c}
              /\ NoFault
           \/ Fail("reply") /\ To(c, "get") /\ UNCHANGED <<obs, spent>>
     \/ /\ ~PatchApplies(c)
        /\ To(c, IF crs[n] = None THEN "get" ELSE "reread")
        /\ KeepObjects /\ UNCHANGED <<obs, spent, faults, budget>>
  /\ read' = [read EXCEPT ![c] = NoRead]
  /\ UNCHANGED removal

Reread(c) == LET n == NameOf(c) IN
  /\ pc[c] = "reread"
  /\ Outcome(c, IF crs[n] = None THEN "DOWNLOADING" ELSE status_from_phase(crs[n].status))
  /\ KeepObjects /\ UNCHANGED <<obs, read, spent, removal, faults, budget>>

(* try_reset_error_for_retry *)

RetryGet(c) == LET n == NameOf(c) IN
  /\ pc[c] = "retry"
  /\ To(c, IF crs[n] # None /\ status_from_phase(crs[n].status) = "ERROR" THEN "reset" ELSE "get")
  /\ KeepObjects /\ UNCHANGED <<obs, read, spent, removal, faults, budget>>

\* The patch tests that the phase is still ERROR.
StillError(n) == crs[n] # None /\ crs[n].status # None /\ crs[n].status.phase = "ERROR"

Reset(c) == LET n == NameOf(c) IN
  /\ pc[c] = "reset"
  /\ \/ /\ StillError(n)
        /\ WriteStatus(n, Downloading(c, version[n] + 1))
        /\ \/ /\ ForgetObservation(HomeOf[c], n)
              /\ To(c, "owner")
              /\ spent' = spent \cup {c}
              /\ NoFault
           \/ Fail("reply") /\ To(c, "get") /\ UNCHANGED <<obs, spent>>
     \/ /\ ~StillError(n)
        /\ To(c, "get")
        /\ KeepObjects /\ UNCHANGED <<obs, spent, faults, budget>>
  /\ UNCHANGED <<read, removal>>

(* The owner. *)

Holds(c) == LET n == NameOf(c) IN
  /\ crs[n] # None /\ crs[n].status # None
  /\ crs[n].status.phase = "DOWNLOADING" /\ crs[n].status.claim = c

\* refresh_download_claim; false stops the download.
Refresh(c) == LET n == NameOf(c) IN
  /\ pc[c] = "owner"
  /\ \/ /\ Holds(c) /\ version[n] < MaxVersion
        /\ WriteStatus(n, Downloading(c, version[n] + 1))
        /\ UNCHANGED pc
     \/ ~Holds(c) /\ KeepObjects /\ To(c, "done")
  /\ UNCHANGED <<obs, read, spent, removal, faults, budget>>

\* finish_download_claim.
Finish(c) == LET n == NameOf(c) IN
  /\ pc[c] = "owner"
  /\ \/ /\ Holds(c)
        /\ \E s \in {"DOWNLOADED", "ERROR"} : WriteStatus(n, Terminal(s))
        /\ ForgetObservation(HomeOf[c], n)
     \/ ~Holds(c) /\ KeepObjects /\ UNCHANGED obs
  /\ To(c, "done")
  /\ UNCHANGED <<read, spent, removal, faults, budget>>

-----------------------------------------------------------------------------
(* The rest of the world. *)

Calling(c) == pc[c] \notin {"owner", "done", "gone"}

\* An API call fails without effect: the claim errs and the caller polls again.
CallFails(c) ==
  /\ Calling(c) /\ pc[c] # "get"
  /\ Fail("error")
  /\ To(c, "get") /\ read' = [read EXCEPT ![c] = NoRead]
  /\ KeepObjects /\ UNCHANGED <<obs, spent, removal>>

\* Some live caller is about to write the object the observation is of.
Attended(n, seen) ==
  \E c \in Claim : /\ NameOf(c) = n
                   /\ \/ pc[c] = "owner" /\ seen[1] = c
                      \/ pc[c] = "copy" /\ seen[1] = None
                      \/ pc[c] \in {"examine", "patch"} /\ read[c].fresh /\ seen[1] = None

Fresh(n, seen) == crs[n] # None /\ Fingerprint(crs[n].status) = seen /\ Attended(n, seen)

\* A lease passes since the observation was made.  The owner renews three times
\* in that time, so its observation outlives the lease only when it is late.
Age(r, n) ==
  /\ obs[r][n] # None /\ ~obs[r][n].aged
  /\ \/ ~Fresh(n, obs[r][n].seen) /\ NoFault
     \/ Fail("late")
  /\ obs' = [obs EXCEPT ![r][n].aged = TRUE]
  /\ KeepObjects /\ UNCHANGED <<pc, read, spent, removal>>

\* touch_model gets one candidate after the other and merges lastUsedAt into the
\* first it found, so any object that is there now may be the one.  The patch
\* tests nothing: a status that was missing now exists and has no phase.
Touch ==
  /\ Fail("touch")
  /\ \E n \in Name :
       /\ crs[n] # None
       /\ WriteStatus(n, IF crs[n].status = None THEN Touched ELSE crs[n].status)
  /\ UNCHANGED <<obs, pc, read, spent, removal>>

\* delete_model starts, then deletes one candidate after the other.
DeleteStart(r) ==
  /\ removal.names = <<>> /\ Fail("delete")
  /\ removal' = [by |-> r, names |-> candidate_cr_names]
  /\ KeepObjects /\ UNCHANGED <<obs, pc, read, spent>>

DeleteNext == LET n == Head(removal.names) IN
  /\ removal.names # <<>>
  /\ \/ /\ crs' = [crs EXCEPT ![n] = None]
        /\ ForgetObservation(removal.by, n)
        /\ removal' = [removal EXCEPT !.names = Tail(@)]
        /\ NoFault
     \/ /\ Fail("error")
        /\ removal' = [removal EXCEPT !.names = <<>>]
        /\ UNCHANGED <<crs, obs>>
  /\ UNCHANGED <<version, pc, read, spent>>

\* A replica restarts: its callers and its observations are gone.
Crash(r) ==
  /\ Fail("crash")
  /\ pc' = [c \in Claim |-> IF HomeOf[c] = r THEN "gone" ELSE pc[c]]
  /\ read' = [c \in Claim |-> IF HomeOf[c] = r THEN NoRead ELSE read[c]]
  /\ obs' = [obs EXCEPT ![r] = [n \in Name |-> None]]
  /\ removal' = IF removal.by = r THEN [removal EXCEPT !.names = <<>>] ELSE removal
  /\ KeepObjects /\ UNCHANGED spent

ClaimStep(c) ==
  \/ ClaimGet(c) \/ LegacyGet(c) \/ AdoptCreate(c) \/ AdoptCopy(c) \/ AdoptDrop(c) \/ AdoptRead(c)
  \/ Create(c) \/ Raced(c) \/ Examine(c) \/ Patch(c) \/ Reread(c) \/ RetryGet(c) \/ Reset(c)
  \/ Finish(c)

Next ==
  \/ \E c \in Claim : ClaimStep(c) \/ Refresh(c) \/ CallFails(c)
  \/ \E r \in Replica, n \in Name : Age(r, n)
  \/ Touch \/ DeleteNext
  \/ \E r \in Replica : DeleteStart(r) \/ Crash(r)

Spec == Init /\ [][Next]_vars

-----------------------------------------------------------------------------
Phase == {"", "DOWNLOADING", "DOWNLOADED", "ERROR"}
CacheStatus == [phase: Phase, claim: Claim \cup {None}, beat: Nat]
Object == [provider: Provider, status: CacheStatus \cup {None}]
Observation == [seen: (Claim \cup {None}) \X Nat, aged: BOOLEAN]
Label == {"get", "legacy", "adopt", "copy", "drop", "adopted", "create", "raced", "examine",
          "patch", "reread", "retry", "reset", "owner", "done", "gone"}

\* An older server knows no claims and no leases.
LegacyObject == [provider: Provider, status: [phase: Phase, claim: {None}, beat: {0}] \cup {None}]

\* What is assumed of the constants.
WellFormed ==
  /\ None \notin Claim /\ None \notin CacheStatus /\ None \notin Object /\ None \notin Observation
  /\ "legacy" \notin Provider /\ ProviderSeq \in Seq(Provider)
  /\ \A c \in Claim : HomeOf[c] \in Replica /\ ProviderOf[c] \in Provider
  /\ Legacies \subseteq LegacyObject \cup {None}
  /\ MaxFaults \in Nat

TypeOK ==
  /\ crs \in [Name -> Object \cup {None}]
  /\ version \in [Name -> Nat]
  /\ obs \in [Replica -> [Name -> Observation \cup {None}]]
  /\ pc \in [Claim -> Label]
  /\ read \in [Claim -> [version: Nat, status: CacheStatus \cup {None}, fresh: BOOLEAN]]
  /\ spent \subseteq Claim
  /\ removal \in [by: Replica \cup {None}, names: Seq(Name)]
  /\ faults \subseteq Fault /\ budget \in Nat

\* While no lease is judged late and nothing is deleted, at most one caller
\* downloads a provider's model, whatever calls fail or replicas crash.
SingleOwner ==
  Without({"late", "delete"}) =>
    \A c, d \in Claim : (pc[c] = "owner" /\ pc[d] = "owner" /\ NameOf(c) = NameOf(d)) => c = d

\* A download recorded under the name-only object is adopted, not repeated: no
\* claim of its provider starts a download unless a call fails on the way.
AdoptedNotRepeated ==
  Without({"late", "delete", "crash", "error", "reply"}) =>
    \A l \in Legacies : (Legacies = {l} /\ l # None /\ l.status # None /\ l.status.phase = "DOWNLOADED") =>
      \A c \in spent : ProviderOf[c] # l.provider

\* A caller is told DOWNLOADED only for a download of its own provider: records
\* of one name never answer for each other, the name-only one included.
AnsweredForOwnProvider ==
  \A c \in Claim : (pc[c] = "done" /\ c \notin spent) =>
    \/ \E d \in spent : ProviderOf[d] = ProviderOf[c]
    \/ \E l \in Legacies : l # None /\ l.provider = ProviderOf[c]

\* A caller that polls is answered, has downloaded itself, or dies with its
\* replica; nobody can claim an object whose status a touch made (PatchApplies).
Polls(c) == pc[c] = "get"
Answered(c) == pc[c] \in {"done", "gone"}
Wedged(c) == LET n == NameOf(c) IN crs[n] # None /\ crs[n].status = Touched

\* The object of provider p as an entry of the claim protocol.
Entry(p) == INSTANCE DownloadClaim WITH
  status <- IF crs[p] = None \/ Unset(crs[p].status) THEN "ABSENT" ELSE crs[p].status.phase,
  holder <- IF crs[p] = None \/ Unset(crs[p].status) THEN None ELSE crs[p].status.claim,
  lapsed <- /\ crs[p] # None /\ crs[p].status # None /\ crs[p].status.phase = "DOWNLOADING"
            /\ \/ \E r \in Replica : lease_has_expired(r, p, crs[p].status)
               \/ \E c \in Claim : NameOf(c) = p /\ pc[c] = "patch" /\ PatchApplies(c),
  spent <- spent
=============================================================================
