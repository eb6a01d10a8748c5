----------------------- MODULE KubernetesRegistryProofs -----------------------
(***************************************************************************)
(* Proofs about the Kubernetes model registry: what every step keeps of    *)
(* its objects and callers, and that answers are about the caller's own    *)
(* provider; that one caller at most downloads a model, that name-only     *)
(* objects are adopted and not repeated, and that every object implements  *)
(* the fenced claim of DownloadClaim.                                      *)
(***************************************************************************)
EXTENDS KubernetesRegistry, TLAPS

\* A status nobody has written a phase to, and what a touch does not change.
Blank(st) == st \in {None, Touched}
SameStatus(a, b) == a = b \/ (Blank(a) /\ Blank(b))
SameObject(a, b) ==
  /\ a = None <=> b = None
  /\ a # None => a.provider = b.provider /\ SameStatus(a.status, b.status)

\* What a caller has read is no newer than the object, and is the object as long
\* as nobody has written it since.
ReadInv(c) == LET n == NameOf(c) IN
  /\ read[c].version <= version[n]
  /\ pc[c] \in {"examine", "patch"} =>
       /\ Fingerprint(read[c].status)[2] <= version[n]
       /\ PatchApplies(c) => crs[n].status = read[c].status
  /\ pc[c] = "patch" => status_from_phase(read[c].status) = "DOWNLOADING"
  /\ read[c].fresh => read[c].status = None /\ pc[c] \in {"examine", "patch"}

\* A status on its way from a name-only object is that of one an older server left.
CopyInv(c) ==
  pc[c] \in {"adopt", "copy", "drop"} =>
    \E l \in Legacies : l # None /\ l.provider = NameOf(c) /\ SameStatus(read[c].status, l.status)

\* A claim is handed out once.
SpentInv(c) ==
  /\ c \in spent => pc[c] \in {"owner", "done", "gone"}
  /\ pc[c] = "owner" => c \in spent

\* Heartbeats are numbered by the versions of the object they are in.
BeatInv(n) ==
  /\ crs[n] # None => Fingerprint(crs[n].status)[2] <= version[n]
  /\ \A r \in Replica : obs[r][n] # None => obs[r][n].seen[2] <= version[n]

Inv ==
  /\ TypeOK
  /\ \A c \in Claim : ReadInv(c) /\ CopyInv(c) /\ SpentInv(c)
  /\ \A n \in Name : BeatInv(n)
  /\ crs["legacy"] # None => \E l \in Legacies : SameObject(crs["legacy"], l)

\* A recorded download has an owner or an older server behind it.
Origin(n) ==
  \/ \E d \in spent : NameOf(d) = n
  \/ \E l \in Legacies : l # None /\ l.provider = n
Done(st) == st # None /\ st.phase = "DOWNLOADED"

OriginInv ==
  /\ \A n \in Provider : crs[n] # None /\ Done(crs[n].status) => Origin(n)
  /\ \A c \in Claim : /\ Done(read[c].status) => Origin(NameOf(c))
                      /\ pc[c] = "done" => Origin(NameOf(c))

-----------------------------------------------------------------------------
(* Types                                                                   *)

\* The fingerprint of a status names a claim and a heartbeat.
LEMMA FingerprintType ==
  ASSUME NEW st \in CacheStatus \cup {None}
  PROVE  Fingerprint(st) \in (Claim \cup {None}) \X Nat
BY Zenon DEF Fingerprint, CacheStatus

\* The status a claim, a finished download or an adopted one is stored with.
LEMMA StatusType ==
  ASSUME WellFormed
  PROVE  /\ \A c \in Claim, b \in Nat : Downloading(c, b) \in CacheStatus
         /\ \A s \in {"DOWNLOADED", "ERROR"} : Terminal(s) \in CacheStatus
         /\ \A st \in CacheStatus \cup {None} :
              [phase |-> status_from_phase(st), claim |-> Fingerprint(st)[1],
               beat |-> Fingerprint(st)[2]] \in CacheStatus
BY ZenonT(30) DEF Downloading, Terminal, CacheStatus, Phase, status_from_phase, Unset, Fingerprint

\* So is the status a touch makes.
LEMMA TouchedType == Touched \in CacheStatus /\ Touched.phase = "" /\ Touched.claim = None /\ Touched.beat = 0
BY SMT DEF Touched, CacheStatus, Phase

\* Writes of the API server keep the objects typed.
LEMMA ObjectTypes ==
  ASSUME WellFormed, TypeOK, NEW n \in Name
  PROVE  /\ \A st \in CacheStatus : crs[n] # None /\ WriteStatus(n, st) =>
              crs' \in [Name -> Object \cup {None}] /\ version' \in [Name -> Nat]
         /\ \A p \in Provider : CreateCR(n, p) =>
              crs' \in [Name -> Object \cup {None}] /\ version' \in [Name -> Nat]
         /\ KeepObjects => crs' \in [Name -> Object \cup {None}] /\ version' \in [Name -> Nat]
<1>1. ASSUME NEW st \in CacheStatus, crs[n] # None, WriteStatus(n, st)
      PROVE  crs' \in [Name -> Object \cup {None}] /\ version' \in [Name -> Nat]
  <2>1. crs[n] \in Object
    BY <1>1, Zenon DEF TypeOK
  <2>2. [crs[n] EXCEPT !.status = st] \in Object
    BY <2>1, Zenon DEF Object
  <2>3. crs' = [crs EXCEPT ![n] = [crs[n] EXCEPT !.status = st]]
    BY <1>1, Zenon DEF WriteStatus
  <2> QED
    BY <1>1, <2>2, <2>3 DEF TypeOK, WriteStatus
<1>2. ASSUME NEW p \in Provider, CreateCR(n, p)
      PROVE  crs' \in [Name -> Object \cup {None}] /\ version' \in [Name -> Nat]
  <2>1. [provider |-> p, status |-> None] \in Object
    BY Zenon DEF Object
  <2> QED
    BY <1>2, <2>1 DEF TypeOK, CreateCR
<1> QED
  BY <1>1, <1>2, Zenon DEF TypeOK, KeepObjects

\* The outcome of a claim.
LEMMA OutcomeLabel ==
  ASSUME NEW c, NEW s, Outcome(c, s)
  PROVE  \/ To(c, "done") /\ s = "DOWNLOADED"
         \/ To(c, "retry") \/ To(c, "get")
BY Zenon DEF Outcome

\* A step of a caller moves that caller alone and keeps the types of the rest.
LEMMA CallerTypes ==
  ASSUME WellFormed, TypeOK, NEW c \in Claim, ClaimStep(c) \/ Refresh(c) \/ CallFails(c)
  PROVE  /\ TypeOK'
         /\ \A d \in Claim : d # c => pc'[d] = pc[d] /\ read'[d] = read[d]
<1> DEFINE Read == [version: Nat, status: CacheStatus \cup {None}, fresh: BOOLEAN]
<1> DEFINE n == NameOf(c)
<1> DEFINE Objects == crs' \in [Name -> Object \cup {None}] /\ version' \in [Name -> Nat]
<1> DEFINE Moves == pc' \in [Claim -> Label] /\ \A d \in Claim : d # c => pc'[d] = pc[d]
<1> DEFINE Reads == read' \in [Claim -> Read] /\ \A d \in Claim : d # c => read'[d] = read[d]
<1> DEFINE Observes == obs' \in [Replica -> [Name -> Observation \cup {None}]]
<1> DEFINE Spends == spent' = spent \/ spent' = spent \cup {c}
<1> DEFINE Fails == (faults' = faults /\ budget' = budget) \/ \E k : Fail(k)
<1>1. n \in Name /\ n \in Provider /\ HomeOf[c] \in Replica /\ version[n] \in Nat
  BY Zenon DEF WellFormed, NameOf, Name, TypeOK
<1>2. Objects
  <2>1. CASE KeepObjects
    BY <1>1, <2>1, ObjectTypes, Zenon
  <2>2. CASE crs[n] # None /\ \E st \in CacheStatus : WriteStatus(n, st)
    BY <1>1, <2>2, ObjectTypes, Zenon
  <2>3. CASE CreateCR(n, ProviderOf[c])
    BY <1>1, <2>3, ObjectTypes, Zenon DEF WellFormed
  <2>4. CASE AdoptDrop(c)
    BY <2>4, Zenon DEF AdoptDrop, TypeOK
  <2>5. ASSUME AdoptCopy(c) PROVE KeepObjects \/ (crs[n] # None /\ \E st \in CacheStatus : WriteStatus(n, st))
    BY <2>5, StatusType, Zenon DEF AdoptCopy, TypeOK
  <2>6. ASSUME Patch(c) \/ Reset(c) \/ Refresh(c) \/ Finish(c)
        PROVE  KeepObjects \/ (crs[n] # None /\ \E st \in CacheStatus : WriteStatus(n, st))
    BY <1>1, <2>6, StatusType DEF Patch, PatchApplies, Reset, StillError, Refresh, Finish, Holds
  <2>7. ASSUME ~KeepObjects, ~CreateCR(n, ProviderOf[c]), ~AdoptDrop(c)
        PROVE  AdoptCopy(c) \/ Patch(c) \/ Reset(c) \/ Refresh(c) \/ Finish(c)
    BY <2>7, Zenon DEF ClaimStep, CallFails, ClaimGet, LegacyGet, AdoptCreate, AdoptRead, Create, Raced, Examine,
         Reread, RetryGet
  <2> HIDE DEF n, Objects
  <2> QED
    BY <2>1, <2>2, <2>3, <2>4, <2>5, <2>6, <2>7, Zenon
<1>3. Moves
  <2>2. ASSUME NEW l \in Label, To(c, l) PROVE Moves
    BY <2>2, Zenon DEF To, TypeOK
  <2>1. ASSUME NEW s, Outcome(c, s) PROVE Moves
    <3>1. "done" \in Label /\ "retry" \in Label /\ "get" \in Label
      BY Zenon DEF Label
    <3> QED
      BY <2>1, <2>2, <3>1, OutcomeLabel, Zenon
  <2>3. {"get", "legacy", "adopt", "copy", "drop", "adopted", "create", "raced", "examine",
          "patch", "reread", "retry", "reset", "owner", "done", "gone"} \subseteq Label
    BY Zenon DEF Label
  <2>4. UNCHANGED pc => Moves
    BY Zenon DEF TypeOK
  <2> HIDE DEF Moves
  <2> QED
    BY <2>1, <2>2, <2>3, <2>4, ZenonT(30) DEF ClaimStep, CallFails, ClaimGet, LegacyGet, AdoptCreate,
         AdoptCopy, AdoptDrop, AdoptRead, Create, Raced, Examine, Reread, RetryGet, Patch, Reset, Refresh, Finish
<1>4. Reads
  <2>0. ASSUME NEW x \in Read, read' = [read EXCEPT ![c] = x]
        PROVE  Reads
    BY <2>0, Zenon DEF TypeOK
  <2>1. NoRead \in Read
    BY Zenon DEF NoRead, CacheStatus
  <2>2. crs[n] # None => crs[n].status \in CacheStatus \cup {None}
    BY <1>1, Zenon DEF TypeOK, Object
  <2>6. UNCHANGED read => Reads
    BY Zenon DEF TypeOK
  <2>3. ASSUME ClaimGet(c) \/ Raced(c) \/ Create(c)
        PROVE  Reads
    <3>1. CASE Create(c)
      <4>1. [version |-> version[n] + 1, status |-> None, fresh |-> TRUE] \in Read
        BY <1>1
      <4> QED
        BY <2>0, <2>6, <3>1, <4>1, Zenon DEF Create
    <3>2. CASE ~Create(c) /\ crs[n] # None
      <4>1. [version |-> version[n], status |-> crs[n].status, fresh |-> FALSE] \in Read
        BY <1>1, <2>2, <3>2, Zenon
      <4> QED
        BY <2>0, <2>3, <2>6, <3>2, <4>1, Zenon DEF ClaimGet, Raced
    <3>3. CASE ~Create(c) /\ crs[n] = None
      BY <2>3, <2>6, <3>3, Zenon DEF ClaimGet, Raced
    <3> QED
      BY <3>1, <3>2, <3>3, Zenon
  <2>4. ASSUME LegacyGet(c)
        PROVE  Reads
    <3>1. crs["legacy"] # None => crs["legacy"].status \in CacheStatus \cup {None}
      BY Zenon DEF TypeOK, Name, Object
    <3>2. crs["legacy"] # None => [read[c] EXCEPT !.status = crs["legacy"].status] \in Read
      BY <3>1, ZenonT(30) DEF TypeOK
    <3> QED
      <4>1. \/ read' = read
            \/ crs["legacy"] # None /\ read' = [read EXCEPT ![c] = [read[c] EXCEPT !.status = crs["legacy"].status]]
        BY <2>4, Zenon DEF LegacyGet
      <4> QED
        BY <2>0, <2>6, <3>2, <4>1, Zenon
  <2>5. ASSUME ~ClaimGet(c), ~LegacyGet(c), ~Raced(c), ~Create(c)
        PROVE  read' = read \/ read' = [read EXCEPT ![c] = NoRead]
    BY <2>5, ZenonT(30) DEF ClaimStep, CallFails, AdoptCreate,
         AdoptCopy, AdoptDrop, AdoptRead, Examine, Reread, RetryGet, Patch, Reset, Refresh, Finish
  <2> HIDE DEF Reads, Read
  <2> QED
    BY <2>0, <2>1, <2>3, <2>4, <2>5, <2>6, Zenon
<1>5. Observes
  <2>0. ASSUME NEW o \in Observation \cup {None}, obs' = [obs EXCEPT ![HomeOf[c]][n] = o]
        PROVE  Observes
    BY <1>1, <2>0, Zenon DEF TypeOK
  <2>3. obs' = obs => Observes
    BY Zenon DEF TypeOK
  <2>1. ForgetObservation(HomeOf[c], n) => Observes
    BY <2>0, Zenon DEF ForgetObservation
  <2>2. ASSUME Observe(HomeOf[c], n, read[c].status)
        PROVE  Observes
    <3>1. Fingerprint(read[c].status) \in (Claim \cup {None}) \X Nat
      BY FingerprintType, Zenon DEF TypeOK
    <3>2. [seen |-> Fingerprint(read[c].status), aged |-> FALSE] \in Observation
      BY <3>1, Zenon DEF Observation
    <3> QED
      BY <2>0, <2>2, <2>3, <3>2, Zenon DEF Observe
  <2> HIDE DEF Observes
  <2> QED
    BY <2>1, <2>2, <2>3, ZenonT(30) DEF ClaimStep, CallFails, ClaimGet, LegacyGet, AdoptCreate,
         AdoptCopy, AdoptDrop, AdoptRead, Create, Raced, Examine, Reread, RetryGet, Patch, Reset, Refresh, Finish
<1>6. Spends /\ Fails /\ removal' = removal
  BY ZenonT(30) DEF ClaimStep, CallFails, ClaimGet, LegacyGet, AdoptCreate, NoFault,
         AdoptCopy, AdoptDrop, AdoptRead, Create, Raced, Examine, Reread, RetryGet, Patch, Reset, Refresh, Finish
<1>10. spent' \subseteq Claim /\ faults' \subseteq Fault /\ budget' \in Nat
  BY <1>6, SMTT(30) DEF TypeOK, Fail
<1> QED
  BY <1>2, <1>3, <1>4, <1>5, <1>6, <1>10, Zenon DEF TypeOK

\* The names tried are those of the providers and the bare one.
LEMMA CandidateNames ==
  ASSUME WellFormed
  PROVE  /\ candidate_cr_names \in Seq(Name)
         /\ \A i \in DOMAIN candidate_cr_names : candidate_cr_names[i] \in Name
<1>1. ProviderSeq \in Seq(Name) /\ "legacy" \in Name
  BY DEF WellFormed, Name
<1> QED
  BY <1>1 DEF candidate_cr_names

\* So do leases running out, touches, deletions and crashes.
LEMMA EnvironmentTypes ==
  ASSUME WellFormed, TypeOK,
         \/ \E r \in Replica, n \in Name : Age(r, n)
         \/ Touch \/ DeleteNext
         \/ \E r \in Replica : DeleteStart(r) \/ Crash(r)
         \/ UNCHANGED vars
  PROVE  TypeOK'
<1> DEFINE Read == [version: Nat, status: CacheStatus \cup {None}, fresh: BOOLEAN]
<1>1. ASSUME NEW r \in Replica, NEW n \in Name, Age(r, n)
      PROVE  TypeOK'
  <2>1. obs[r][n] \in Observation
    BY <1>1 DEF Age, TypeOK
  <2>2. [obs[r][n] EXCEPT !.aged = TRUE] \in Observation
    BY <2>1, ZenonT(30) DEF Observation
  <2>3. obs' = [obs EXCEPT ![r] = [obs[r] EXCEPT ![n] = [obs[r][n] EXCEPT !.aged = TRUE]]]
    BY <1>1, Zenon DEF Age
  <2>4. obs' \in [Replica -> [Name -> Observation \cup {None}]]
    BY <2>2, <2>3, Zenon DEF TypeOK
  <2>5. faults' \subseteq Fault /\ budget' \in Nat
    BY <1>1 DEF Age, NoFault, Fail, TypeOK
  <2> QED
    BY <1>1, <2>4, <2>5, Zenon DEF Age, KeepObjects, TypeOK
<1>2. CASE Touch
  <2>1. faults' \subseteq Fault /\ budget' \in Nat
    BY <1>2 DEF Touch, Fail, TypeOK
  <2>2. PICK n \in Name : crs[n] # None /\ WriteStatus(n, IF crs[n].status = None THEN Touched ELSE crs[n].status)
    BY <1>2, Zenon DEF Touch
  <2>3. (IF crs[n].status = None THEN Touched ELSE crs[n].status) \in CacheStatus
    BY <2>2, TouchedType, Zenon DEF TypeOK, Object
  <2>4. crs' \in [Name -> Object \cup {None}] /\ version' \in [Name -> Nat]
    BY <2>2, <2>3, ObjectTypes, Zenon
  <2> QED
    BY <1>2, <2>1, <2>4, Zenon DEF Touch, TypeOK
<1>3. CASE DeleteNext
  <2>1. faults' \subseteq Fault /\ budget' \in Nat
    BY <1>3 DEF DeleteNext, NoFault, Fail, TypeOK
  <2>2. removal.by \in Replica \cup {None} /\ removal.names \in Seq(Name) /\ removal.names # <<>>
        /\ removal = [by |-> removal.by, names |-> removal.names]
    BY <1>3, Zenon DEF DeleteNext, TypeOK
  <2>3. removal' \in [by: Replica \cup {None}, names: Seq(Name)]
    <3>1. Tail(removal.names) \in Seq(Name) /\ <<>> \in Seq(Name)
      BY <2>2
    <3>2. \/ removal' = [removal EXCEPT !.names = Tail(removal.names)]
          \/ removal' = [removal EXCEPT !.names = <<>>]
      BY <1>3, Zenon DEF DeleteNext
    <3> QED
      BY <2>2, <3>1, <3>2, ZenonT(30)
  <2>4. crs' \in [Name -> Object \cup {None}]
    BY <1>3, Zenon DEF DeleteNext, TypeOK
  <2>5. obs' \in [Replica -> [Name -> Observation \cup {None}]]
    <3>1. obs' = obs \/ ForgetObservation(removal.by, Head(removal.names))
      BY <1>3, Zenon DEF DeleteNext
    <3>2. Head(removal.names) \in Name
      BY <2>2
    <3>3. CASE removal.by \in Replica
      <4>1. ASSUME NEW r \in Replica, NEW n \in Name, ForgetObservation(r, n)
            PROVE  obs' \in [Replica -> [Name -> Observation \cup {None}]]
        BY <4>1, Zenon DEF ForgetObservation, TypeOK
      <4> QED
        BY <3>1, <3>2, <3>3, <4>1, Zenon DEF TypeOK
    <3>4. CASE removal.by \notin Replica
      <4>1. \A x : [obs EXCEPT ![removal.by] = x] = obs
        BY <3>4, ZenonT(40) DEF TypeOK
      <4> QED
        BY <3>1, <4>1, ZenonT(30) DEF ForgetObservation, TypeOK
    <3> QED
      BY <3>3, <3>4, Zenon
  <2> QED
    BY <1>3, <2>1, <2>3, <2>4, <2>5, Zenon DEF DeleteNext, TypeOK
<1>4. ASSUME NEW r \in Replica, DeleteStart(r)
      PROVE  TypeOK'
  <2>1. faults' \subseteq Fault /\ budget' \in Nat
    BY <1>4 DEF DeleteStart, Fail, TypeOK
  <2>2. removal' \in [by: Replica \cup {None}, names: Seq(Name)]
    BY <1>4, CandidateNames, Zenon DEF DeleteStart
  <2> QED
    BY <1>4, <2>1, <2>2, Zenon DEF DeleteStart, KeepObjects, TypeOK
<1>5. ASSUME NEW r \in Replica, Crash(r)
      PROVE  TypeOK'
  <2>1. faults' \subseteq Fault /\ budget' \in Nat
    BY <1>5 DEF Crash, Fail, TypeOK
  <2>2. removal' \in [by: Replica \cup {None}, names: Seq(Name)]
    <3>1. <<>> \in Seq(Name)
      OBVIOUS
    <3>2. removal' = removal \/ removal' = [removal EXCEPT !.names = <<>>]
      BY <1>5, Zenon DEF Crash
    <3> QED
      BY <3>1, <3>2, ZenonT(30) DEF TypeOK
  <2>3. pc' \in [Claim -> Label]
    BY <1>5, Zenon DEF Crash, TypeOK, Label
  <2>4. read' \in [Claim -> Read]
    <3>1. NoRead \in Read
      BY Zenon DEF NoRead
    <3> QED
      BY <1>5, <3>1, Zenon DEF Crash, TypeOK
  <2>5. obs' \in [Replica -> [Name -> Observation \cup {None}]]
    BY <1>5, Zenon DEF Crash, TypeOK
  <2> QED
    BY <1>5, <2>1, <2>2, <2>3, <2>4, <2>5, Zenon DEF Crash, KeepObjects, TypeOK
<1>6. CASE UNCHANGED vars
  BY <1>6, Zenon DEF vars, TypeOK
<1> QED
  BY <1>1, <1>2, <1>3, <1>4, <1>5, <1>6, Zenon
-----------------------------------------------------------------------------
(* Objects, versions and what callers have read of them                    *)

\* The names of callers and objects.
LEMMA CallerNames ==
  ASSUME WellFormed, TypeOK, NEW c \in Claim
  PROVE  /\ NameOf(c) \in Provider /\ NameOf(c) \in Name /\ NameOf(c) # "legacy"
         /\ HomeOf[c] \in Replica /\ NameOf(c) = ProviderOf[c]
         /\ version[NameOf(c)] \in Nat /\ "legacy" \in Name
BY Zenon DEF WellFormed, NameOf, Name, TypeOK

\* What a write of the API server does to each object.
LEMMA ObjectWrites ==
  ASSUME WellFormed, TypeOK, NEW n \in Name
  PROVE  /\ \A st \in CacheStatus : crs[n] # None /\ WriteStatus(n, st) =>
              /\ crs'[n] # None /\ crs'[n].status = st /\ crs'[n].provider = crs[n].provider
              /\ version'[n] = version[n] + 1
              /\ \A m \in Name : m # n => crs'[m] = crs[m] /\ version'[m] = version[m]
         /\ \A p \in Provider : CreateCR(n, p) =>
              /\ crs'[n] # None /\ crs'[n].status = None /\ version'[n] = version[n] + 1
              /\ \A m \in Name : m # n => crs'[m] = crs[m] /\ version'[m] = version[m]
<1>1. ASSUME NEW st \in CacheStatus, crs[n] # None, WriteStatus(n, st)
      PROVE  /\ crs'[n] # None /\ crs'[n].status = st /\ crs'[n].provider = crs[n].provider
             /\ version'[n] = version[n] + 1
             /\ \A m \in Name : m # n => crs'[m] = crs[m] /\ version'[m] = version[m]
  <2>1. crs[n] \in Object
    BY <1>1, Zenon DEF TypeOK
  <2>2. [crs[n] EXCEPT !.status = st] \in Object /\ [crs[n] EXCEPT !.status = st].status = st
        /\ [crs[n] EXCEPT !.status = st].provider = crs[n].provider
    BY <2>1, Zenon DEF Object
  <2>3. crs' = [crs EXCEPT ![n] = [crs[n] EXCEPT !.status = st]]
    BY <1>1, Zenon DEF WriteStatus
  <2>4. crs'[n] = [crs[n] EXCEPT !.status = st] /\ \A m \in Name : m # n => crs'[m] = crs[m]
    BY <2>3, Zenon DEF TypeOK
  <2> QED
    BY <1>1, <2>2, <2>4, ZenonT(30) DEF TypeOK, WriteStatus, WellFormed
<1>2. ASSUME NEW p \in Provider, CreateCR(n, p)
      PROVE  /\ crs'[n] # None /\ crs'[n].status = None /\ version'[n] = version[n] + 1
             /\ \A m \in Name : m # n => crs'[m] = crs[m] /\ version'[m] = version[m]
  <2>1. [provider |-> p, status |-> None] \in Object
    BY Zenon DEF Object
  <2> QED
    BY <1>2, <2>1, Zenon DEF TypeOK, CreateCR, WellFormed
<1> QED
  BY <1>1, <1>2, Zenon

\* How the caller's label and what it has read are written.
LEMMA CallerWrite ==
  ASSUME TypeOK, NEW c \in Claim
  PROVE  /\ \A l : To(c, l) => pc'[c] = l
         /\ \A x : read' = [read EXCEPT ![c] = x] => read'[c] = x
BY Zenon DEF To, TypeOK

\* A downloaded phase is that of a recorded download.
LEMMA DonePhase == \A st : status_from_phase(st) = "DOWNLOADED" => Done(st)
BY Zenon DEF status_from_phase, Unset, Done

\* Statuses that differ by a touch read alike.
LEMMA SameReads ==
  ASSUME NEW a, NEW b, SameStatus(a, b)
  PROVE  /\ Fingerprint(a) = Fingerprint(b)
         /\ Unset(a) <=> Unset(b)
         /\ Blank(a) <=> Blank(b)
         /\ Done(a) <=> Done(b)
         /\ ~Blank(a) => a = b
<1>1. Blank(a) /\ Blank(b) => Fingerprint(a) = <<None, 0>> /\ Fingerprint(b) = <<None, 0>>
  BY TouchedType, Zenon DEF Blank, Fingerprint
<1>2. \A st : Blank(st) => Unset(st) /\ ~Done(st)
  BY TouchedType, Zenon DEF Blank, Unset, Done
<1> QED
  BY <1>1, <1>2, Zenon DEF SameStatus

\* A touch moves the version of one object and changes none but for a missing status.
LEMMA TouchMoves ==
  ASSUME WellFormed, TypeOK, Touch
  PROVE  /\ \A m \in Name : SameObject(crs'[m], crs[m])
         /\ \E n \in Name : /\ version'[n] = version[n] + 1
                            /\ \A m \in Name : m # n => crs'[m] = crs[m] /\ version'[m] = version[m]
<1>1. PICK n \in Name : crs[n] # None /\ WriteStatus(n, IF crs[n].status = None THEN Touched ELSE crs[n].status)
  BY Zenon DEF Touch
<1> DEFINE st == IF crs[n].status = None THEN Touched ELSE crs[n].status
<1>2. st \in CacheStatus
  BY <1>1, TouchedType, Zenon DEF TypeOK, Object
<1>3. /\ crs'[n] # None /\ crs'[n].status = st /\ crs'[n].provider = crs[n].provider
      /\ version'[n] = version[n] + 1
      /\ \A m \in Name : m # n => crs'[m] = crs[m] /\ version'[m] = version[m]
  <2> HIDE DEF st
  <2>1. WriteStatus(n, st)
    BY <1>1, Zenon DEF st
  <2> QED
    BY <1>1, <1>2, <2>1, ObjectWrites, Zenon
<1>4. SameStatus(st, crs[n].status)
  BY Zenon DEF SameStatus, Blank
<1>5. SameObject(crs'[n], crs[n])
  BY <1>1, <1>3, <1>4, Zenon DEF SameObject
<1>6. \A m \in Name : m # n => SameObject(crs'[m], crs[m])
  BY <1>3, Zenon DEF SameObject, SameStatus
<1> QED
  BY <1>3, <1>5, <1>6, Zenon

\* Where an answer about a status leaves the caller.
LEMMA OutcomeMoves ==
  ASSUME TypeOK, NEW c \in Claim, NEW s, Outcome(c, s)
  PROVE  pc'[c] \in {"done", "retry", "get"} /\ (pc'[c] = "done" => s = "DOWNLOADED")
BY CallerWrite, OutcomeLabel, Zenon

\* Reading the object of the caller's model.
LEMMA ReadObject ==
  ASSUME TypeOK, NEW c \in Claim, crs[NameOf(c)] # None, ClaimGet(c) \/ Raced(c)
  PROVE  LET n == NameOf(c) IN
         /\ pc'[c] = "examine" /\ read'[c].version = version[n]
         /\ read'[c].status = crs[n].status /\ read'[c].fresh = FALSE
<1> DEFINE n == NameOf(c)
           x == [version |-> version[n], status |-> crs[n].status, fresh |-> FALSE]
<1>1. x.version = version[n] /\ x.status = crs[n].status /\ x.fresh = FALSE
  BY Zenon
<1>2. read' = [read EXCEPT ![c] = x] /\ To(c, "examine")
  BY Zenon DEF ClaimGet, Raced
<1> HIDE DEF x
<1> QED
  BY <1>1, <1>2, CallerWrite, Zenon

\* The first read of a claim finds the object or turns to the name-only one.
LEMMA ClaimGetMoves ==
  ASSUME TypeOK, NEW c \in Claim, ClaimGet(c)
  PROVE  LET n == NameOf(c) IN
         \/ crs[n] = None /\ pc'[c] = "legacy" /\ read'[c] = read[c]
         \/ /\ crs[n] # None /\ pc'[c] = "examine" /\ read'[c].version = version[n]
            /\ read'[c].status = crs[n].status /\ read'[c].fresh = FALSE
<1>1. CASE crs[NameOf(c)] = None
  BY <1>1, CallerWrite, Zenon DEF ClaimGet
<1> QED
  BY <1>1, ReadObject, ZenonT(30)

\* A caller that lost the race to create reads what the winner created.
LEMMA RacedMoves ==
  ASSUME TypeOK, NEW c \in Claim, Raced(c)
  PROVE  LET n == NameOf(c) IN
         \/ crs[n] = None /\ pc'[c] = "get" /\ read'[c] = read[c]
         \/ /\ crs[n] # None /\ pc'[c] = "examine" /\ read'[c].version = version[n]
            /\ read'[c].status = crs[n].status /\ read'[c].fresh = FALSE
<1>1. CASE crs[NameOf(c)] = None
  BY <1>1, CallerWrite, Zenon DEF Raced
<1> QED
  BY <1>1, ReadObject, ZenonT(30)

\* A name-only object of the caller's provider is taken up.
LEMMA LegacyGetMoves ==
  ASSUME TypeOK, NEW c \in Claim, LegacyGet(c)
  PROVE  \/ /\ crs["legacy"] # None /\ crs["legacy"].provider = NameOf(c) /\ pc'[c] = "adopt"
            /\ read'[c].version = read[c].version /\ read'[c].fresh = read[c].fresh
            /\ read'[c].status = crs["legacy"].status
         \/ /\ ~(crs["legacy"] # None /\ crs["legacy"].provider = NameOf(c))
            /\ pc'[c] = "create" /\ read'[c] = read[c]
<1> DEFINE n == NameOf(c)
<1>1. n = ProviderOf[c]
  BY Zenon DEF NameOf
<1>2. CASE crs["legacy"] # None /\ crs["legacy"].provider = n
  <2>1. /\ To(c, "adopt")
        /\ read' = [read EXCEPT ![c] = [read[c] EXCEPT !.status = crs["legacy"].status]]
    BY <1>1, <1>2, Zenon DEF LegacyGet
  <2>2. read'[c] = [read[c] EXCEPT !.status = crs["legacy"].status] /\ pc'[c] = "adopt"
    BY <2>1, CallerWrite, Zenon
  <2> QED
    BY <1>2, <2>2 DEF TypeOK
<1>3. CASE ~(crs["legacy"] # None /\ crs["legacy"].provider = n)
  BY <1>1, <1>3, CallerWrite, Zenon DEF LegacyGet
<1> QED
  BY <1>2, <1>3, Zenon

\* What an adopter and a caller whose patch was refused read decides their answer.
LEMMA AnswerRead ==
  ASSUME TypeOK, NEW c \in Claim, AdoptRead(c) \/ Reread(c)
  PROVE  /\ pc'[c] \in {"done", "retry", "get"}
         /\ pc'[c] = "done" => crs[NameOf(c)] # None /\ Done(crs[NameOf(c)].status)
<1> DEFINE n == NameOf(c)
<1>1. Outcome(c, IF crs[n] = None THEN "DOWNLOADING" ELSE status_from_phase(crs[n].status))
  BY Zenon DEF AdoptRead, Reread
<1>2. \A s : (IF crs[n] = None THEN "DOWNLOADING" ELSE s) = "DOWNLOADED" => crs[n] # None /\ s = "DOWNLOADED"
  BY Zenon
<1> QED
  BY <1>1, <1>2, OutcomeMoves, DonePhase, Zenon

\* An adopter answers from the object it has written.
LEMMA AdoptReadMoves ==
  ASSUME TypeOK, NEW c \in Claim, AdoptRead(c)
  PROVE  /\ pc'[c] \in {"done", "retry", "get"} /\ read'[c] = NoRead
         /\ pc'[c] = "done" => crs[NameOf(c)] # None /\ Done(crs[NameOf(c)].status)
<1>1. read'[c] = NoRead
  BY CallerWrite, Zenon DEF AdoptRead
<1> QED
  BY <1>1, AnswerRead, Zenon

\* A caller whose patch was refused answers from the object as it is now.
LEMMA RereadMoves ==
  ASSUME TypeOK, NEW c \in Claim, Reread(c)
  PROVE  /\ pc'[c] \in {"done", "retry", "get"} /\ read'[c] = read[c]
         /\ pc'[c] = "done" => crs[NameOf(c)] # None /\ Done(crs[NameOf(c)].status)
<1>1. read'[c] = read[c]
  BY Zenon DEF Reread
<1> QED
  BY <1>1, AnswerRead, Zenon

\* A caller takes over what it created itself or has seen unchanged for a lease.
LEMMA ExamineMoves ==
  ASSUME TypeOK, NEW c \in Claim, Examine(c)
  PROVE  /\ pc'[c] \in {"done", "retry", "get", "patch"}
         /\ pc'[c] = "done" => Done(read[c].status)
         /\ pc'[c] # "patch" => read'[c] = NoRead
         /\ pc'[c] = "patch" =>
              /\ read'[c] = read[c] /\ status_from_phase(read[c].status) = "DOWNLOADING"
              /\ read[c].fresh \/ lease_has_expired(HomeOf[c], NameOf(c), read[c].status)
<1> DEFINE n == NameOf(c)
           s == status_from_phase(read[c].status)
<1>1. \/ Outcome(c, s) /\ read' = [read EXCEPT ![c] = NoRead]
      \/ To(c, "get") /\ read' = [read EXCEPT ![c] = NoRead]
      \/ /\ To(c, "patch") /\ read' = read /\ s = "DOWNLOADING"
         /\ read[c].fresh \/ lease_has_expired(HomeOf[c], n, read[c].status)
  BY Zenon DEF Examine
<1>2. CASE Outcome(c, s) /\ read' = [read EXCEPT ![c] = NoRead]
  BY <1>2, CallerWrite, OutcomeMoves, DonePhase, ZenonT(30)
<1>3. CASE To(c, "get") /\ read' = [read EXCEPT ![c] = NoRead]
  BY <1>3, CallerWrite, ZenonT(30)
<1>4. CASE /\ To(c, "patch") /\ read' = read /\ s = "DOWNLOADING"
           /\ read[c].fresh \/ lease_has_expired(HomeOf[c], n, read[c].status)
  BY <1>4, CallerWrite, Zenon
<1> QED
  BY <1>1, <1>2, <1>3, <1>4, Zenon

\* A retry of a failed download first looks whether it is still recorded as failed.
LEMMA RetryGetMoves ==
  ASSUME TypeOK, NEW c \in Claim, RetryGet(c)
  PROVE  pc'[c] \in {"reset", "get"} /\ read'[c] = read[c]
BY CallerWrite, Zenon DEF RetryGet

\* A call that fails ends the claim.
LEMMA CallFailsMoves ==
  ASSUME TypeOK, NEW c \in Claim, CallFails(c)
  PROVE  pc'[c] = "get" /\ read'[c] = NoRead
BY CallerWrite, Zenon DEF CallFails

\* The status of a name-only object under its new name.
Copied(st) ==
  [phase |-> status_from_phase(st), claim |-> Fingerprint(st)[1], beat |-> Fingerprint(st)[2]]

\* An adopter creates the object, or finds it created.
LEMMA AdoptCreateMoves ==
  ASSUME TypeOK, NEW c \in Claim, AdoptCreate(c)
  PROVE  LET n == NameOf(c) IN
         /\ read'[c] = read[c] /\ spent' = spent /\ obs' = obs /\ pc[c] = "adopt"
         /\ \/ crs[n] = None /\ CreateCR(n, n) /\ pc'[c] = "copy"
            \/ crs[n] # None /\ KeepObjects /\ pc'[c] = "drop"
BY CallerWrite, Zenon DEF AdoptCreate, NameOf

\* An adopter copies the status of the name-only object.
LEMMA AdoptCopyMoves ==
  ASSUME TypeOK, NEW c \in Claim, AdoptCopy(c)
  PROVE  LET n == NameOf(c) IN
         /\ read'[c] = read[c] /\ spent' = spent /\ obs' = obs /\ pc[c] = "copy"
         /\ \/ crs[n] = None /\ KeepObjects /\ pc'[c] = "get"
            \/ crs[n] # None /\ WriteStatus(n, Copied(read[c].status)) /\ pc'[c] = "drop"
BY CallerWrite, Zenon DEF AdoptCopy, Copied

\* An adopter removes the name-only object.
LEMMA AdoptDropMoves ==
  ASSUME TypeOK, NEW c \in Claim, AdoptDrop(c)
  PROVE  /\ read'[c] = read[c] /\ spent' = spent /\ obs' = obs /\ pc[c] = "drop"
         /\ pc'[c] = "adopted" /\ version' = version
         /\ crs' = [crs EXCEPT !["legacy"] = None] \/ crs' = crs
BY CallerWrite, Zenon DEF AdoptDrop

\* A caller creates the object, or lost the race.
LEMMA CreateMoves ==
  ASSUME TypeOK, NEW c \in Claim, Create(c)
  PROVE  LET n == NameOf(c) IN
         /\ spent' = spent /\ obs' = obs /\ pc[c] = "create"
         /\ \/ /\ crs[n] = None /\ CreateCR(n, n) /\ pc'[c] = "examine"
               /\ read'[c].version = version[n] + 1 /\ read'[c].status = None /\ read'[c].fresh = TRUE
            \/ crs[n] # None /\ KeepObjects /\ pc'[c] = "raced" /\ read'[c] = read[c]
<1> DEFINE n == NameOf(c)
           x == [version |-> version[n] + 1, status |-> None, fresh |-> TRUE]
<1>1. x.version = version[n] + 1 /\ x.status = None /\ x.fresh = TRUE
  BY Zenon
<1>2. ProviderOf[c] = n
  BY Zenon DEF NameOf
<1>3. /\ spent' = spent /\ obs' = obs /\ pc[c] = "create"
      /\ \/ crs[n] = None /\ CreateCR(n, n) /\ pc'[c] = "examine" /\ read'[c] = x
         \/ crs[n] # None /\ KeepObjects /\ pc'[c] = "raced" /\ read'[c] = read[c]
  BY <1>2, CallerWrite, Zenon DEF Create
<1> HIDE DEF x
<1> QED
  BY <1>1, <1>3, Zenon

\* A patch applies to the version that was read and makes its caller the owner,
\* unless the reply is lost.
LEMMA PatchMoves ==
  ASSUME TypeOK, NEW c \in Claim, Patch(c)
  PROVE  LET n == NameOf(c) IN
         /\ read'[c] = NoRead /\ pc[c] = "patch"
         /\ \/ /\ PatchApplies(c) /\ WriteStatus(n, Downloading(c, version[n] + 1))
               /\ \/ pc'[c] = "owner" /\ spent' = spent \cup {c} /\ ForgetObservation(HomeOf[c], n)
                  \/ pc'[c] = "get" /\ spent' = spent /\ obs' = obs /\ Fail("reply")
            \/ /\ ~PatchApplies(c) /\ KeepObjects /\ pc'[c] \in {"get", "reread"}
               /\ spent' = spent /\ obs' = obs
BY CallerWrite, Zenon DEF Patch

\* A reset of a failed download makes its caller the owner, unless the reply is lost.
LEMMA ResetMoves ==
  ASSUME TypeOK, NEW c \in Claim, Reset(c)
  PROVE  LET n == NameOf(c) IN
         /\ read'[c] = read[c] /\ pc[c] = "reset"
         /\ \/ /\ StillError(n) /\ WriteStatus(n, Downloading(c, version[n] + 1))
               /\ \/ pc'[c] = "owner" /\ spent' = spent \cup {c} /\ ForgetObservation(HomeOf[c], n)
                  \/ pc'[c] = "get" /\ spent' = spent /\ obs' = obs /\ Fail("reply")
            \/ ~StillError(n) /\ KeepObjects /\ pc'[c] = "get" /\ spent' = spent /\ obs' = obs
BY CallerWrite, Zenon DEF Reset

\* An owner renews the claim it holds, or learns that it lost it.
LEMMA RefreshMoves ==
  ASSUME TypeOK, NEW c \in Claim, Refresh(c)
  PROVE  LET n == NameOf(c) IN
         /\ read'[c] = read[c] /\ spent' = spent /\ obs' = obs /\ pc[c] = "owner"
         /\ \/ Holds(c) /\ WriteStatus(n, Downloading(c, version[n] + 1)) /\ pc'[c] = "owner"
            \/ ~Holds(c) /\ KeepObjects /\ pc'[c] = "done"
BY CallerWrite, Zenon DEF Refresh

\* An owner records the outcome under the claim it still holds.
LEMMA FinishMoves ==
  ASSUME TypeOK, NEW c \in Claim, Finish(c)
  PROVE  LET n == NameOf(c) IN
         /\ read'[c] = read[c] /\ spent' = spent /\ pc[c] = "owner" /\ pc'[c] = "done"
         /\ \/ /\ Holds(c) /\ ForgetObservation(HomeOf[c], n)
               /\ \E s \in {"DOWNLOADED", "ERROR"} : WriteStatus(n, Terminal(s))
            \/ ~Holds(c) /\ KeepObjects /\ obs' = obs
BY CallerWrite, Zenon DEF Finish

\* The other steps of a claim leave objects and claims alone.
LEMMA ReadingKeeps ==
  ASSUME NEW c \in Claim,
         \/ ClaimGet(c) \/ LegacyGet(c) \/ AdoptRead(c) \/ Raced(c) \/ Examine(c) \/ Reread(c)
         \/ RetryGet(c) \/ CallFails(c)
  PROVE  KeepObjects /\ spent' = spent
BY Zenon DEF ClaimGet, LegacyGet, AdoptRead, Raced, Examine, Reread, RetryGet, CallFails

\* The steps of a caller.
LEMMA CallerCases ==
  ASSUME NEW c \in Claim, ClaimStep(c) \/ Refresh(c) \/ CallFails(c)
  PROVE  \/ ClaimGet(c) \/ LegacyGet(c) \/ AdoptRead(c) \/ Raced(c) \/ Examine(c) \/ Reread(c)
         \/ RetryGet(c) \/ CallFails(c)
         \/ AdoptCreate(c) \/ AdoptCopy(c) \/ AdoptDrop(c) \/ Create(c) \/ Patch(c) \/ Reset(c)
         \/ Refresh(c) \/ Finish(c)
BY Zenon DEF ClaimStep

\* What a caller does to the objects.
LEMMA CallerObjects ==
  ASSUME WellFormed, Inv, NEW c \in Claim, ClaimStep(c) \/ Refresh(c) \/ CallFails(c)
  PROVE  LET n == NameOf(c) IN
         \/ KeepObjects
         \/ crs[n] # None /\ \E st \in CacheStatus : WriteStatus(n, st) /\ st.beat <= version[n] + 1
         \/ crs[n] = None /\ CreateCR(n, n)
         \/ version' = version /\ crs' = [crs EXCEPT !["legacy"] = None]
<1> DEFINE n == NameOf(c)
<1>1. TypeOK /\ version[n] \in Nat
  BY CallerNames, Zenon DEF Inv
<1>2. Downloading(c, version[n] + 1) \in CacheStatus /\ Downloading(c, version[n] + 1).beat = version[n] + 1
  BY <1>1, StatusType DEF Downloading
<1>3. \A s \in {"DOWNLOADED", "ERROR"} : Terminal(s) \in CacheStatus /\ Terminal(s).beat <= version[n] + 1
  BY <1>1, StatusType DEF Terminal
<1>4. pc[c] = "copy" => Copied(read[c].status) \in CacheStatus /\ Copied(read[c].status).beat <= version[n] + 1
  <2>1. read[c].status \in CacheStatus \cup {None}
    BY <1>1, Zenon DEF TypeOK
  <2>2. Copied(read[c].status) \in CacheStatus
    BY <2>1, StatusType, Zenon DEF Copied
  <2>3. SUFFICES ASSUME pc[c] = "copy" PROVE Copied(read[c].status).beat <= version[n] + 1
    BY <2>2, Zenon
  <2>4. PICK l \in Legacies : l # None /\ SameStatus(read[c].status, l.status)
    BY <2>3, Zenon DEF Inv, CopyInv
  <2>5. l.status = None \/ l.status.beat = 0
    BY <2>4, Zenon DEF WellFormed, LegacyObject
  <2>6. Fingerprint(read[c].status)[2] = 0
    BY <2>4, <2>5, SameReads, Zenon DEF Fingerprint
  <2> QED
    BY <1>1, <2>6 DEF Copied
<1> DEFINE Writes == crs[n] # None /\ \E st \in CacheStatus : WriteStatus(n, st) /\ st.beat <= version[n] + 1
<1>5. ASSUME AdoptCopy(c) \/ Patch(c) \/ Reset(c) \/ Refresh(c) \/ Finish(c)
      PROVE  KeepObjects \/ Writes
  <2>0. 1 + version[n] = version[n] + 1 /\ version[n] + 1 <= version[n] + 1
    BY <1>1
  <2>1. CASE AdoptCopy(c)
    BY <1>1, <1>4, <2>1, AdoptCopyMoves, Zenon
  <2>2. CASE Patch(c)
    <3>1. KeepObjects \/ (PatchApplies(c) /\ WriteStatus(n, Downloading(c, version[n] + 1)))
      BY <1>1, <2>2, PatchMoves, Zenon
    <3> QED
      BY <1>2, <2>0, <3>1, Zenon DEF PatchApplies
  <2>3. CASE Reset(c)
    <3>1. KeepObjects \/ (StillError(n) /\ WriteStatus(n, Downloading(c, version[n] + 1)))
      BY <1>1, <2>3, ResetMoves, Zenon
    <3> QED
      BY <1>2, <2>0, <3>1, Zenon DEF StillError
  <2>4. CASE Refresh(c)
    <3>1. KeepObjects \/ (Holds(c) /\ WriteStatus(n, Downloading(c, version[n] + 1)))
      BY <1>1, <2>4, RefreshMoves, Zenon
    <3> QED
      BY <1>2, <2>0, <3>1, Zenon DEF Holds
  <2>5. CASE Finish(c)
    <3>1. KeepObjects \/ (Holds(c) /\ \E s \in {"DOWNLOADED", "ERROR"} : WriteStatus(n, Terminal(s)))
      BY <1>1, <2>5, FinishMoves, Zenon
    <3> QED
      BY <1>3, <3>1, Zenon DEF Holds
  <2> QED
    BY <1>5, <2>1, <2>2, <2>3, <2>4, <2>5, Zenon
<1>6. ASSUME AdoptCreate(c) \/ Create(c)
      PROVE  KeepObjects \/ (crs[n] = None /\ CreateCR(n, n))
  BY <1>1, <1>6, AdoptCreateMoves, CreateMoves, Zenon
<1>7. ASSUME AdoptDrop(c)
      PROVE  KeepObjects \/ (version' = version /\ crs' = [crs EXCEPT !["legacy"] = None])
  BY <1>1, <1>7, AdoptDropMoves, Zenon DEF KeepObjects
<1> HIDE DEF Writes
<1>8. KeepObjects \/ Writes \/ (crs[n] = None /\ CreateCR(n, n))
      \/ (version' = version /\ crs' = [crs EXCEPT !["legacy"] = None])
  BY <1>5, <1>6, <1>7, CallerCases, ReadingKeeps, Zenon
<1> QED
  BY <1>8, Zenon DEF Writes

\* It leaves the objects of other providers alone.
LEMMA OtherObjects ==
  ASSUME WellFormed, Inv, NEW c \in Claim, ClaimStep(c) \/ Refresh(c) \/ CallFails(c),
         NEW m \in Provider, m # NameOf(c)
  PROVE  crs'[m] = crs[m] /\ version'[m] = version[m]
<1> DEFINE n == NameOf(c)
<1>1. TypeOK /\ n \in Name /\ n \in Provider /\ m \in Name /\ m # "legacy"
  BY CallerNames, Zenon DEF Inv, Name, WellFormed
<1>2. \/ KeepObjects
      \/ crs[n] # None /\ \E st \in CacheStatus : WriteStatus(n, st)
      \/ CreateCR(n, n)
      \/ version' = version /\ crs' = [crs EXCEPT !["legacy"] = None]
  BY CallerObjects, Zenon
<1>3. crs' = [crs EXCEPT !["legacy"] = None] => crs'[m] = crs[m]
  BY <1>1, Zenon DEF TypeOK
<1>4. ASSUME NEW st \in CacheStatus, crs[n] # None, WriteStatus(n, st)
      PROVE  crs'[m] = crs[m] /\ version'[m] = version[m]
  BY <1>1, <1>4, ObjectWrites, Zenon
<1>5. CreateCR(n, n) => crs'[m] = crs[m] /\ version'[m] = version[m]
  BY <1>1, ObjectWrites, Zenon
<1> QED
  BY <1>2, <1>3, <1>4, <1>5, Zenon DEF KeepObjects

\* Every step that changes an object other than by deleting it moves its version,
\* and heartbeats stay behind the versions.
LEMMA VersionsGrow ==
  ASSUME WellFormed, Inv, [Next]_vars
  PROVE  /\ \A m \in Name :
              /\ version[m] \in Nat /\ version'[m] \in Nat /\ version'[m] >= version[m]
              /\ version'[m] = version[m] => crs'[m] = crs[m] \/ crs'[m] = None
              /\ crs'[m] # None => Fingerprint(crs'[m].status)[2] <= version'[m]
         /\ crs'["legacy"] = None \/ SameObject(crs'["legacy"], crs["legacy"])
<1> DEFINE Goal == /\ \A m \in Name :
                        /\ version[m] \in Nat /\ version'[m] \in Nat /\ version'[m] >= version[m]
                        /\ version'[m] = version[m] => crs'[m] = crs[m] \/ crs'[m] = None
                        /\ crs'[m] # None => Fingerprint(crs'[m].status)[2] <= version'[m]
                   /\ crs'["legacy"] = None \/ SameObject(crs'["legacy"], crs["legacy"])
<1>1. /\ TypeOK /\ "legacy" \in Name
      /\ \A m \in Name : version[m] \in Nat /\ (crs[m] # None => Fingerprint(crs[m].status)[2] <= version[m])
  BY Zenon DEF Inv, TypeOK, BeatInv, Name
<1>f. \A m \in Name : crs[m] # None => Fingerprint(crs[m].status)[2] \in Nat
  <2>1. \A m \in Name : crs[m] # None => crs[m].status \in CacheStatus \cup {None}
    BY <1>1, Zenon DEF TypeOK, Object
  <2> QED
    BY <2>1, Zenon DEF Fingerprint, CacheStatus
<1>s. crs'["legacy"] = crs["legacy"] => SameObject(crs'["legacy"], crs["legacy"])
  BY Zenon DEF SameObject, SameStatus
<1>2. ASSUME KeepObjects PROVE Goal
  BY <1>1, <1>2, <1>f, <1>s DEF KeepObjects
<1>3. ASSUME NEW n \in Name, version' = version, crs' = [crs EXCEPT ![n] = None] PROVE Goal
  BY SMTT(30), <1>1, <1>3, <1>f, <1>s DEF TypeOK
<1>4. ASSUME NEW n \in Provider, crs[n] # None, NEW st \in CacheStatus, WriteStatus(n, st), st.beat <= version[n] + 1
      PROVE  Goal
  <2>1. /\ n \in Name /\ n # "legacy" /\ crs'[n].status = st /\ version'[n] = version[n] + 1
        /\ \A m \in Name : m # n => crs'[m] = crs[m] /\ version'[m] = version[m]
    BY <1>1, <1>4, ObjectWrites, Zenon DEF Name, WellFormed
  <2>2. Fingerprint(st)[2] = st.beat
    BY Zenon DEF Fingerprint, WellFormed
  <2> QED
    BY <1>1, <1>4, <1>f, <1>s, <2>1, <2>2
<1>5. ASSUME NEW n \in Provider, CreateCR(n, n)
      PROVE  Goal
  <2>1. /\ n \in Name /\ n # "legacy" /\ crs'[n].status = None /\ version'[n] = version[n] + 1
        /\ \A m \in Name : m # n => crs'[m] = crs[m] /\ version'[m] = version[m]
    BY <1>1, <1>5, ObjectWrites, Zenon DEF Name, WellFormed
  <2>2. Fingerprint(None)[2] = 0
    BY Zenon DEF Fingerprint
  <2> QED
    BY <1>1, <1>f, <1>s, <2>1, <2>2
<1>6. ASSUME \E c \in Claim : ClaimStep(c) \/ Refresh(c) \/ CallFails(c)
      PROVE  Goal
  <2>1. PICK c \in Claim : ClaimStep(c) \/ Refresh(c) \/ CallFails(c)
    BY <1>6, Zenon
  <2>2. NameOf(c) \in Provider
    BY <1>1, CallerNames, Zenon
  <2> HIDE DEF Goal
  <2> QED
    BY <1>1, <1>2, <1>3, <1>4, <1>5, <2>1, <2>2, CallerObjects, ZenonT(30)
<1>7. CASE Touch
  <2>1. PICK n \in Name : /\ version'[n] = version[n] + 1
                          /\ \A m \in Name : m # n => crs'[m] = crs[m] /\ version'[m] = version[m]
    BY <1>1, <1>7, TouchMoves, Zenon
  <2>2. \A m \in Name : SameObject(crs'[m], crs[m])
    BY <1>1, <1>7, TouchMoves, Zenon
  <2>3. \A m \in Name : crs'[m] # None => crs[m] # None /\ Fingerprint(crs'[m].status) = Fingerprint(crs[m].status)
    BY <2>2, SameReads, Zenon DEF SameObject
  <2> QED
    BY <1>1, <1>f, <2>1, <2>2, <2>3
<1>8. ASSUME DeleteNext PROVE Goal
  <2>1. removal.names \in Seq(Name) /\ removal.names # <<>>
    BY <1>1, <1>8, Zenon DEF TypeOK, DeleteNext
  <2>2. Head(removal.names) \in Name
    BY <2>1
  <2>3. version' = version /\ (crs' = crs \/ crs' = [crs EXCEPT ![Head(removal.names)] = None])
    BY <1>8, Zenon DEF DeleteNext
  <2> HIDE DEF Goal
  <2> QED
    BY <1>2, <1>3, <2>2, <2>3, Zenon DEF KeepObjects
<1>9. CASE \/ \E r \in Replica, n \in Name : Age(r, n)
           \/ \E r \in Replica : DeleteStart(r) \/ Crash(r)
           \/ UNCHANGED vars
  <2>1. KeepObjects
    BY <1>9, Zenon DEF Age, DeleteStart, Crash, vars, KeepObjects
  <2> QED
    BY <1>2, <2>1, Zenon
<1> QED
  BY <1>6, <1>7, <1>8, <1>9, Zenon DEF Next

\* What a step does to the observations of the replicas.
LEMMA ObservationSteps ==
  ASSUME WellFormed, Inv, [Next]_vars, NEW r \in Replica, NEW m \in Name
  PROVE  \/ obs'[r][m] = None \/ obs'[r][m] = obs[r][m]
         \/ /\ Age(r, m) /\ obs[r][m] # None /\ obs'[r][m] # None
            /\ obs'[r][m].seen = obs[r][m].seen
         \/ \E c \in Claim : /\ Examine(c) /\ NameOf(c) = m
                             /\ obs'[r][m].seen = Fingerprint(read[c].status) /\ obs'[r][m].aged = FALSE
<1>1. TypeOK
  BY Zenon DEF Inv
<1>2. ASSUME NEW q \in Replica, NEW n \in Name, ForgetObservation(q, n)
      PROVE  obs'[r][m] = None \/ obs'[r][m] = obs[r][m]
  BY <1>1, <1>2, Zenon DEF ForgetObservation, TypeOK
<1>3. ASSUME NEW c \in Claim, ClaimStep(c) \/ Refresh(c) \/ CallFails(c)
      PROVE  \/ obs'[r][m] = None \/ obs'[r][m] = obs[r][m]
             \/ \E d \in Claim : /\ Examine(d) /\ NameOf(d) = m
                             /\ obs'[r][m].seen = Fingerprint(read[d].status) /\ obs'[r][m].aged = FALSE
  <2>1. HomeOf[c] \in Replica /\ NameOf(c) \in Name
    BY <1>1, CallerNames, Zenon
  <2>2. \/ obs' = obs \/ ForgetObservation(HomeOf[c], NameOf(c))
        \/ Examine(c) /\ Observe(HomeOf[c], NameOf(c), read[c].status)
    BY <1>3, ZenonT(30) DEF ClaimStep, CallFails, ClaimGet, LegacyGet, AdoptCreate, AdoptCopy,
         AdoptDrop, AdoptRead, Create, Raced, Examine, Reread, RetryGet, Patch, Reset, Refresh, Finish
  <2>3. ASSUME Observe(HomeOf[c], NameOf(c), read[c].status)
        PROVE  \/ obs'[r][m] = obs[r][m]
               \/ /\ NameOf(c) = m
                  /\ obs'[r][m].seen = Fingerprint(read[c].status) /\ obs'[r][m].aged = FALSE
    <3> DEFINE o == [seen |-> Fingerprint(read[c].status), aged |-> FALSE]
    <3>1. o.seen = Fingerprint(read[c].status) /\ o.aged = FALSE
      BY Zenon
    <3>2. obs' = obs \/ obs' = [obs EXCEPT ![HomeOf[c]][NameOf(c)] = o]
      BY <2>3, Zenon DEF Observe
    <3> HIDE DEF o
    <3>3. obs'[r][m] = obs[r][m] \/ (NameOf(c) = m /\ obs'[r][m] = o)
      <4>1. ASSUME NEW q \in Replica, NEW n \in Name, obs' = [obs EXCEPT ![q][n] = o]
            PROVE  obs'[r][m] = obs[r][m] \/ (n = m /\ obs'[r][m] = o)
        BY <1>1, <4>1, Zenon DEF TypeOK
      <4> QED
        BY <2>1, <3>2, <4>1, Zenon
    <3> QED
      BY <3>1, <3>3, Zenon
  <2> QED
    BY <1>2, <2>1, <2>2, <2>3, Zenon
<1>4. ASSUME NEW q \in Replica, NEW n \in Name, Age(q, n)
      PROVE  \/ obs'[r][m] = obs[r][m]
             \/ /\ Age(r, m) /\ obs[r][m] # None /\ obs'[r][m] # None
                /\ obs'[r][m].seen = obs[r][m].seen
  <2>1. obs[q][n] \in Observation
    BY <1>1, <1>4 DEF Age, TypeOK
  <2>2. [obs[q][n] EXCEPT !.aged = TRUE] \in Observation /\ [obs[q][n] EXCEPT !.aged = TRUE].seen = obs[q][n].seen
    BY <2>1, ZenonT(30) DEF Observation
  <2>3. obs' = [obs EXCEPT ![q] = [obs[q] EXCEPT ![n] = [obs[q][n] EXCEPT !.aged = TRUE]]]
    BY <1>4, Zenon DEF Age
  <2>4. obs'[r][m] = obs[r][m] \/ (q = r /\ n = m /\ obs'[r][m] = [obs[q][n] EXCEPT !.aged = TRUE])
    BY <1>1, <2>3, Zenon DEF TypeOK
  <2> QED
    BY <1>4, <2>1, <2>2, <2>4, ZenonT(30) DEF WellFormed
<1>5. ASSUME DeleteNext
      PROVE  obs'[r][m] = None \/ obs'[r][m] = obs[r][m]
  <2>1. removal.names \in Seq(Name) /\ removal.names # <<>>
    BY <1>1, <1>5, Zenon DEF TypeOK, DeleteNext
  <2>2. Head(removal.names) \in Name
    BY <2>1
  <2>3. obs' = obs \/ ForgetObservation(removal.by, Head(removal.names))
    BY <1>5, Zenon DEF DeleteNext
  <2>4. CASE removal.by \in Replica
    BY <1>2, <2>2, <2>3, <2>4, Zenon
  <2>5. CASE removal.by \notin Replica
    <3>1. \A x : [obs EXCEPT ![removal.by] = x] = obs
      BY <1>1, <2>5, Zenon DEF TypeOK
    <3> QED
      BY <2>3, <3>1, Zenon DEF ForgetObservation
  <2> QED
    BY <2>4, <2>5, Zenon
<1>6. ASSUME Touch \/ (\E q \in Replica : DeleteStart(q) \/ Crash(q)) \/ UNCHANGED vars
      PROVE  obs'[r][m] = None \/ obs'[r][m] = obs[r][m]
  <2>1. CASE \E q \in Replica : Crash(q)
    BY <1>1, <2>1 DEF Crash, TypeOK
  <2>2. CASE ~\E q \in Replica : Crash(q)
    BY <1>6, <2>2, Zenon DEF Touch, DeleteStart, vars
  <2> QED
    BY <2>1, <2>2, Zenon
<1> QED
  BY <1>3, <1>4, <1>5, <1>6, ZenonT(30) DEF Next

\* What a caller read stays true of it while it does not move.
LEMMA ReadKept ==
  ASSUME WellFormed, Inv, [Next]_vars, NEW d \in Claim, pc'[d] = pc[d], read'[d] = read[d]
  PROVE  ReadInv(d)'
<1> DEFINE n == NameOf(d)
<1>1. /\ n \in Name /\ version[n] \in Nat /\ version'[n] \in Nat /\ version'[n] >= version[n]
      /\ version'[n] = version[n] => crs'[n] = crs[n] \/ crs'[n] = None
  BY VersionsGrow, CallerNames, Zenon DEF Inv
<1>2. read[d].version \in Nat /\ Fingerprint(read[d].status)[2] \in Nat /\ ReadInv(d)
  <2>1. read[d].version \in Nat /\ read[d].status \in CacheStatus \cup {None}
    BY Zenon DEF Inv, TypeOK
  <2> QED
    BY <2>1, FingerprintType, Zenon DEF Inv
<1>3. PatchApplies(d)' => PatchApplies(d) /\ crs'[n] = crs[n]
  BY <1>1, <1>2 DEF PatchApplies, ReadInv
<1> QED
  BY <1>1, <1>2, <1>3 DEF ReadInv

\* A step of a caller.
LEMMA CallerInv ==
  ASSUME WellFormed, Inv, NEW c \in Claim, ClaimStep(c) \/ Refresh(c) \/ CallFails(c)
  PROVE  ReadInv(c)' /\ CopyInv(c)' /\ SpentInv(c)'
<1> DEFINE n == NameOf(c)
<1>1. TypeOK /\ TypeOK' /\ ReadInv(c) /\ CopyInv(c) /\ SpentInv(c) /\ BeatInv(n) /\ n \in Name
  BY CallerTypes, CallerNames, Zenon DEF Inv
<1>2. /\ version[n] \in Nat /\ version'[n] \in Nat /\ version'[n] >= version[n]
      /\ version'[n] = version[n] => crs'[n] = crs[n] \/ crs'[n] = None
  BY <1>1, VersionsGrow, Zenon DEF Next
<1>3. /\ read[c].version \in Nat /\ read'[c].version \in Nat /\ read[c].fresh \in BOOLEAN
      /\ read[c].status \in CacheStatus \cup {None}
      /\ Fingerprint(read[c].status)[2] \in Nat
      /\ crs[n] # None => Fingerprint(crs[n].status)[2] \in Nat
  <2>1. read[c].version \in Nat /\ read'[c].version \in Nat /\ read[c].fresh \in BOOLEAN
        /\ read[c].status \in CacheStatus \cup {None}
        /\ (crs[n] # None => crs[n].status \in CacheStatus \cup {None})
    BY <1>1, Zenon DEF TypeOK, Object
  <2> QED
    BY <2>1, FingerprintType, Zenon
<1>4. NoRead.version = 0 /\ NoRead.fresh = FALSE /\ NoRead.status = None
  BY Zenon DEF NoRead
<1>5. ReadInv(c)'
  <2>1. ASSUME pc'[c] \notin {"examine", "patch"}, read'[c] = NoRead
        PROVE  ReadInv(c)'
    BY SMTT(30), <1>2, <1>4, <2>1 DEF ReadInv
  <2>2. ASSUME pc'[c] \notin {"examine", "patch"}, pc[c] \notin {"examine", "patch"},
               read'[c].version = read[c].version, read'[c].fresh = read[c].fresh
        PROVE  ReadInv(c)'
    BY SMTT(30), <1>1, <1>2, <1>3, <2>2 DEF ReadInv
  <2>3. ASSUME pc'[c] = "examine", crs[n] # None, KeepObjects, read'[c].version = version[n],
               read'[c].status = crs[n].status, read'[c].fresh = FALSE
        PROVE  ReadInv(c)'
    BY <1>1, <1>2, <1>3, <2>3, ZenonT(30) DEF ReadInv, BeatInv, KeepObjects
  <2>4. CASE ClaimGet(c)
    <3>1. pc[c] = "get" /\ KeepObjects
      BY <2>4, Zenon DEF ClaimGet
    <3> QED
      BY <1>1, <2>2, <2>3, <2>4, <3>1, ClaimGetMoves, ZenonT(30)
  <2>5. CASE Raced(c)
    <3>1. pc[c] = "raced" /\ KeepObjects
      BY <2>5, Zenon DEF Raced
    <3> QED
      BY <1>1, <2>2, <2>3, <2>5, <3>1, RacedMoves, ZenonT(30)
  <2>6. CASE LegacyGet(c)
    <3>1. pc[c] = "legacy"
      BY <2>6, Zenon DEF LegacyGet
    <3> QED
      BY <1>1, <2>2, <2>6, <3>1, LegacyGetMoves, Zenon
  <2>7. CASE AdoptRead(c) \/ CallFails(c)
    BY <1>1, <2>1, <2>7, AdoptReadMoves, CallFailsMoves, Zenon
  <2>8. CASE Reread(c)
    <3>1. pc[c] = "reread"
      BY <2>8, Zenon DEF Reread
    <3> QED
      BY <1>1, <2>2, <2>8, <3>1, RereadMoves, Zenon
  <2>9. CASE RetryGet(c)
    <3>1. pc[c] = "retry"
      BY <2>9, Zenon DEF RetryGet
    <3> QED
      BY <1>1, <2>2, <2>9, <3>1, RetryGetMoves, Zenon
  <2>10. CASE Examine(c)
    <3>1. pc[c] = "examine" /\ KeepObjects
      BY <2>10, Zenon DEF Examine
    <3>2. CASE pc'[c] = "patch"
      <4>1. read'[c] = read[c] /\ status_from_phase(read[c].status) = "DOWNLOADING"
        BY <1>1, <2>10, <3>2, ExamineMoves, ZenonT(30)
      <4>2. PatchApplies(c)' => PatchApplies(c)
        BY <3>1, <4>1, Zenon DEF PatchApplies, KeepObjects
      <4> QED
        BY <1>1, <1>2, <1>3, <3>1, <3>2, <4>1, <4>2, Zenon DEF ReadInv, KeepObjects
    <3>3. CASE pc'[c] # "patch"
      BY <1>1, <2>1, <2>10, <3>3, ExamineMoves, Zenon
    <3> QED
      BY <3>2, <3>3, Zenon
  <2>11. CASE AdoptCreate(c) \/ AdoptCopy(c) \/ AdoptDrop(c) \/ Reset(c) \/ Refresh(c) \/ Finish(c)
    <3>1. pc'[c] \notin {"examine", "patch"} /\ pc[c] \notin {"examine", "patch"} /\ read'[c] = read[c]
      BY <1>1, <2>11, AdoptCreateMoves, AdoptCopyMoves, AdoptDropMoves, ResetMoves, RefreshMoves, FinishMoves, ZenonT(30)
    <3> QED
      BY <2>2, <3>1, Zenon
  <2>12. CASE Patch(c)
    <3>1. pc'[c] \notin {"examine", "patch"} /\ read'[c] = NoRead
      BY <1>1, <2>12, PatchMoves, ZenonT(30)
    <3> QED
      BY <2>1, <3>1, Zenon
  <2>13. CASE Create(c)
    <3>1. CASE crs[n] # None
      <4>1. pc[c] = "create" /\ pc'[c] = "raced" /\ read'[c] = read[c]
        BY <1>1, <2>13, <3>1, CreateMoves, ZenonT(30)
      <4> QED
        BY <2>2, <4>1, Zenon
    <3>2. CASE crs[n] = None
      <4>1. /\ CreateCR(n, n) /\ pc'[c] = "examine"
            /\ read'[c].version = version[n] + 1 /\ read'[c].status = None /\ read'[c].fresh = TRUE
        BY <1>1, <2>13, <3>2, CreateMoves, Zenon
      <4>2. crs'[n].status = None /\ version'[n] = version[n] + 1
        BY <1>1, <4>1, ObjectWrites, CallerNames, ZenonT(30)
      <4>3. Fingerprint(None)[2] = 0
        BY Zenon DEF Fingerprint
      <4> QED
        BY <1>2, <4>1, <4>2, <4>3 DEF ReadInv
    <3> QED
      BY <3>1, <3>2, Zenon
  <2> QED
    BY <2>4, <2>5, <2>6, <2>7, <2>8, <2>9, <2>10, <2>11, <2>12, <2>13, CallerCases, ZenonT(40)
<1>6. CopyInv(c)'
  <2>1. ASSUME pc'[c] \in {"adopt", "copy", "drop"}
        PROVE  \/ LegacyGet(c) /\ pc'[c] = "adopt"
               \/ read'[c] = read[c] /\ pc[c] \in {"adopt", "copy", "drop"}
    <3>1. ASSUME \/ ClaimGet(c) \/ AdoptRead(c) \/ Raced(c) \/ Examine(c) \/ Reread(c) \/ RetryGet(c) \/ CallFails(c)
          PROVE  FALSE
      BY <1>1, <2>1, <3>1, ClaimGetMoves, AdoptReadMoves, RacedMoves, ExamineMoves, RereadMoves, RetryGetMoves, CallFailsMoves, ZenonT(30)
    <3>2. LegacyGet(c) => pc'[c] = "adopt"
      BY <1>1, <2>1, LegacyGetMoves, Zenon
    <3>3. ~(Create(c) \/ Patch(c) \/ Reset(c) \/ Refresh(c) \/ Finish(c))
      BY <1>1, <2>1, CreateMoves, PatchMoves, ResetMoves, RefreshMoves, FinishMoves, ZenonT(30)
    <3>4. ASSUME AdoptCreate(c) \/ AdoptCopy(c) \/ AdoptDrop(c)
          PROVE  read'[c] = read[c] /\ pc[c] \in {"adopt", "copy", "drop"}
      BY <1>1, <3>4, AdoptCreateMoves, AdoptCopyMoves, AdoptDropMoves, ZenonT(30)
    <3> QED
      BY <3>1, <3>2, <3>3, <3>4, CallerCases, Zenon
  <2>2. ASSUME LegacyGet(c), pc'[c] = "adopt"
        PROVE  \E l \in Legacies : l # None /\ l.provider = n /\ SameStatus(read'[c].status, l.status)
    <3>1. crs["legacy"] # None /\ crs["legacy"].provider = n /\ read'[c].status = crs["legacy"].status
      BY <1>1, <2>2, LegacyGetMoves, Zenon
    <3> QED
      BY <3>1, Zenon DEF Inv, SameObject
  <2> QED
    BY <1>1, <2>1, <2>2, Zenon DEF CopyInv
<1>7. SpentInv(c)'
  <2>1. ASSUME \/ ClaimGet(c) \/ AdoptRead(c) \/ Raced(c) \/ Examine(c) \/ Reread(c) \/ RetryGet(c)
               \/ CallFails(c) \/ LegacyGet(c)
        PROVE  spent' = spent /\ pc[c] \notin {"owner", "done", "gone"} /\ pc'[c] # "owner"
    <3>1. pc[c] \notin {"owner", "done", "gone"}
      BY <2>1, Zenon DEF ClaimGet, AdoptRead, Raced, Examine, Reread, RetryGet, CallFails, LegacyGet, Calling
    <3>2. pc'[c] # "owner"
      BY <1>1, <2>1, ClaimGetMoves, LegacyGetMoves, AdoptReadMoves, RacedMoves, ExamineMoves, RereadMoves, RetryGetMoves, CallFailsMoves, ZenonT(30)
    <3> QED
      BY <2>1, <3>1, <3>2, ReadingKeeps, Zenon
  <2>2. ASSUME AdoptCreate(c) \/ AdoptCopy(c) \/ AdoptDrop(c) \/ Create(c)
        PROVE  spent' = spent /\ pc[c] \notin {"owner", "done", "gone"} /\ pc'[c] # "owner"
    BY <1>1, <2>2, AdoptCreateMoves, AdoptCopyMoves, AdoptDropMoves, CreateMoves, ZenonT(30)
  <2>3. ASSUME Patch(c) \/ Reset(c)
        PROVE  /\ pc[c] \notin {"owner", "done", "gone"}
               /\ \/ spent' = spent /\ pc'[c] # "owner"
                  \/ spent' = spent \cup {c} /\ pc'[c] = "owner"
    BY <1>1, <2>3, PatchMoves, ResetMoves, ZenonT(30)
  <2>4. ASSUME Refresh(c) \/ Finish(c)
        PROVE  spent' = spent /\ pc[c] = "owner" /\ pc'[c] \in {"owner", "done"}
    BY <1>1, <2>4, RefreshMoves, FinishMoves, Zenon
  <2> QED
    BY <1>1, <2>1, <2>2, <2>3, <2>4, CallerCases, ZenonT(30) DEF SpentInv
<1> QED
  BY <1>5, <1>6, <1>7, Zenon

\* A caller's step leaves the other callers alone.
LEMMA OtherCallers ==
  ASSUME WellFormed, Inv, NEW c \in Claim, ClaimStep(c) \/ Refresh(c) \/ CallFails(c)
  PROVE  /\ \A d \in Claim : d # c => pc'[d] = pc[d] /\ read'[d] = read[d] /\ (d \in spent' <=> d \in spent)
         /\ spent' = spent \/ spent' = spent \cup {c}
<1>1. spent' = spent \/ spent' = spent \cup {c}
  BY ZenonT(30) DEF ClaimStep, CallFails, ClaimGet, LegacyGet, AdoptCreate,
         AdoptCopy, AdoptDrop, AdoptRead, Create, Raced, Examine, Reread, RetryGet, Patch, Reset, Refresh, Finish
<1>2. \A d \in Claim : d # c => pc'[d] = pc[d] /\ read'[d] = read[d]
  BY CallerTypes, Zenon DEF Inv
<1> QED
  BY <1>1, <1>2, Zenon

\* A step of the environment moves a caller only by ending it.
LEMMA CrashedCallers ==
  ASSUME WellFormed, Inv,
         \/ \E r \in Replica, n \in Name : Age(r, n)
         \/ Touch \/ DeleteNext
         \/ \E r \in Replica : DeleteStart(r) \/ Crash(r)
         \/ UNCHANGED vars
  PROVE  /\ spent' = spent
         /\ \A d \in Claim : \/ pc'[d] = pc[d] /\ read'[d] = read[d]
                             \/ pc'[d] = "gone" /\ read'[d] = NoRead
<1>1. ASSUME NEW r \in Replica, Crash(r)
      PROVE  /\ spent' = spent
             /\ \A d \in Claim : \/ pc'[d] = pc[d] /\ read'[d] = read[d]
                                 \/ pc'[d] = "gone" /\ read'[d] = NoRead
  BY <1>1, Zenon DEF Crash
<1>2. CASE ~\E r \in Replica : Crash(r)
  BY <1>2, Zenon DEF Age, Touch, DeleteNext, DeleteStart, vars
<1> QED
  BY <1>1, <1>2, Zenon

\* It changes no object, but deletes it or gives it an empty status.
LEMMA TouchedOrGone ==
  ASSUME WellFormed, TypeOK,
         \/ \E r \in Replica, n \in Name : Age(r, n)
         \/ Touch \/ DeleteNext
         \/ \E r \in Replica : DeleteStart(r) \/ Crash(r)
         \/ UNCHANGED vars,
         NEW m \in Provider
  PROVE  /\ crs'[m] = None \/ SameObject(crs'[m], crs[m])
         /\ ~DeleteNext => SameObject(crs'[m], crs[m])
         /\ crs'[m] # None => crs[m] # None /\ (Done(crs'[m].status) <=> Done(crs[m].status))
<1>1. m \in Name /\ m # "legacy"
  BY Zenon DEF Name, WellFormed
<1>2. crs'[m] = crs[m] => SameObject(crs'[m], crs[m])
  BY Zenon DEF SameObject, SameStatus
<1>3. ASSUME Touch
      PROVE  SameObject(crs'[m], crs[m])
  BY <1>1, <1>3, TouchMoves, Zenon
<1>4. ASSUME DeleteNext
      PROVE  crs'[m] = None \/ crs'[m] = crs[m]
  BY <1>1, <1>4, Zenon DEF DeleteNext, TypeOK
<1>5. ASSUME ~Touch, ~DeleteNext
      PROVE  crs'[m] = crs[m]
  BY <1>5, ZenonT(30) DEF Age, DeleteStart, Crash, KeepObjects, vars
<1>6. SameObject(crs'[m], crs[m]) /\ crs'[m] # None => crs[m] # None /\ (Done(crs'[m].status) <=> Done(crs[m].status))
  BY SameReads, Zenon DEF SameObject
<1> QED
  BY <1>2, <1>3, <1>4, <1>5, <1>6, Zenon

\* The invariant holds initially.
LEMMA InitInv == WellFormed /\ Init => Inv
<1> SUFFICES ASSUME WellFormed, Init PROVE Inv
  BY Zenon
<1>1. PICK l \in Legacies : crs = [n \in Name |-> IF n = "legacy" THEN l ELSE None]
  BY Zenon DEF Init
<1>2. l = None \/ l \in LegacyObject
  BY Zenon DEF WellFormed
<1>3. l \in LegacyObject => l \in Object
  BY DEF LegacyObject, Object, CacheStatus
<1>4. NoRead \in [version: Nat, status: CacheStatus \cup {None}, fresh: BOOLEAN]
      /\ NoRead.version = 0 /\ NoRead.fresh = FALSE
  BY Zenon DEF NoRead
<1>5. TypeOK
  <2>1. crs \in [Name -> Object \cup {None}]
    BY <1>1, <1>2, <1>3, Zenon
  <2>2. version \in [Name -> Nat] /\ obs \in [Replica -> [Name -> Observation \cup {None}]]
    BY Zenon DEF Init
  <2>3. pc \in [Claim -> Label] /\ spent \subseteq Claim /\ faults \subseteq Fault /\ budget \in Nat
    BY Zenon DEF Init, Label, WellFormed
  <2>4. read \in [Claim -> [version: Nat, status: CacheStatus \cup {None}, fresh: BOOLEAN]]
    BY <1>4, Zenon DEF Init
  <2>5. removal \in [by: Replica \cup {None}, names: Seq(Name)]
    BY DEF Init
  <2> QED
    BY <2>1, <2>2, <2>3, <2>4, <2>5, Zenon DEF TypeOK
<1>6. "legacy" \in Name /\ crs["legacy"] = l
  BY <1>1, Zenon DEF Name
<1>7. ASSUME NEW c \in Claim
      PROVE  ReadInv(c) /\ CopyInv(c) /\ SpentInv(c)
  <2>1. NameOf(c) \in Name /\ version[NameOf(c)] = 0 /\ pc[c] = "get" /\ read[c] = NoRead /\ c \notin spent
    BY <1>5, CallerNames, Zenon DEF Init
  <2> QED
    BY <1>4, <2>1 DEF ReadInv, CopyInv, SpentInv
<1>8. ASSUME NEW n \in Name
      PROVE  BeatInv(n)
  <2>1. version[n] = 0 /\ \A r \in Replica : obs[r][n] = None
    BY Zenon DEF Init
  <2>2. crs[n] # None => l \in LegacyObject /\ crs[n] = l
    BY <1>1, <1>2, Zenon
  <2>3. l \in LegacyObject => Fingerprint(l.status)[2] = 0
    BY Zenon DEF LegacyObject, Fingerprint
  <2> QED
    BY <2>1, <2>2, <2>3 DEF BeatInv
<1> QED
  BY <1>5, <1>6, <1>7, <1>8, Zenon DEF Inv, SameObject, SameStatus

\* Every step keeps it.
LEMMA NextInv == WellFormed /\ Inv /\ [Next]_vars => Inv'
<1> SUFFICES ASSUME WellFormed, Inv, [Next]_vars PROVE Inv'
  BY Zenon
<1> DEFINE Env == \/ \E r \in Replica, n \in Name : Age(r, n)
                  \/ Touch \/ DeleteNext
                  \/ \E r \in Replica : DeleteStart(r) \/ Crash(r)
                  \/ UNCHANGED vars
<1>0. Env \/ \E c \in Claim : ClaimStep(c) \/ Refresh(c) \/ CallFails(c)
  BY Zenon DEF Next
<1>1. TypeOK'
  BY <1>0, CallerTypes, EnvironmentTypes, Zenon DEF Inv
<1>2. ASSUME NEW d \in Claim
      PROVE  ReadInv(d)' /\ CopyInv(d)' /\ SpentInv(d)'
  <2>1. ASSUME pc'[d] = pc[d], read'[d] = read[d], d \in spent' <=> d \in spent
        PROVE  ReadInv(d)' /\ CopyInv(d)' /\ SpentInv(d)'
    <3>1. ReadInv(d)'
      BY <2>1, ReadKept, Zenon
    <3> QED
      BY <2>1, <3>1, Zenon DEF Inv, CopyInv, SpentInv
  <2>2. CASE Env
    <3>1. ASSUME pc'[d] = "gone", read'[d] = NoRead, spent' = spent
          PROVE  ReadInv(d)' /\ CopyInv(d)' /\ SpentInv(d)'
      <4>1. version'[NameOf(d)] \in Nat
        BY VersionsGrow, CallerNames, Zenon DEF Inv
      <4> QED
        BY <3>1, <4>1 DEF ReadInv, CopyInv, SpentInv, NoRead
    <3> QED
      BY <2>1, <2>2, <3>1, CrashedCallers, Zenon
  <2>3. ASSUME NEW c \in Claim, ClaimStep(c) \/ Refresh(c) \/ CallFails(c)
        PROVE  ReadInv(d)' /\ CopyInv(d)' /\ SpentInv(d)'
    <3>1. CASE d = c
      BY <2>3, <3>1, CallerInv, Zenon
    <3>2. CASE d # c
      BY <2>1, <2>3, <3>2, OtherCallers, Zenon
    <3> QED
      BY <3>1, <3>2, Zenon
  <2> QED
    BY <1>0, <2>2, <2>3, Zenon
<1>3. ASSUME NEW m \in Name
      PROVE  BeatInv(m)'
  <2>1. /\ version[m] \in Nat /\ version'[m] \in Nat /\ version'[m] >= version[m]
        /\ crs'[m] # None => Fingerprint(crs'[m].status)[2] <= version'[m]
    BY VersionsGrow, Zenon
  <2>2. ASSUME NEW r \in Replica, obs'[r][m] # None
        PROVE  obs'[r][m].seen[2] <= version'[m]
    <3>1. CASE obs[r][m] # None /\ obs'[r][m].seen = obs[r][m].seen
      <4>1. obs[r][m].seen[2] \in Nat /\ obs[r][m].seen[2] <= version[m]
        BY SMTT(30), <3>1 DEF Inv, TypeOK, Observation, BeatInv
      <4> QED
        BY SMTT(30), <2>1, <3>1, <4>1
    <3>2. ASSUME NEW c \in Claim, Examine(c), NameOf(c) = m, obs'[r][m].seen = Fingerprint(read[c].status)
          PROVE  obs'[r][m].seen[2] <= version'[m]
      <4>1. Fingerprint(read[c].status)[2] <= version[m]
        BY <3>2, ZenonT(30) DEF Inv, ReadInv, Examine
      <4>2. Fingerprint(read[c].status)[2] \in Nat
        BY FingerprintType, Zenon DEF Inv, TypeOK
      <4> QED
        BY SMTT(30), <2>1, <3>2, <4>1, <4>2
    <3> QED
      BY <2>2, <3>1, <3>2, ObservationSteps, Zenon
  <2> QED
    BY <2>1, <2>2, Zenon DEF BeatInv
<1>4. crs'["legacy"] # None => \E l \in Legacies : SameObject(crs'["legacy"], l)
  <2> SUFFICES ASSUME crs'["legacy"] # None PROVE \E l \in Legacies : SameObject(crs'["legacy"], l)
    BY Zenon
  <2>1. SameObject(crs'["legacy"], crs["legacy"])
    BY VersionsGrow, Zenon
  <2>2. PICK l \in Legacies : SameObject(crs["legacy"], l)
    BY <2>1, Zenon DEF Inv, SameObject
  <2>3. SameObject(crs'["legacy"], l)
    BY <2>1, <2>2, SameReads, ZenonT(30) DEF SameObject, SameStatus
  <2> QED
    BY <2>3, Zenon
<1> QED
  BY <1>1, <1>2, <1>3, <1>4, Zenon DEF Inv

\* It is an invariant of the registry.
LEMMA Invariance == WellFormed /\ Spec => []Inv
<1>1. CASE WellFormed
  <2>1. Init => Inv
    BY <1>1, InitInv, Zenon
  <2>2. Inv /\ [Next]_vars => Inv'
    BY <1>1, NextInv, Zenon
  <2> QED
    BY <2>1, <2>2, PTL DEF Spec
<1> QED
  BY <1>1, Zenon
-----------------------------------------------------------------------------
(* Answers                                                                 *)

\* What a caller's step records and answers has its origin in its provider.
LEMMA CallerOrigin ==
  ASSUME WellFormed, Inv, OriginInv, NEW c \in Claim, ClaimStep(c) \/ Refresh(c) \/ CallFails(c)
  PROVE  LET n == NameOf(c) IN
         /\ crs'[n] # None /\ Done(crs'[n].status) => Origin(n)
         /\ Done(read'[c].status) => Origin(n)
         /\ pc'[c] = "done" => Origin(n)
         /\ \A m \in Provider : m # n => crs'[m] = crs[m]
<1> DEFINE n == NameOf(c)
<1>1. TypeOK /\ n \in Name /\ n \in Provider /\ version[n] \in Nat /\ CopyInv(c) /\ SpentInv(c) /\ n # "legacy"
      /\ \A m \in Provider : m \in Name /\ m # "legacy"
  BY CallerNames, Zenon DEF Inv, Name, WellFormed
<1>2. /\ crs[n] # None /\ Done(crs[n].status) => Origin(n)
      /\ Done(read[c].status) => Origin(n)
  BY <1>1, Zenon DEF OriginInv
<1>3. pc[c] = "owner" => Origin(n)
  BY <1>1, Zenon DEF SpentInv, Origin
<1>4. pc[c] = "copy" => Origin(n)
  BY <1>1, Zenon DEF CopyInv, Origin
<1>5. ~Done(NoRead.status) /\ ~Done(None)
  BY Zenon DEF Done, NoRead
<1>6. \A b : ~Done(Downloading(c, b))
  BY Zenon DEF Done, Downloading
<1>7. /\ KeepObjects => crs'[n] = crs[n]
      /\ CreateCR(n, n) => ~Done(crs'[n].status)
      /\ crs[n] # None /\ WriteStatus(n, Downloading(c, version[n] + 1)) => ~Done(crs'[n].status)
      /\ crs' = [crs EXCEPT !["legacy"] = None] => crs'[n] = crs[n]
  <2>1. Downloading(c, version[n] + 1) \in CacheStatus
    BY <1>1, StatusType
  <2>2. CreateCR(n, n) => crs'[n].status = None
    BY <1>1, ObjectWrites, Zenon
  <2>3. crs[n] # None /\ WriteStatus(n, Downloading(c, version[n] + 1)) => crs'[n].status = Downloading(c, version[n] + 1)
    BY <1>1, <2>1, ObjectWrites, Zenon
  <2> QED
    BY <1>1, <1>5, <1>6, <2>2, <2>3, ZenonT(40) DEF KeepObjects, TypeOK
<1>8. \A m \in Provider : m # n => crs'[m] = crs[m]
  BY OtherObjects, Zenon
<1>9. PatchApplies(c) \/ StillError(n) \/ Holds(c) => crs[n] # None
  BY Zenon DEF PatchApplies, StillError, Holds
<1>10. /\ crs'[n] # None /\ Done(crs'[n].status) => Origin(n)
       /\ Done(read'[c].status) => Origin(n)
       /\ pc'[c] = "done" => Origin(n)
  <2>1. CASE pc[c] \in {"owner", "copy"}
    BY <1>3, <1>4, <2>1, Zenon
  <2>2. CASE /\ pc[c] \notin {"owner", "copy"}
             /\ \/ AdoptCreate(c) \/ AdoptCopy(c) \/ AdoptDrop(c) \/ Create(c) \/ Patch(c)
                \/ Reset(c) \/ Refresh(c) \/ Finish(c)
    <3>1. Done(read'[c].status) => Origin(n)
      BY <1>1, <1>2, <1>5, <2>2, AdoptCreateMoves, AdoptCopyMoves, AdoptDropMoves, CreateMoves, PatchMoves, ResetMoves, RefreshMoves, FinishMoves, ZenonT(30)
    <3>2. pc'[c] # "done"
      BY <1>1, <2>2, AdoptCreateMoves, AdoptCopyMoves, AdoptDropMoves, CreateMoves, PatchMoves, ResetMoves, RefreshMoves, FinishMoves, ZenonT(30)
    <3>3. crs'[n] # None /\ Done(crs'[n].status) => Origin(n)
      BY <1>1, <1>2, <1>7, <1>9, <2>2, AdoptCreateMoves, AdoptCopyMoves, AdoptDropMoves, CreateMoves, PatchMoves, ResetMoves, RefreshMoves, FinishMoves, ZenonT(30)
    <3> QED
      BY <3>1, <3>2, <3>3, Zenon
  <2>3. CASE \/ ClaimGet(c) \/ LegacyGet(c) \/ AdoptRead(c) \/ Raced(c) \/ Examine(c) \/ Reread(c)
             \/ RetryGet(c) \/ CallFails(c)
    <3>1. crs'[n] = crs[n]
      BY <1>7, <2>3, ReadingKeeps, Zenon
    <3>2. crs["legacy"] # None /\ crs["legacy"].provider = n => Origin(n)
      BY Zenon DEF Inv, Origin, SameObject
    <3>3. (Done(read'[c].status) => Origin(n)) /\ (pc'[c] = "done" => Origin(n))
      BY <1>1, <1>2, <1>5, <2>3, <3>2, ClaimGetMoves, LegacyGetMoves, AdoptReadMoves, RacedMoves, ExamineMoves, RereadMoves, RetryGetMoves, CallFailsMoves, ZenonT(40)
    <3> QED
      BY <1>2, <3>1, <3>3, ZenonT(30)
  <2> QED
    BY <2>1, <2>2, <2>3, CallerCases, ZenonT(40)
<1> QED
  BY <1>8, <1>10, Zenon

\* A caller is told DOWNLOADED only for a download of its own provider
\* (adopt_legacy_cr, status_from_phase): a download some claim of that provider
\* made, or the name-only record an older server left for it.
THEOREM OwnAnswers == WellFormed /\ Spec => []AnsweredForOwnProvider
<1> SUFFICES ASSUME WellFormed PROVE Spec => []AnsweredForOwnProvider
  BY Zenon
<1>1. Init => OriginInv
  <2> SUFFICES ASSUME Init PROVE OriginInv
    BY Zenon
  <2>1. \A n \in Provider : crs[n] = None
    BY Zenon DEF Init, Name, WellFormed
  <2>2. \A c \in Claim : pc[c] = "get" /\ read[c].status = None
    BY Zenon DEF Init, NoRead
  <2> QED
    BY <2>1, <2>2, Zenon DEF OriginInv, Done
<1>2. Inv /\ OriginInv /\ [Next]_vars => OriginInv'
  <2> SUFFICES ASSUME Inv, OriginInv, [Next]_vars PROVE OriginInv'
    BY Zenon
  <2>1. ASSUME \/ \E r \in Replica, n \in Name : Age(r, n)
               \/ Touch \/ DeleteNext
               \/ \E r \in Replica : DeleteStart(r) \/ Crash(r)
               \/ UNCHANGED vars
        PROVE  OriginInv'
    <3>1. /\ spent' = spent
          /\ \A d \in Claim : \/ pc'[d] = pc[d] /\ read'[d] = read[d]
                              \/ pc'[d] = "gone" /\ read'[d] = NoRead
      BY <2>1, CrashedCallers, Zenon
    <3>2. \A n \in Provider : crs'[n] # None => crs[n] # None /\ (Done(crs'[n].status) <=> Done(crs[n].status))
      BY <2>1, TouchedOrGone, Zenon DEF Inv
    <3>3. \A n : Origin(n)' <=> Origin(n)
      BY <3>1, Zenon DEF Origin
    <3>4. ~Done(NoRead.status)
      BY Zenon DEF NoRead, Done
    <3> QED
      BY <3>1, <3>2, <3>3, <3>4, Zenon DEF OriginInv
  <2>2. ASSUME NEW c \in Claim, ClaimStep(c) \/ Refresh(c) \/ CallFails(c)
        PROVE  OriginInv'
    <3> DEFINE n == NameOf(c)
    <3>1. /\ \A d \in Claim : d # c => pc'[d] = pc[d] /\ read'[d] = read[d]
          /\ spent' = spent \/ spent' = spent \cup {c}
      BY <2>2, OtherCallers, Zenon
    <3>2. /\ crs'[n] # None /\ Done(crs'[n].status) => Origin(n)
          /\ Done(read'[c].status) => Origin(n)
          /\ pc'[c] = "done" => Origin(n)
          /\ \A m \in Provider : m # n => crs'[m] = crs[m]
      BY <2>2, CallerOrigin, Zenon
    <3>3. \A m : Origin(m) => Origin(m)'
      BY <3>1, Zenon DEF Origin
    <3>4. \A m \in Provider : crs'[m] # None /\ Done(crs'[m].status) => Origin(m)
      BY <3>2, Zenon DEF OriginInv
    <3>5. \A d \in Claim : /\ Done(read'[d].status) => Origin(NameOf(d))
                           /\ pc'[d] = "done" => Origin(NameOf(d))
      BY <3>1, <3>2, Zenon DEF OriginInv
    <3> QED
      BY <3>3, <3>4, <3>5, Zenon DEF OriginInv, Done
  <2> QED
    BY <2>1, <2>2, Zenon DEF Next
<1>3. OriginInv => AnsweredForOwnProvider
  BY Zenon DEF OriginInv, Origin, AnsweredForOwnProvider, NameOf
<1>4. Spec => []Inv
  BY Invariance, Zenon
<1> QED
  BY <1>1, <1>2, <1>3, <1>4, PTL DEF Spec

\* The registry's state stays well-typed.
THEOREM TypeCorrect == WellFormed /\ Spec => []TypeOK
<1>1. Inv => TypeOK
  BY Zenon DEF Inv
<1> QED
  BY <1>1, Invariance, PTL

-----------------------------------------------------------------------------
(* The object as a claim                                                   *)

\* A live caller that owns the object of n, or is about to write its first status.
Attends(c, n) ==
  /\ NameOf(c) = n /\ crs[n] # None
  /\ \/ pc[c] = "owner" /\ Holds(c)
     \/ /\ Blank(crs[n].status)
        /\ pc[c] = "copy" \/ (pc[c] \in {"examine", "patch"} /\ read[c].fresh)

\* An owner holds its object and an adopter's is still without a status; what a
\* caller has read exists.
OwnerInv(c) == LET n == NameOf(c) IN
  /\ pc[c] \in {"owner", "copy"} => Attends(c, n)
  /\ pc[c] \in {"examine", "patch"} => crs[n] # None

\* An object is attended by one caller.  No replica has seen its status for a
\* whole lease, and whoever judged it lapsed has read an older version.
AttendedInv(c) == LET n == NameOf(c) IN
  Attends(c, n) =>
    /\ \A d \in Claim : Attends(d, n) => d = c
    /\ \A r \in Replica : obs[r][n] # None =>
         ~(obs[r][n].aged /\ obs[r][n].seen = Fingerprint(crs[n].status))
    /\ \A d \in Claim : NameOf(d) = n /\ pc[d] = "patch" /\ PatchApplies(d) => read[d].fresh

\* That is so while no lease is judged late and nothing is deleted.
Quiet == Without({"late", "delete"})
QuietInv ==
  Quiet =>
    /\ \A c \in Claim : OwnerInv(c) /\ AttendedInv(c)
    /\ \A n \in Provider, r \in Replica : crs[n] = None => obs[r][n] = None
    /\ removal.names = <<>>

\* The download recorded under the name-only object l.
AdoptInv(l) == LET n == l.provider IN
  Without({"late", "delete", "crash", "error", "reply"}) =>
    /\ crs[n] = None => crs["legacy"] # None
    /\ crs[n] # None => \/ crs[n].status = l.status
                        \/ Blank(crs[n].status) /\ \E c \in Claim : NameOf(c) = n /\ pc[c] = "copy"
    /\ \A c \in Claim : NameOf(c) = n =>
         c \notin spent /\ (pc[c] \in {"create", "drop"} => crs[n] # None)
-----------------------------------------------------------------------------
(* One owner                                                               *)

\* Faults are remembered.
LEMMA FaultsKept ==
  ASSUME [Next]_vars
  PROVE  /\ \A k \in faults : k \in faults'
         /\ Quiet' => Quiet
<1>1. ASSUME \/ NoFault \/ UNCHANGED <<faults, budget>> \/ \E k : Fail(k)
      PROVE  \A k \in faults : k \in faults'
  BY <1>1, Zenon DEF NoFault, Fail
<1>2. \/ NoFault \/ UNCHANGED <<faults, budget>> \/ \E k : Fail(k)
  <2>1. ASSUME NEW c \in Claim, ClaimStep(c) \/ Refresh(c) \/ CallFails(c)
        PROVE  \/ NoFault \/ UNCHANGED <<faults, budget>> \/ \E k : Fail(k)
    BY <2>1, ZenonT(30) DEF ClaimStep, CallFails, ClaimGet, LegacyGet, AdoptCreate, AdoptCopy,
         AdoptDrop, AdoptRead, Create, Raced, Examine, Reread, RetryGet, Patch, Reset, Refresh, Finish
  <2>2. ASSUME \/ \E r \in Replica, n \in Name : Age(r, n)
               \/ Touch \/ DeleteNext
               \/ \E r \in Replica : DeleteStart(r) \/ Crash(r)
               \/ UNCHANGED vars
        PROVE  \/ NoFault \/ UNCHANGED <<faults, budget>> \/ \E k : Fail(k)
    BY <2>2, ZenonT(30) DEF Age, Touch, DeleteNext, DeleteStart, Crash, vars
  <2> QED
    BY <2>1, <2>2, ZenonT(30) DEF Next
<1>3. \A k \in faults : k \in faults'
  BY <1>1, <1>2, Zenon
<1> QED
  BY <1>3, Zenon DEF Quiet, Without

\* A caller that does not move attends what it attended.
LEMMA AttendsKept ==
  ASSUME NEW d \in Claim, pc'[d] = pc[d], read'[d] = read[d], SameObject(crs'[NameOf(d)], crs[NameOf(d)])
  PROVE  Attends(d, NameOf(d))' <=> Attends(d, NameOf(d))
<1> DEFINE n == NameOf(d)
<1>1. crs'[n] = None <=> crs[n] = None
  BY Zenon DEF SameObject
<1>2. crs[n] # None => (Blank(crs'[n].status) <=> Blank(crs[n].status)) /\ (~Blank(crs'[n].status) => crs'[n].status = crs[n].status)
  BY SameReads, Zenon DEF SameObject
<1>3. \A st : st # None /\ st.phase = "DOWNLOADING" => ~Blank(st)
  BY TouchedType, Zenon DEF Blank
<1>4. Holds(d)' <=> Holds(d)
  BY <1>1, <1>2, <1>3, ZenonT(30) DEF Holds
<1> QED
  BY <1>1, <1>2, <1>4, ZenonT(30) DEF Attends

\* A caller whose step does not write its object attends nothing new.
LEMMA CallerKeeps ==
  ASSUME WellFormed, Inv, NEW c \in Claim, ClaimStep(c) \/ Refresh(c) \/ CallFails(c),
         OwnerInv(c), crs'[NameOf(c)] = crs[NameOf(c)], version'[NameOf(c)] = version[NameOf(c)]
  PROVE  /\ pc'[c] \notin {"owner", "copy"}
         /\ Attends(c, NameOf(c))' => Attends(c, NameOf(c))
         /\ pc'[c] \in {"examine", "patch"} => crs[NameOf(c)] # None
         /\ pc'[c] = "patch" => Examine(c)
<1> DEFINE n == NameOf(c)
<1>1. TypeOK /\ n \in Name /\ n \in Provider /\ version[n] \in Nat
  BY CallerNames, Zenon DEF Inv
<1>2. ASSUME NEW st \in CacheStatus, crs[n] # None, WriteStatus(n, st) PROVE FALSE
  BY SMTT(30), <1>1, <1>2, ObjectWrites
<1>3. ~CreateCR(n, n)
  BY SMTT(30), <1>1, ObjectWrites
<1>4. Downloading(c, version[n] + 1) \in CacheStatus
  BY <1>1, StatusType
<1>5. ~(crs[n] # None /\ WriteStatus(n, Downloading(c, version[n] + 1)))
  BY <1>2, <1>4, Zenon
<1>6. CASE AdoptCreate(c) \/ AdoptCopy(c) \/ AdoptDrop(c) \/ Create(c) \/ Finish(c)
  <2>1. pc'[c] \notin {"owner", "copy", "examine", "patch"}
    BY <1>1, <1>3, <1>6, AdoptCreateMoves, AdoptCopyMoves, AdoptDropMoves, CreateMoves, FinishMoves, ZenonT(40)
  <2> QED
    BY <2>1, Zenon DEF Attends
<1>7. CASE Patch(c) \/ Reset(c) \/ Refresh(c)
  <2>1. PatchApplies(c) \/ StillError(n) \/ Holds(c) => crs[n] # None
    BY Zenon DEF PatchApplies, StillError, Holds
  <2>2. pc'[c] \notin {"owner", "copy", "examine", "patch"}
    BY <1>1, <1>5, <1>7, <2>1, PatchMoves, ResetMoves, RefreshMoves, ZenonT(40)
  <2> QED
    BY <2>2, Zenon DEF Attends
<1>8. CASE \/ ClaimGet(c) \/ LegacyGet(c) \/ AdoptRead(c) \/ Raced(c) \/ Reread(c) \/ RetryGet(c) \/ CallFails(c)
  <2>1. /\ pc'[c] \notin {"owner", "copy", "patch"}
        /\ pc'[c] = "examine" => crs[n] # None /\ read'[c].fresh = FALSE
    BY <1>1, <1>8, ClaimGetMoves, LegacyGetMoves, AdoptReadMoves, RacedMoves, RereadMoves, RetryGetMoves, CallFailsMoves, ZenonT(40)
  <2> QED
    BY <2>1, Zenon DEF Attends
<1>9. CASE Examine(c)
  <2>1. pc[c] = "examine"
    BY <1>9, Zenon DEF Examine
  <2>2. pc'[c] \notin {"owner", "copy", "examine"} /\ (pc'[c] = "patch" => read'[c] = read[c])
    BY <1>1, <1>9, ExamineMoves, Zenon
  <2>3. crs[n] # None
    BY <2>1, Zenon DEF OwnerInv
  <2> QED
    BY <1>9, <2>1, <2>2, <2>3, Zenon DEF Attends
<1> QED
  BY <1>6, <1>7, <1>8, <1>9, CallerCases, Zenon

\* Only the caller that attends an object writes it, or nobody attends it.
LEMMA CallerWrites ==
  ASSUME WellFormed, Inv, NEW c \in Claim, ClaimStep(c) \/ Refresh(c) \/ CallFails(c),
         \A d \in Claim : OwnerInv(d) /\ AttendedInv(d),
         crs[NameOf(c)] # None, ~(crs'[NameOf(c)] = crs[NameOf(c)] /\ version'[NameOf(c)] = version[NameOf(c)])
  PROVE  LET n == NameOf(c) IN
         /\ \A d \in Claim : Attends(d, n) => d = c
         /\ crs'[n] # None /\ version'[n] = version[n] + 1
         /\ pc'[c] \notin {"examine", "patch", "copy"}
         /\ ~Blank(crs'[n].status) /\ crs'[n].status.claim \in {c, None}
         /\ pc'[c] = "owner" => crs'[n].status = Downloading(c, version[n] + 1)
         /\ obs' = obs \/ ForgetObservation(HomeOf[c], n)
<1> DEFINE n == NameOf(c)
<1>1. TypeOK /\ n \in Name /\ n \in Provider /\ version[n] \in Nat /\ n # "legacy"
  BY CallerNames, Zenon DEF Inv
<1>0. ~KeepObjects /\ ~(version' = version /\ crs' = [crs EXCEPT !["legacy"] = None])
  BY <1>1, Zenon DEF KeepObjects, TypeOK
<1>2. ASSUME NEW st \in CacheStatus, st.phase # "", WriteStatus(n, st)
      PROVE  crs'[n] # None /\ version'[n] = version[n] + 1 /\ crs'[n].status = st /\ ~Blank(st)
  <2>1. ~Blank(st)
    BY <1>2, TouchedType, Zenon DEF Blank, WellFormed
  <2> QED
    BY <1>1, <1>2, <2>1, ObjectWrites, ZenonT(40)
<1>3. /\ Downloading(c, version[n] + 1) \in CacheStatus /\ Downloading(c, version[n] + 1).claim = c
      /\ Downloading(c, version[n] + 1).phase # ""
      /\ \A s \in {"DOWNLOADED", "ERROR"} :
           Terminal(s) \in CacheStatus /\ Terminal(s).claim = None /\ Terminal(s).phase # ""
  BY <1>1, StatusType DEF Downloading, Terminal
<1>4. Attends(c, n) => \A d \in Claim : Attends(d, n) => d = c
  BY Zenon DEF AttendedInv
<1>5. CASE Patch(c)
  <2>1. PatchApplies(c) /\ WriteStatus(n, Downloading(c, version[n] + 1)) /\ pc'[c] \in {"owner", "get"} /\ pc[c] = "patch"
        /\ (obs' = obs \/ ForgetObservation(HomeOf[c], n))
    BY <1>0, <1>1, <1>5, PatchMoves, ZenonT(40)
  <2>2. CASE read[c].fresh
    <3>1. crs[n].status = None
      BY <2>1, <2>2, Zenon DEF Inv, ReadInv
    <3>2. Attends(c, n)
      BY <2>1, <2>2, <3>1, Zenon DEF Attends, Blank
    <3> QED
      BY <1>2, <1>3, <1>4, <2>1, <3>2, ZenonT(40)
  <2>3. CASE ~read[c].fresh
    <3>1. \A d \in Claim : ~Attends(d, n)
      <4> TAKE d \in Claim
      <4>1. Attends(d, n) => NameOf(d) = n
        BY Zenon DEF Attends
      <4> QED
        BY <2>1, <2>3, <4>1, Zenon DEF AttendedInv
    <3> QED
      BY <1>2, <1>3, <2>1, <3>1, Zenon
  <2> QED
    BY <2>2, <2>3, Zenon
<1>6. CASE Reset(c)
  <2>1. StillError(n) /\ WriteStatus(n, Downloading(c, version[n] + 1)) /\ pc'[c] \in {"owner", "get"}
        /\ (obs' = obs \/ ForgetObservation(HomeOf[c], n))
    BY <1>0, <1>1, <1>6, ResetMoves, ZenonT(40)
  <2>2. \A d \in Claim : ~Attends(d, n)
    BY <2>1, TouchedType, Zenon DEF Attends, Holds, StillError, Blank
  <2> QED
    BY <1>2, <1>3, <2>1, <2>2, Zenon
<1>7. CASE Refresh(c)
  <2>1. Holds(c) /\ WriteStatus(n, Downloading(c, version[n] + 1)) /\ pc'[c] = "owner" /\ pc[c] = "owner" /\ obs' = obs
    BY <1>0, <1>1, <1>7, RefreshMoves, Zenon
  <2>2. Attends(c, n)
    BY <2>1, Zenon DEF OwnerInv
  <2> QED
    BY <1>2, <1>3, <1>4, <2>1, <2>2, Zenon
<1>8. CASE Finish(c)
  <2>1. /\ Holds(c) /\ pc'[c] = "done" /\ pc[c] = "owner" /\ ForgetObservation(HomeOf[c], n)
        /\ \E s \in {"DOWNLOADED", "ERROR"} : WriteStatus(n, Terminal(s))
    BY <1>0, <1>1, <1>8, FinishMoves, Zenon
  <2>2. Attends(c, n)
    BY <2>1, Zenon DEF OwnerInv
  <2>3. PICK s \in {"DOWNLOADED", "ERROR"} : WriteStatus(n, Terminal(s))
    BY <2>1, Zenon
  <2> QED
    BY <1>2, <1>3, <1>4, <2>1, <2>2, <2>3, ZenonT(40)
<1>9. CASE AdoptCopy(c)
  <2>1. WriteStatus(n, Copied(read[c].status)) /\ pc'[c] = "drop" /\ pc[c] = "copy" /\ obs' = obs
    BY <1>0, <1>1, <1>9, AdoptCopyMoves, ZenonT(40)
  <2>2. Attends(c, n)
    BY <2>1, Zenon DEF OwnerInv
  <2>3. Copied(read[c].status) \in CacheStatus
    BY <1>1, StatusType, Zenon DEF TypeOK, Copied
  <2>4. Copied(read[c].status).claim = None /\ Copied(read[c].status).phase # ""
    <3>1. PICK l \in Legacies : l # None /\ SameStatus(read[c].status, l.status)
      BY <2>1, Zenon DEF Inv, CopyInv
    <3>2. l.status = None \/ l.status.claim = None
      BY <3>1, Zenon DEF WellFormed, LegacyObject
    <3>3. Fingerprint(read[c].status)[1] = None
      BY <3>1, <3>2, SameReads, Zenon DEF Fingerprint
    <3>4. status_from_phase(read[c].status) # ""
      BY Zenon DEF status_from_phase, Unset
    <3> QED
      BY <3>3, <3>4, Zenon DEF Copied
  <2> QED
    BY <1>2, <1>4, <2>1, <2>2, <2>3, <2>4, ZenonT(40)
<1>10. ~(AdoptCreate(c) \/ Create(c) \/ AdoptDrop(c))
  BY <1>0, <1>1, AdoptCreateMoves, CreateMoves, AdoptDropMoves, ZenonT(30) DEF KeepObjects
<1> QED
  BY <1>0, <1>5, <1>6, <1>7, <1>8, <1>9, <1>10, CallerCases, ReadingKeeps, ZenonT(40)

\* Whoever creates an object attends it.
LEMMA CallerCreates ==
  ASSUME WellFormed, Inv, NEW c \in Claim, ClaimStep(c) \/ Refresh(c) \/ CallFails(c),
         crs[NameOf(c)] = None, ~(crs'[NameOf(c)] = crs[NameOf(c)] /\ version'[NameOf(c)] = version[NameOf(c)])
  PROVE  LET n == NameOf(c) IN
         /\ crs'[n] # None /\ crs'[n].status = None /\ version'[n] = version[n] + 1 /\ obs' = obs
         /\ pc'[c] = "copy" \/ (pc'[c] = "examine" /\ read'[c].fresh)
<1> DEFINE n == NameOf(c)
<1>1. TypeOK /\ n \in Name /\ n \in Provider /\ version[n] \in Nat /\ n # "legacy"
  BY CallerNames, Zenon DEF Inv
<1>0. ~KeepObjects /\ ~(version' = version /\ crs' = [crs EXCEPT !["legacy"] = None])
  BY <1>1, Zenon DEF KeepObjects, TypeOK
<1>2. CreateCR(n, n) => crs'[n] # None /\ crs'[n].status = None /\ version'[n] = version[n] + 1
  BY <1>1, ObjectWrites, Zenon
<1>3. CASE AdoptCreate(c) \/ Create(c)
  BY <1>0, <1>1, <1>2, <1>3, AdoptCreateMoves, CreateMoves, ZenonT(30)
<1>4. ~(AdoptCopy(c) \/ AdoptDrop(c) \/ Patch(c) \/ Reset(c) \/ Refresh(c) \/ Finish(c))
  BY <1>0, <1>1, AdoptCopyMoves, AdoptDropMoves, PatchMoves, ResetMoves, RefreshMoves, FinishMoves, ZenonT(40) DEF KeepObjects, PatchApplies, StillError, Holds
<1> QED
  BY <1>0, <1>3, <1>4, CallerCases, ReadingKeeps, ZenonT(40)

\* Without late judgements and deletions a step leaves the object of m to those
\* who attended it, or makes its own caller the only one who may.
Kept(m) ==
  /\ SameObject(crs'[m], crs[m])
  /\ \A d \in Claim : NameOf(d) = m =>
       \/ pc'[d] = pc[d] /\ read'[d] = read[d]
       \/ /\ pc'[d] \notin {"owner", "copy"}
          /\ Attends(d, m)' => Attends(d, m)
          /\ pc'[d] \in {"examine", "patch"} => crs[m] # None
          /\ pc'[d] = "patch" => Examine(d)
Written(m, c) ==
  /\ NameOf(c) = m /\ crs'[m] # None /\ version'[m] = version[m] + 1
  /\ \A d \in Claim : Attends(d, m) => d = c
  /\ \A d \in Claim : d # c => pc'[d] = pc[d] /\ read'[d] = read[d]
  /\ \A r \in Replica : obs'[r][m] = None \/ obs'[r][m] = obs[r][m]
  /\ \/ /\ crs[m] = None /\ crs'[m].status = None
        /\ pc'[c] = "copy" \/ (pc'[c] = "examine" /\ read'[c].fresh)
     \/ /\ crs[m] # None /\ ~Blank(crs'[m].status) /\ crs'[m].status.claim \in {c, None}
        /\ pc'[c] \notin {"examine", "patch", "copy"}
        /\ pc'[c] = "owner" => crs'[m].status = Downloading(c, version[m] + 1)

\* Without late judgements and deletions, every step is one of the two.
LEMMA QuietSteps ==
  ASSUME WellFormed, Inv, QuietInv, [Next]_vars, Quiet', NEW m \in Provider
  PROVE  Kept(m) \/ \E c \in Claim : Written(m, c)
<1>1. /\ Quiet /\ removal.names = <<>> /\ m \in Name /\ m # "legacy" /\ TypeOK
      /\ \A c \in Claim : OwnerInv(c) /\ AttendedInv(c)
  BY FaultsKept, Zenon DEF QuietInv, Inv, Name, WellFormed
<1>2. ASSUME \/ \E r \in Replica, n \in Name : Age(r, n)
             \/ Touch \/ DeleteNext
             \/ \E r \in Replica : DeleteStart(r) \/ Crash(r)
             \/ UNCHANGED vars
      PROVE  Kept(m)
  <2>1. ~DeleteNext
    BY <1>1, Zenon DEF DeleteNext
  <2>2. SameObject(crs'[m], crs[m])
    BY <1>1, <1>2, <2>1, TouchedOrGone, Zenon
  <2>3. \A d \in Claim : \/ pc'[d] = pc[d] /\ read'[d] = read[d]
                         \/ pc'[d] = "gone"
    BY <1>2, CrashedCallers, Zenon
  <2>4. \A d \in Claim : pc'[d] = "gone" => ~Attends(d, m)'
    BY Zenon DEF Attends
  <2> QED
    BY <2>2, <2>3, <2>4, Zenon DEF Kept
<1>3. ASSUME NEW c \in Claim, ClaimStep(c) \/ Refresh(c) \/ CallFails(c)
      PROVE  Kept(m) \/ Written(m, c)
  <2> DEFINE n == NameOf(c)
  <2>1. \A d \in Claim : d # c => pc'[d] = pc[d] /\ read'[d] = read[d]
    BY <1>3, OtherCallers, Zenon
  <2>2. n \in Name /\ n \in Provider /\ HomeOf[c] \in Replica
    BY <1>1, CallerNames, Zenon
  <2>3. CASE n # m
    <3>1. SameObject(crs'[m], crs[m])
      BY <1>3, <2>3, OtherObjects, Zenon DEF SameObject, SameStatus
    <3> QED
      BY <2>1, <2>3, <3>1, Zenon DEF Kept
  <2>4. ASSUME n = m, crs'[m] = crs[m], version'[m] = version[m]
        PROVE  Kept(m)
    <3>1. /\ pc'[c] \notin {"owner", "copy"}
          /\ Attends(c, m)' => Attends(c, m)
          /\ pc'[c] \in {"examine", "patch"} => crs[m] # None
          /\ pc'[c] = "patch" => Examine(c)
      BY <1>1, <1>3, <2>4, CallerKeeps, Zenon
    <3>2. SameObject(crs'[m], crs[m])
      BY <2>4, Zenon DEF SameObject, SameStatus
    <3> QED
      BY <2>1, <2>4, <3>1, <3>2, Zenon DEF Kept
  <2>5. ASSUME obs' = obs \/ ForgetObservation(HomeOf[c], n), n = m
        PROVE  \A r \in Replica : obs'[r][m] = None \/ obs'[r][m] = obs[r][m]
    <3>1. ASSUME NEW q \in Replica, ForgetObservation(q, m)
          PROVE  \A r \in Replica : obs'[r][m] = None \/ obs'[r][m] = obs[r][m]
      BY <1>1, <3>1, Zenon DEF ForgetObservation, TypeOK
    <3> QED
      BY <2>2, <2>5, <3>1, Zenon
  <2>6. ASSUME n = m, ~(crs'[m] = crs[m] /\ version'[m] = version[m]), crs[m] # None
        PROVE  Written(m, c)
    <3>1. /\ \A d \in Claim : Attends(d, n) => d = c
          /\ crs'[n] # None /\ version'[n] = version[n] + 1
          /\ pc'[c] \notin {"examine", "patch", "copy"}
          /\ ~Blank(crs'[n].status) /\ crs'[n].status.claim \in {c, None}
          /\ pc'[c] = "owner" => crs'[n].status = Downloading(c, version[n] + 1)
          /\ obs' = obs \/ ForgetObservation(HomeOf[c], n)
      BY <1>1, <1>3, <2>6, CallerWrites, ZenonT(40)
    <3> QED
      BY <2>1, <2>5, <2>6, <3>1, Zenon DEF Written
  <2>7. ASSUME n = m, ~(crs'[m] = crs[m] /\ version'[m] = version[m]), crs[m] = None
        PROVE  Written(m, c)
    <3>1. /\ crs'[n] # None /\ crs'[n].status = None /\ version'[n] = version[n] + 1 /\ obs' = obs
          /\ pc'[c] = "copy" \/ (pc'[c] = "examine" /\ read'[c].fresh)
      BY <1>3, <2>7, CallerCreates, Zenon
    <3>2. \A d \in Claim : ~Attends(d, m)
      BY <2>7, Zenon DEF Attends
    <3> QED
      BY <2>1, <2>7, <3>1, <3>2, Zenon DEF Written
  <2> QED
    BY <2>3, <2>4, <2>6, <2>7, ZenonT(40)
<1> QED
  BY <1>2, <1>3, Zenon DEF Next

\* Who may attend an object after a step that writes it.
LEMMA WrittenBy ==
  ASSUME WellFormed, Inv, NEW m \in Provider, NEW c \in Claim, Written(m, c),
         \A d \in Claim : OwnerInv(d)
  PROVE  /\ \A d \in Claim : Attends(d, m)' => d = c
         /\ \A d \in Claim : NameOf(d) = m => OwnerInv(d)'
         /\ Attends(c, m)' /\ ~Blank(crs'[m].status) => crs'[m].status = Downloading(c, version[m] + 1)
<1>1. ASSUME NEW d \in Claim, d # c, NameOf(d) = m
      PROVE  ~Attends(d, m)' /\ pc'[d] \notin {"owner", "copy"}
  <2>1. pc'[d] = pc[d] /\ read'[d] = read[d] /\ ~Attends(d, m)
    BY <1>1, Zenon DEF Written
  <2>2. pc'[d] \notin {"owner", "copy"}
    BY <1>1, <2>1, ZenonT(40) DEF OwnerInv
  <2>3. CASE crs[m] = None
    <3>1. pc[d] \notin {"examine", "patch"}
      BY <1>1, <2>3, Zenon DEF OwnerInv
    <3> QED
      BY <2>1, <2>2, <3>1, ZenonT(40) DEF Attends
  <2>4. CASE crs[m] # None
    <3>1. ~Blank(crs'[m].status)
      BY <2>4, Zenon DEF Written
    <3> QED
      BY <2>2, <3>1, Zenon DEF Attends
  <2> QED
    BY <2>3, <2>4, Zenon
<1>2. \A d \in Claim : Attends(d, m)' => NameOf(d) = m
  BY Zenon DEF Attends
<1>3. ASSUME crs[m] = None
      PROVE  OwnerInv(c)' /\ crs'[m].status = None
  <2>1. NameOf(c) = m /\ crs'[m] # None /\ crs'[m].status = None
        /\ (pc'[c] = "copy" \/ (pc'[c] = "examine" /\ read'[c].fresh))
    BY <1>3, Zenon DEF Written
  <2> QED
    BY <2>1, Zenon DEF OwnerInv, Attends, Blank
<1>4. ASSUME crs[m] # None
      PROVE  OwnerInv(c)' /\ (Attends(c, m)' => crs'[m].status = Downloading(c, version[m] + 1))
  <2>1. NameOf(c) = m /\ crs'[m] # None /\ ~Blank(crs'[m].status)
        /\ pc'[c] \notin {"examine", "patch", "copy"}
        /\ (pc'[c] = "owner" => crs'[m].status = Downloading(c, version[m] + 1))
    BY <1>4, Zenon DEF Written
  <2>2. pc'[c] = "owner" => Attends(c, m)'
    <3> SUFFICES ASSUME pc'[c] = "owner" PROVE Attends(c, m)'
      BY Zenon
    <3>1. crs'[m].status.phase = "DOWNLOADING" /\ crs'[m].status.claim = c
      BY SMTT(30), <2>1 DEF Downloading
    <3> QED
      BY <2>1, <3>1, Zenon DEF Attends, Holds, Blank
  <2>3. Attends(c, m)' => pc'[c] = "owner"
    BY <2>1, Zenon DEF Attends
  <2> QED
    BY <2>1, <2>2, <2>3, Zenon DEF OwnerInv
<1>5. \A d \in Claim : d # c /\ NameOf(d) = m => OwnerInv(d)'
  <2> SUFFICES ASSUME NEW d \in Claim, d # c, NameOf(d) = m PROVE OwnerInv(d)'
    BY Zenon
  <2> QED
    BY <1>1, Zenon DEF OwnerInv, Written
<1>6. crs'[m].status = None => Blank(crs'[m].status)
  BY Zenon DEF Blank
<1> QED
  BY <1>1, <1>2, <1>3, <1>4, <1>5, <1>6, ZenonT(40)

\* A kept object keeps its owner.
LEMMA KeptOwner ==
  ASSUME NEW d \in Claim, OwnerInv(d), Kept(NameOf(d))
  PROVE  OwnerInv(d)' /\ (Attends(d, NameOf(d))' => Attends(d, NameOf(d)))
<1> DEFINE m == NameOf(d)
<1>1. SameObject(crs'[m], crs[m]) /\ (crs'[m] = None <=> crs[m] = None)
  BY Zenon DEF Kept, SameObject
<1>2. CASE pc'[d] = pc[d] /\ read'[d] = read[d]
  <2>1. Attends(d, m)' <=> Attends(d, m)
    BY <1>1, <1>2, AttendsKept, Zenon
  <2> QED
    BY <1>1, <1>2, <2>1, Zenon DEF OwnerInv
<1>3. CASE ~(pc'[d] = pc[d] /\ read'[d] = read[d])
  <2>1. /\ pc'[d] \notin {"owner", "copy"}
        /\ Attends(d, m)' => Attends(d, m)
        /\ pc'[d] \in {"examine", "patch"} => crs[m] # None
    BY <1>3, Zenon DEF Kept
  <2> QED
    BY <1>1, <2>1, Zenon DEF OwnerInv
<1> QED
  BY <1>2, <1>3, Zenon

\* An attended object is not seen unchanged for a lease, unless an owner is late.
LEMMA AttendedNotAged ==
  ASSUME WellFormed, Inv, QuietInv, [Next]_vars, Quiet', NEW c \in Claim, NEW r \in Replica,
         Attends(c, NameOf(c))', obs'[r][NameOf(c)] # None
  PROVE  ~(obs'[r][NameOf(c)].aged /\ obs'[r][NameOf(c)].seen = Fingerprint(crs'[NameOf(c)].status))
<1> DEFINE m == NameOf(c)
<1>1. /\ Quiet /\ m \in Provider /\ m \in Name /\ TypeOK /\ TypeOK' /\ version[m] \in Nat
      /\ \A d \in Claim : OwnerInv(d) /\ AttendedInv(d)
      /\ \A q \in Replica : crs[m] = None => obs[q][m] = None
  BY FaultsKept, CallerNames, NextInv, Zenon DEF QuietInv, Inv
<1>2. CASE Kept(m)
  <2>0. Attends(c, m)
    BY <1>1, <1>2, KeptOwner, ZenonT(30)
  <2>1. Attends(c, m) /\ Fingerprint(crs'[m].status) = Fingerprint(crs[m].status)
    BY <1>2, <2>0, SameReads, ZenonT(30) DEF Kept, SameObject, Attends
  <2>2. CASE obs'[r][m] = obs[r][m]
    BY <1>1, <2>1, <2>2, Zenon DEF AttendedInv
  <2>3. ASSUME Age(r, m), obs'[r][m].seen = obs[r][m].seen, obs[r][m].seen = Fingerprint(crs[m].status)
        PROVE  FALSE
    <3>1. ~Fail("late")
      BY Zenon DEF Quiet, Without, Fail
    <3>2. ~Fresh(m, obs[r][m].seen)
      BY <2>3, <3>1, Zenon DEF Age
    <3>3. pc[c] = "owner" /\ Holds(c) => Fingerprint(crs[m].status)[1] = c
      BY Zenon DEF Holds, Fingerprint
    <3>4. Blank(crs[m].status) => Fingerprint(crs[m].status)[1] = None
      BY TouchedType, Zenon DEF Fingerprint, Blank
    <3>5. Attended(m, Fingerprint(crs[m].status))
      BY <2>1, <3>3, <3>4, ZenonT(40) DEF Attends, Attended
    <3> QED
      BY <2>1, <2>3, <3>2, <3>5, ZenonT(40) DEF Fresh, Attends
  <2> QED
    BY <1>1, <2>1, <2>2, <2>3, ObservationSteps, ZenonT(30)
<1>3. ASSUME NEW e \in Claim, Written(m, e)
      PROVE  ~(obs'[r][m].aged /\ obs'[r][m].seen = Fingerprint(crs'[m].status))
  <2>1. e = c
    BY <1>1, <1>3, WrittenBy, Zenon
  <2>2. obs'[r][m] = obs[r][m] /\ obs[r][m] # None
    BY <1>3, Zenon DEF Written
  <2>3. crs[m] # None /\ ~Blank(crs'[m].status)
    BY <1>1, <1>3, <2>2, Zenon DEF Written
  <2>4. crs'[m].status = Downloading(c, version[m] + 1)
    BY <1>1, <1>3, <2>1, <2>3, WrittenBy, ZenonT(40)
  <2>5. Downloading(c, version[m] + 1) # None
    BY <2>3, <2>4, ZenonT(40) DEF Blank
  <2>6. Fingerprint(crs'[m].status)[2] = version[m] + 1
    BY SMTT(30), <2>4, <2>5 DEF Fingerprint, Downloading
  <2>7. obs[r][m].seen[2] \in Nat /\ obs[r][m].seen[2] <= version[m]
    BY SMTT(30), <1>1, <2>2 DEF Inv, BeatInv, TypeOK, Observation
  <2> QED
    BY SMTT(30), <1>1, <2>2, <2>6, <2>7
<1> QED
  BY <1>1, <1>2, <1>3, QuietSteps, ZenonT(40)

\* Whoever judged an attended object lapsed decides on an older version.
LEMMA AttendedNotPatched ==
  ASSUME WellFormed, Inv, QuietInv, [Next]_vars, Quiet', NEW c \in Claim, NEW d \in Claim,
         Attends(c, NameOf(c))', NameOf(d) = NameOf(c), pc'[d] = "patch", PatchApplies(d)'
  PROVE  read'[d].fresh
<1> DEFINE m == NameOf(c)
<1>1. /\ Quiet /\ m \in Provider /\ m \in Name /\ TypeOK /\ TypeOK' /\ version[m] \in Nat
      /\ \A e \in Claim : OwnerInv(e) /\ AttendedInv(e)
      /\ ReadInv(d) /\ read[d].version \in Nat /\ HomeOf[d] \in Replica
  BY FaultsKept, CallerNames, NextInv, ZenonT(30) DEF QuietInv, Inv, TypeOK
<1>0. version'[m] \in Nat /\ version'[m] >= version[m] /\ version'[m] = read'[d].version /\ crs'[m] # None
  BY <1>1, VersionsGrow, ZenonT(30) DEF PatchApplies
<1>2. CASE Kept(m)
  <2>1. Attends(c, m)
    BY <1>1, <1>2, KeptOwner, ZenonT(40)
  <2>2. ASSUME read'[d] = read[d], pc[d] \in {"examine", "patch"}
        PROVE  PatchApplies(d)
    <3>1. read[d].version <= version[m] /\ version'[m] = read[d].version
      BY <1>0, <1>1, <2>2, ZenonT(40) DEF ReadInv
    <3>2. version'[m] = version[m]
      BY SMTT(30), <1>0, <1>1, <3>1
    <3>3. crs'[m] = crs[m]
      BY <1>0, <1>1, <3>2, VersionsGrow, ZenonT(40)
    <3> QED
      BY <2>2, <3>2, <3>3, ZenonT(40) DEF PatchApplies
  <2>3. CASE pc'[d] = pc[d] /\ read'[d] = read[d]
    BY <1>1, <2>1, <2>2, <2>3, ZenonT(40) DEF AttendedInv
  <2>4. CASE ~(pc'[d] = pc[d] /\ read'[d] = read[d])
    <3>1. Examine(d) /\ pc[d] = "examine"
      BY <1>2, <2>4, ZenonT(30) DEF Kept, Examine
    <3>2. read'[d] = read[d]
      BY <1>1, <3>1, ExamineMoves, Zenon
    <3>3. read[d].fresh \/ lease_has_expired(HomeOf[d], m, read[d].status)
      BY <1>1, <3>1, ExamineMoves, ZenonT(30) DEF Examine
    <3>4. crs[m].status = read[d].status
      BY <1>1, <2>2, <3>1, <3>2, ZenonT(40) DEF ReadInv
    <3> QED
      BY <1>1, <2>1, <3>2, <3>3, <3>4, ZenonT(40) DEF lease_has_expired, AttendedInv
  <2> QED
    BY <2>3, <2>4, Zenon
<1>3. ASSUME NEW e \in Claim, Written(m, e)
      PROVE  read'[d].fresh
  <2>1. pc'[e] # "patch" /\ version'[m] = version[m] + 1
    BY <1>3, Zenon DEF Written
  <2>2. read'[d] = read[d]
    BY <1>3, <2>1, Zenon DEF Written
  <2>3. read[d].version <= version[m]
    BY <1>1, Zenon DEF ReadInv
  <2>4. read[d].version = version'[m] /\ version[m] \in Nat
    BY <1>0, <1>1, <2>2, ZenonT(40)
  <2>5. FALSE
    BY SMTT(30), <2>1, <2>3, <2>4
  <2> QED
    BY <2>5, Zenon
<1> QED
  BY <1>1, <1>2, <1>3, QuietSteps, Zenon

\* QuietInv is inductive, given Inv.
LEMMA NextQuiet == WellFormed /\ Inv /\ QuietInv /\ [Next]_vars => QuietInv'
<1> SUFFICES ASSUME WellFormed, Inv, QuietInv, [Next]_vars, Quiet'
             PROVE  /\ \A c \in Claim : OwnerInv(c)' /\ AttendedInv(c)'
                    /\ \A n \in Provider, r \in Replica : crs'[n] = None => obs'[r][n] = None
                    /\ removal'.names = <<>>
  BY Zenon DEF QuietInv
<1>1. /\ Quiet /\ TypeOK
      /\ \A d \in Claim : OwnerInv(d) /\ AttendedInv(d)
      /\ \A n \in Provider, r \in Replica : crs[n] = None => obs[r][n] = None
      /\ removal.names = <<>>
  BY FaultsKept, Zenon DEF QuietInv, Inv
<1>2. ASSUME NEW c \in Claim
      PROVE  OwnerInv(c)' /\ \A d \in Claim : Attends(c, NameOf(c))' /\ Attends(d, NameOf(c))' => d = c
  <2> DEFINE m == NameOf(c)
  <2>1. m \in Provider
    BY <1>1, CallerNames, Zenon
  <2>2. CASE Kept(m)
    <3>1. ASSUME NEW d \in Claim, Attends(d, m)'
          PROVE  Attends(d, m)
      <4>1. NameOf(d) = m
        BY <3>1, Zenon DEF Attends
      <4> QED
        BY <1>1, <2>2, <3>1, <4>1, KeptOwner, ZenonT(40)
    <3> QED
      BY <1>1, <2>2, <3>1, KeptOwner, Zenon DEF AttendedInv
  <2>3. ASSUME NEW e \in Claim, Written(m, e)
        PROVE  OwnerInv(c)' /\ \A d \in Claim : Attends(c, m)' /\ Attends(d, m)' => d = c
    BY <1>1, <2>1, <2>3, WrittenBy, ZenonT(40)
  <2> QED
    BY <2>1, <2>2, <2>3, QuietSteps, Zenon
<1>3. ASSUME NEW c \in Claim
      PROVE  AttendedInv(c)'
  <2>1. ASSUME Attends(c, NameOf(c))', NEW r \in Replica, obs'[r][NameOf(c)] # None
        PROVE  ~(obs'[r][NameOf(c)].aged /\ obs'[r][NameOf(c)].seen = Fingerprint(crs'[NameOf(c)].status))
    BY <2>1, AttendedNotAged, Zenon
  <2>2. ASSUME Attends(c, NameOf(c))', NEW d \in Claim, NameOf(d) = NameOf(c), pc'[d] = "patch", PatchApplies(d)'
        PROVE  read'[d].fresh
    BY <2>2, AttendedNotPatched, Zenon
  <2> QED
    BY <1>2, <2>1, <2>2, Zenon DEF AttendedInv
<1>4. ASSUME NEW n \in Provider, NEW r \in Replica, crs'[n] = None
      PROVE  obs'[r][n] = None
  <2>1. Kept(n)
    BY <1>4, QuietSteps, Zenon DEF Written
  <2>2. n \in Name /\ crs[n] = None /\ obs[r][n] = None
    BY <1>1, <1>4, <2>1, Zenon DEF Kept, SameObject, Name
  <2>3. ASSUME NEW c \in Claim, Examine(c), NameOf(c) = n
        PROVE  FALSE
    BY <1>1, <2>2, <2>3, Zenon DEF Examine, OwnerInv
  <2> QED
    BY <2>2, <2>3, ObservationSteps, ZenonT(30)
<1>5. removal'.names = <<>>
  <2>1. ~Fail("delete")
    BY Zenon DEF Quiet, Without, Fail
  <2>2. ~DeleteNext
    BY <1>1, ZenonT(40) DEF DeleteNext
  <2>3. ASSUME NEW c \in Claim, ClaimStep(c) \/ Refresh(c) \/ CallFails(c)
        PROVE  removal' = removal
    BY <2>3, ZenonT(30) DEF ClaimStep, CallFails, ClaimGet, LegacyGet, AdoptCreate, AdoptCopy,
         AdoptDrop, AdoptRead, Create, Raced, Examine, Reread, RetryGet, Patch, Reset, Refresh, Finish
  <2>4. ASSUME NEW r \in Replica, Crash(r)
        PROVE  removal' = removal
    <3>1. [removal EXCEPT !.names = <<>>] = removal
      BY <1>1, Zenon DEF TypeOK
    <3> QED
      BY <2>4, <3>1, Zenon DEF Crash
  <2>5. removal' = removal
    BY <2>1, <2>2, <2>3, <2>4, ZenonT(40) DEF Next, Age, Touch, DeleteStart, vars
  <2> QED
    BY <1>1, <2>5, Zenon
<1> QED
  BY <1>2, <1>3, <1>4, <1>5, ZenonT(40)

\* While no lease is judged late and nothing is deleted, QuietInv holds.
LEMMA QuietInvariance == WellFormed /\ Spec => [](Inv /\ QuietInv)
<1> SUFFICES ASSUME WellFormed PROVE Spec => [](Inv /\ QuietInv)
  BY Zenon
<1>1. Init => QuietInv
  <2> SUFFICES ASSUME Init PROVE QuietInv
    BY Zenon
  <2>1. \A c \in Claim : pc[c] = "get"
    BY Zenon DEF Init
  <2>2. \A n \in Provider, r \in Replica : obs[r][n] = None
    BY Zenon DEF Init, Name
  <2> QED
    BY <2>1, <2>2, Zenon DEF Init, QuietInv, OwnerInv, AttendedInv, Attends
<1>2. Inv /\ QuietInv /\ [Next]_vars => QuietInv'
  BY NextQuiet, Zenon
<1>3. Spec => []Inv
  BY Invariance, Zenon
<1> QED
  BY <1>1, <1>2, <1>3, PTL DEF Spec

\* At most one live caller downloads a provider's model (try_claim_existing,
\* try_reset_error_for_retry, refresh_download_claim), whatever calls fail and
\* whichever replicas crash, as long as no owner is judged late and nothing is
\* deleted.
THEOREM OneDownloader == WellFormed /\ Spec => []SingleOwner
<1>1. QuietInv => SingleOwner
  BY Zenon DEF QuietInv, OwnerInv, AttendedInv, SingleOwner, Quiet
<1> QED
  BY <1>1, QuietInvariance, PTL
-----------------------------------------------------------------------------
(* Adoption                                                                *)

Calm == Without({"late", "delete", "crash", "error", "reply"})

\* What a caller of the adopted provider does while nothing goes wrong.
LEMMA AdoptCaller ==
  ASSUME WellFormed, Inv, QuietInv, Calm, Calm', NEW l \in Legacies, Legacies = {l}, l # None, Done(l.status),
         AdoptInv(l), NEW c \in Claim, ClaimStep(c) \/ Refresh(c) \/ CallFails(c), NameOf(c) = l.provider
  PROVE  LET n == l.provider IN
         /\ spent' = spent
         /\ \/ /\ crs'[n] = crs[n] /\ pc[c] # "copy"
               /\ pc'[c] \in {"create", "drop"} => crs[n] # None
            \/ crs[n] = None /\ crs'[n] # None /\ crs'[n].status = None /\ pc'[c] = "copy"
            \/ crs'[n] # None /\ crs'[n].status = l.status /\ pc'[c] = "drop"
<1> DEFINE n == l.provider
<1>1. /\ TypeOK /\ n \in Name /\ n \in Provider /\ n # "legacy" /\ version[n] \in Nat
      /\ ReadInv(c) /\ CopyInv(c) /\ SpentInv(c)
      /\ \A d \in Claim : OwnerInv(d) /\ AttendedInv(d)
  BY CallerNames, Zenon DEF Inv, QuietInv, Quiet, Calm, Without
<1>2. /\ crs[n] = None => crs["legacy"] # None
      /\ crs[n] # None => \/ crs[n].status = l.status
                          \/ Blank(crs[n].status) /\ \E d \in Claim : NameOf(d) = n /\ pc[d] = "copy"
      /\ c \notin spent /\ (pc[c] \in {"create", "drop"} => crs[n] # None)
  BY Zenon DEF AdoptInv, Calm
<1>3. ~Fail("error") /\ ~Fail("reply")
  BY Zenon DEF Calm, Without, Fail
<1>4. l.status # None /\ l.status.phase = "DOWNLOADED" /\ l \in LegacyObject
  BY Zenon DEF Done, WellFormed
<1>5. pc[c] # "owner"
  BY <1>1, <1>2, Zenon DEF SpentInv
<1>6. ~StillError(n)
  BY <1>2, <1>4, TouchedType, Zenon DEF StillError, Blank
<1>7. pc[c] = "patch" => ~PatchApplies(c)
  <2> SUFFICES ASSUME pc[c] = "patch", PatchApplies(c) PROVE FALSE
    BY Zenon
  <2>1. crs[n] # None /\ (crs[n].status # None => crs[n].status.phase = "DOWNLOADING")
    BY Zenon DEF PatchApplies
  <2>2. Blank(crs[n].status)
    BY <1>2, <1>4, <2>1, Zenon
  <2>3. PICK d \in Claim : NameOf(d) = n /\ pc[d] = "copy"
    BY <1>2, <1>4, <2>1, <2>2, ZenonT(40)
  <2>4. Attends(d, n)
    BY <1>1, <2>3, ZenonT(30) DEF OwnerInv
  <2>5. read[c].fresh
    BY <1>1, <2>3, <2>4, Zenon DEF AttendedInv
  <2>6. Attends(c, n)
    BY <2>1, <2>2, <2>5, Zenon DEF Attends
  <2>7. c = d
    BY <1>1, <2>3, <2>4, <2>6, Zenon DEF AttendedInv
  <2> QED
    BY <2>3, <2>7, Zenon
<1>8. pc[c] = "copy" => crs[n] # None
  BY <1>1, Zenon DEF OwnerInv, Attends
<1>9. pc[c] = "copy" => Copied(read[c].status) = l.status
  <2> SUFFICES ASSUME pc[c] = "copy" PROVE Copied(read[c].status) = l.status
    BY Zenon
  <2>0. SameStatus(read[c].status, l.status) /\ ~Blank(l.status)
    BY <1>1, <1>4, TouchedType, Zenon DEF CopyInv, Blank
  <2>1. read[c].status = l.status
    BY <2>0, Zenon DEF SameStatus
  <2>2. l.status = [phase |-> l.status.phase, claim |-> l.status.claim, beat |-> l.status.beat]
    BY <1>4, Zenon DEF LegacyObject
  <2> QED
    BY <1>4, <2>1, <2>2, Zenon DEF Copied, status_from_phase, Unset, Fingerprint
<1>10. l.status \in CacheStatus
  BY SMTT(30), <1>4 DEF LegacyObject, CacheStatus
<1>11. CASE AdoptCreate(c) \/ Create(c)
  <2>1. CreateCR(n, n) => crs'[n] # None /\ crs'[n].status = None
    BY <1>1, ObjectWrites, ZenonT(30)
  <2> QED
    BY <1>1, <1>2, <1>11, <2>1, AdoptCreateMoves, CreateMoves, ZenonT(40) DEF KeepObjects
<1>12. CASE AdoptCopy(c)
  <2>1. spent' = spent /\ pc[c] = "copy" /\ WriteStatus(n, l.status) /\ pc'[c] = "drop"
    BY <1>1, <1>8, <1>9, <1>12, AdoptCopyMoves, Zenon
  <2>2. crs'[n] # None /\ crs'[n].status = l.status
    BY <1>1, <1>8, <1>10, <2>1, ObjectWrites, ZenonT(40)
  <2> QED
    BY <2>1, <2>2, ZenonT(30)
<1>13. CASE AdoptDrop(c)
  BY <1>1, <1>13, AdoptDropMoves, ZenonT(40) DEF TypeOK
<1>14. CASE Patch(c) \/ Reset(c)
  BY <1>1, <1>6, <1>7, <1>14, PatchMoves, ResetMoves, ZenonT(30) DEF KeepObjects
<1>15. ~Refresh(c) /\ ~Finish(c) /\ ~CallFails(c)
  BY <1>3, <1>5, ZenonT(30) DEF Refresh, Finish, CallFails
<1>16. CASE LegacyGet(c)
  <2>1. crs["legacy"] # None => crs["legacy"].provider = n
    BY Zenon DEF Inv, SameObject
  <2> QED
    BY <1>1, <1>2, <1>16, <2>1, LegacyGetMoves, ReadingKeeps, ZenonT(40) DEF KeepObjects, LegacyGet
<1>17. CASE ClaimGet(c) \/ AdoptRead(c) \/ Raced(c) \/ Examine(c) \/ Reread(c) \/ RetryGet(c)
  <2>1. pc[c] # "copy"
    BY <1>17, ZenonT(30) DEF ClaimGet, AdoptRead, Raced, Examine, Reread, RetryGet
  <2>2. pc'[c] \notin {"create", "drop"}
    BY <1>1, <1>17, ClaimGetMoves, AdoptReadMoves, RacedMoves, ExamineMoves, RereadMoves, RetryGetMoves, ZenonT(30)
  <2> QED
    BY <1>17, <2>1, <2>2, ReadingKeeps, ZenonT(40) DEF KeepObjects
<1> QED
  BY <1>11, <1>12, <1>13, <1>14, <1>15, <1>16, <1>17, CallerCases, ZenonT(40)

\* Only an adopter that has copied the name-only object removes it.
LEMMA LegacyDropped ==
  ASSUME WellFormed, Inv, NEW c \in Claim, ClaimStep(c) \/ Refresh(c) \/ CallFails(c),
         crs'["legacy"] # crs["legacy"]
  PROVE  pc[c] = "drop" /\ crs'[NameOf(c)] = crs[NameOf(c)]
<1> DEFINE n == NameOf(c)
<1>1. TypeOK /\ n \in Name /\ n # "legacy" /\ "legacy" \in Name
  BY CallerNames, Zenon DEF Inv
<1>2. \A st : WriteStatus(n, st) => crs'["legacy"] = crs["legacy"]
  BY <1>1, Zenon DEF WriteStatus, TypeOK
<1>3. \A p : CreateCR(n, p) => crs'["legacy"] = crs["legacy"]
  BY <1>1, Zenon DEF CreateCR, TypeOK
<1>4. KeepObjects => crs'["legacy"] = crs["legacy"]
  BY ZenonT(40) DEF KeepObjects
<1>5. AdoptDrop(c)
  BY <1>2, <1>3, <1>4, ZenonT(40) DEF ClaimStep, CallFails, ClaimGet, LegacyGet, AdoptCreate, AdoptCopy,
         AdoptRead, Create, Raced, Examine, Reread, RetryGet, Patch, Reset, Refresh, Finish
<1> QED
  BY <1>1, <1>5, Zenon DEF AdoptDrop, TypeOK

\* Adoption is inductive while nothing goes wrong, given Inv and QuietInv.
LEMMA NextAdopt ==
  ASSUME WellFormed, Inv, QuietInv, NEW l \in Legacies, Legacies = {l}, l # None, Done(l.status),
         AdoptInv(l), [Next]_vars
  PROVE  AdoptInv(l)'
<1> DEFINE n == l.provider
<1> SUFFICES ASSUME Calm'
             PROVE  /\ crs'[n] = None => crs'["legacy"] # None
                    /\ crs'[n] # None => \/ crs'[n].status = l.status
                                         \/ Blank(crs'[n].status) /\ \E c \in Claim : NameOf(c) = n /\ pc'[c] = "copy"
                    /\ \A c \in Claim : NameOf(c) = n =>
                         c \notin spent' /\ (pc'[c] \in {"create", "drop"} => crs'[n] # None)
  BY Zenon DEF AdoptInv, Calm
<1>1. Calm
  BY FaultsKept, Zenon DEF Calm, Without
<1>2. /\ crs[n] = None => crs["legacy"] # None
      /\ crs[n] # None => \/ crs[n].status = l.status
                          \/ Blank(crs[n].status) /\ \E c \in Claim : NameOf(c) = n /\ pc[c] = "copy"
      /\ \A c \in Claim : NameOf(c) = n =>
           c \notin spent /\ (pc[c] \in {"create", "drop"} => crs[n] # None)
  BY <1>1, Zenon DEF AdoptInv, Calm
<1>3. ~Fail("crash") /\ ~Fail("delete") /\ removal.names = <<>>
  BY <1>1, Zenon DEF Calm, Without, Fail, QuietInv, Quiet
<1>4. CASE \/ \E r \in Replica, m \in Name : Age(r, m)
           \/ Touch \/ DeleteNext
           \/ \E r \in Replica : DeleteStart(r) \/ Crash(r)
           \/ UNCHANGED vars
  <2>1. pc' = pc /\ spent' = spent
    BY <1>3, <1>4, ZenonT(40) DEF Age, Touch, DeleteNext, DeleteStart, Crash, vars
  <2>2. n \in Provider /\ n \in Name /\ "legacy" \in Name /\ TypeOK
    BY Zenon DEF WellFormed, LegacyObject, Name, Inv
  <2>3. SameObject(crs'[n], crs[n]) /\ SameObject(crs'["legacy"], crs["legacy"])
    <3>1. CASE Touch
      BY <2>2, <3>1, TouchMoves, Zenon
    <3>2. CASE ~Touch
      <4>1. crs' = crs
        BY <1>3, <1>4, <3>2, ZenonT(40) DEF Age, DeleteNext, DeleteStart, Crash, KeepObjects, vars
      <4> QED
        BY <4>1, Zenon DEF SameObject, SameStatus
    <3> QED
      BY <3>1, <3>2, Zenon
  <2>4. /\ crs'["legacy"] = None <=> crs["legacy"] = None
        /\ crs'[n] = None <=> crs[n] = None
    BY <2>3, Zenon DEF SameObject
  <2>5. crs[n] # None => crs'[n].status = crs[n].status \/ (Blank(crs[n].status) /\ Blank(crs'[n].status))
    BY <2>3, <2>4, Zenon DEF SameObject, SameStatus
  <2>6. Blank(l.status) => FALSE
    BY TouchedType, Zenon DEF Blank, Done
  <2> QED
    BY <1>2, <2>1, <2>4, <2>5, <2>6, ZenonT(40)
<1>5. ASSUME NEW c \in Claim, ClaimStep(c) \/ Refresh(c) \/ CallFails(c)
      PROVE  /\ crs'[n] = None => crs'["legacy"] # None
             /\ crs'[n] # None => \/ crs'[n].status = l.status
                                  \/ Blank(crs'[n].status) /\ \E d \in Claim : NameOf(d) = n /\ pc'[d] = "copy"
             /\ \A d \in Claim : NameOf(d) = n =>
                  d \notin spent' /\ (pc'[d] \in {"create", "drop"} => crs'[n] # None)
  <2>1. \A d \in Claim : d # c => pc'[d] = pc[d] /\ (d \in spent' <=> d \in spent)
    BY <1>5, OtherCallers, Zenon
  <2>2. ASSUME crs'["legacy"] # crs["legacy"]
        PROVE  NameOf(c) = n /\ crs'[n] # None
    <3>1. pc[c] = "drop" /\ crs'[NameOf(c)] = crs[NameOf(c)]
      BY <1>5, <2>2, LegacyDropped, ZenonT(40)
    <3>2. NameOf(c) = n
      BY <3>1, Zenon DEF Inv, CopyInv
    <3> QED
      BY <1>2, <3>1, <3>2, ZenonT(40)
  <2>3. CASE NameOf(c) # n
    <3>1. n \in Provider
      BY Zenon DEF WellFormed, LegacyObject
    <3>2. crs'[n] = crs[n]
      BY <1>5, <2>3, <3>1, OtherObjects, ZenonT(40)
    <3>3. crs'["legacy"] = crs["legacy"]
      BY <2>2, <2>3, Zenon
    <3>4. \A d \in Claim : NameOf(d) = n => pc'[d] = pc[d] /\ (d \in spent' <=> d \in spent)
      BY <2>1, <2>3, Zenon
    <3> QED
      BY <1>2, <3>2, <3>3, <3>4, ZenonT(40)
  <2>4. CASE NameOf(c) = n
    <3>1. /\ spent' = spent
          /\ \/ /\ crs'[n] = crs[n] /\ pc[c] # "copy"
                /\ pc'[c] \in {"create", "drop"} => crs[n] # None
             \/ crs[n] = None /\ crs'[n] # None /\ Blank(crs'[n].status) /\ pc'[c] = "copy"
             \/ crs'[n] # None /\ crs'[n].status = l.status /\ pc'[c] = "drop"
      BY <1>1, <1>5, <2>4, AdoptCaller, ZenonT(40) DEF Blank
    <3>2. crs'[n] = None => crs'["legacy"] # None
      BY <1>2, <2>2, <3>1, ZenonT(40)
    <3>3. \A d \in Claim : NameOf(d) = n =>
            d \notin spent' /\ (pc'[d] \in {"create", "drop"} => crs'[n] # None)
      BY <1>2, <2>1, <3>1, ZenonT(40)
    <3>4. crs'[n] # None => \/ crs'[n].status = l.status
                            \/ Blank(crs'[n].status) /\ \E d \in Claim : NameOf(d) = n /\ pc'[d] = "copy"
      BY <1>2, <2>1, <2>4, <3>1, ZenonT(40)
    <3> QED
      BY <3>2, <3>3, <3>4, Zenon
  <2> QED
    BY <2>3, <2>4, Zenon
<1> QED
  BY <1>4, <1>5, Zenon DEF Next

\* A download recorded under the name-only object of an older server is adopted
\* (adopt_legacy_cr) and no claim of its provider repeats it, as long as no call
\* fails, no replica crashes, no owner is judged late and nothing is deleted.
THEOREM AdoptedOnce == WellFormed /\ Spec => []AdoptedNotRepeated
<1> SUFFICES ASSUME WellFormed PROVE Spec => []AdoptedNotRepeated
  BY Zenon
<1> DEFINE Adopted == \A l \in Legacies : Legacies = {l} /\ l # None /\ Done(l.status) => AdoptInv(l)
<1>1. Init => Adopted
  <2> SUFFICES ASSUME Init, NEW l \in Legacies, Legacies = {l}, l # None PROVE AdoptInv(l)
    BY Zenon
  <2>1. l.provider \in Provider /\ l.provider \in Name /\ l.provider # "legacy" /\ "legacy" \in Name
    BY Zenon DEF WellFormed, LegacyObject, Name
  <2>2. crs[l.provider] = None /\ crs["legacy"] = l
    BY <2>1, Zenon DEF Init
  <2>3. \A c \in Claim : pc[c] = "get" /\ c \notin spent
    BY Zenon DEF Init
  <2> QED
    BY <2>2, <2>3, Zenon DEF AdoptInv
<1>2. Inv /\ QuietInv /\ Adopted /\ [Next]_vars => Adopted'
  <2> SUFFICES ASSUME Inv, QuietInv, Adopted, [Next]_vars,
                      NEW l \in Legacies, Legacies = {l}, l # None, Done(l.status)
               PROVE  AdoptInv(l)'
    BY Zenon DEF Done
  <2>1. AdoptInv(l)
    BY Zenon
  <2> QED
    BY <2>1, NextAdopt, Zenon
<1>3. Inv /\ Adopted => AdoptedNotRepeated
  BY Zenon DEF Inv, TypeOK, AdoptInv, AdoptedNotRepeated, Done, NameOf
<1>4. Spec => [](Inv /\ QuietInv)
  BY QuietInvariance, Zenon
<1> HIDE DEF Adopted
<1> QED
  BY <1>1, <1>2, <1>3, <1>4, PTL DEF Spec
-----------------------------------------------------------------------------
(* An object is an entry of the claim protocol                             *)

\* The refinement mapping of Entry(p), by name.
Status(p) == IF crs[p] = None \/ Unset(crs[p].status) THEN "ABSENT" ELSE crs[p].status.phase
Holder(p) == IF crs[p] = None \/ Unset(crs[p].status) THEN None ELSE crs[p].status.claim
Lapsed(p) ==
  /\ crs[p] # None /\ crs[p].status # None /\ crs[p].status.phase = "DOWNLOADING"
  /\ \/ \E r \in Replica : lease_has_expired(r, p, crs[p].status)
     \/ \E c \in Claim : NameOf(c) = p /\ pc[c] = "patch" /\ PatchApplies(c)

\* A step that leaves status and holder alone renews the lease, lets it lapse, or
\* is no step of the entry.
LEMMA EntryKept ==
  ASSUME NEW p, Status(p)' = Status(p), Holder(p)' = Holder(p), spent' = spent
  PROVE  [Entry(p)!Next]_(Entry(p)!vars)
<1>1. CASE Status(p) = "DOWNLOADING" /\ Lapsed(p)'
  <2>1. Entry(p)!Lapse
    BY <1>1, Zenon DEF Status, Holder, Lapsed, Entry!Lapse
  <2> QED
    BY <2>1, Zenon DEF Entry!Next
<1>2. CASE Status(p) = "DOWNLOADING" /\ ~Lapsed(p)'
  <2>1. Entry(p)!Renew
    BY <1>2, Zenon DEF Status, Holder, Lapsed, Entry!Renew
  <2> QED
    BY <2>1, Zenon DEF Entry!Next
<1>3. CASE Status(p) # "DOWNLOADING"
  <2>1. ~Lapsed(p)
    BY <1>3, Zenon DEF Status, Lapsed, Unset
  <2>2. ~Lapsed(p)'
    BY <1>3, Zenon DEF Status, Lapsed, Unset
  <2> QED
    BY <2>1, <2>2, Zenon DEF Status, Holder, Lapsed, Entry!vars
<1> QED
  BY <1>1, <1>2, <1>3, Zenon

\* A claim of another entry starts its download.
LEMMA EntryStart ==
  ASSUME NEW p, NEW c \in Claim, Status(p)' = Status(p), Holder(p)' = Holder(p), Lapsed(p)' <=> Lapsed(p),
         spent' = spent \cup {c}
  PROVE  [Entry(p)!Next]_(Entry(p)!vars)
<1>1. Entry(p)!Start(c)
  BY Zenon DEF Status, Holder, Lapsed, Entry!Start
<1> QED
  BY <1>1, Zenon DEF Entry!Next

\* A claim is granted.
LEMMA EntryAcquire ==
  ASSUME NEW p, NEW c \in Claim, c \notin spent,
         Status(p) \in {"ABSENT", "ERROR"} \/ (Status(p) = "DOWNLOADING" /\ Lapsed(p)),
         Status(p)' = "DOWNLOADING", Holder(p)' = c, ~Lapsed(p)', spent' \in {spent, spent \cup {c}}
  PROVE  [Entry(p)!Next]_(Entry(p)!vars)
<1>1. Entry(p)!Hold(c)
  BY Zenon DEF Status, Holder, Lapsed, Entry!Hold
<1>2. Entry(p)!Acquire(c)
  BY <1>1, Zenon DEF Status, Holder, Lapsed, Entry!Acquire, Entry!Free
<1> QED
  BY <1>2, Zenon DEF Entry!Next

\* A download's outcome is published.
LEMMA EntryPublish ==
  ASSUME NEW p, NEW c \in Claim, NEW s \in {"DOWNLOADED", "ERROR"}, c \in spent,
         Status(p) = "DOWNLOADING", Holder(p) = c,
         Status(p)' = s, Holder(p)' = None, ~Lapsed(p)', spent' = spent
  PROVE  [Entry(p)!Next]_(Entry(p)!vars)
<1>1. Entry(p)!Publish(c, s)
  BY Zenon DEF Status, Holder, Lapsed, Entry!Publish
<1> QED
  BY <1>1, Zenon DEF Entry!Next

\* The entry is deleted.
LEMMA EntryForget ==
  ASSUME NEW p, crs'[p] = None, spent' = spent
  PROVE  [Entry(p)!Next]_(Entry(p)!vars)
<1>1. Entry(p)!Forget
  BY Zenon DEF Entry!Forget
<1> QED
  BY <1>1, Zenon DEF Entry!Next

\* A claim that was just written has a fresh lease: no replica has seen it, and
\* whoever judged the one before reads again.
LEMMA FreshLease ==
  ASSUME WellFormed, Inv, NEW c \in Claim, ClaimStep(c) \/ Refresh(c) \/ CallFails(c),
         crs[NameOf(c)] # None, WriteStatus(NameOf(c), Downloading(c, version[NameOf(c)] + 1)),
         pc'[c] # "patch", obs' = obs \/ ForgetObservation(HomeOf[c], NameOf(c))
  PROVE  LET n == NameOf(c) IN ~Lapsed(n)' /\ Status(n)' = "DOWNLOADING" /\ Holder(n)' = c
<1> DEFINE n == NameOf(c)
           st == Downloading(c, version[n] + 1)
<1>1. TypeOK /\ n \in Name /\ version[n] \in Nat /\ HomeOf[c] \in Replica
  BY CallerNames, ZenonT(30) DEF Inv
<1>2. st \in CacheStatus
  BY SMTT(30), <1>1, StatusType
<1>3. crs'[n] # None /\ crs'[n].status = st /\ version'[n] = version[n] + 1
  BY <1>1, <1>2, ObjectWrites, ZenonT(30)
<1>4. st # None /\ st.phase = "DOWNLOADING" /\ st.claim = c /\ st.beat = version[n] + 1
  BY <1>2, ZenonT(30) DEF WellFormed, Downloading
<1>5. ASSUME NEW r \in Replica
      PROVE  ~lease_has_expired(r, n, crs[n].status)'
  <2>1. obs'[r][n] = None \/ obs'[r][n] = obs[r][n]
    <3>1. ASSUME NEW q \in Replica, ForgetObservation(q, n)
          PROVE  obs'[r][n] = None \/ obs'[r][n] = obs[r][n]
      BY <1>1, <3>1, Zenon DEF ForgetObservation, TypeOK
    <3> QED
      BY <1>1, <3>1, Zenon
  <2>2. CASE obs'[r][n] = None
    BY <2>2, Zenon DEF lease_has_expired
  <2>3. CASE obs'[r][n] = obs[r][n] /\ obs[r][n] # None
    <3>1. obs[r][n].seen[2] \in Nat /\ obs[r][n].seen[2] <= version[n]
      BY SMTT(30), <1>1, <2>3 DEF Inv, BeatInv, TypeOK, Observation
    <3>2. Fingerprint(crs'[n].status)[2] = version[n] + 1
      BY <1>3, <1>4, ZenonT(40) DEF Fingerprint
    <3>3. obs'[r][n].seen # Fingerprint(crs'[n].status)
      BY SMTT(30), <1>1, <2>3, <3>1, <3>2
    <3> QED
      BY <3>3, ZenonT(40) DEF lease_has_expired
  <2> QED
    BY <2>1, <2>2, <2>3, ZenonT(30)
<1>6. ASSUME NEW d \in Claim, NameOf(d) = n, pc'[d] = "patch"
      PROVE  ~PatchApplies(d)'
  <2>1. read'[d] = read[d]
    BY <1>6, OtherCallers, ZenonT(40)
  <2>2. read[d].version \in Nat /\ read[d].version <= version[n]
    BY <1>6, ZenonT(40) DEF Inv, ReadInv, TypeOK
  <2>3. read'[d].version # version'[n]
    BY SMTT(30), <1>1, <1>3, <2>1, <2>2
  <2> QED
    BY <1>6, <2>3, ZenonT(40) DEF PatchApplies
<1>7. ~Lapsed(n)'
  BY <1>5, <1>6, ZenonT(40) DEF Lapsed
<1>8. ~Unset(st)
  BY <1>4, ZenonT(30) DEF Unset
<1> QED
  BY <1>3, <1>4, <1>7, <1>8, ZenonT(30) DEF Status, Holder

\* What a caller of p does to its entry, when no older server left one for p.
LEMMA CallerEntry ==
  ASSUME WellFormed, Inv, NEW c \in Claim, ClaimStep(c) \/ Refresh(c) \/ CallFails(c),
         \A l \in Legacies : l # None => l.provider # NameOf(c)
  PROVE  [Entry(NameOf(c))!Next]_(Entry(NameOf(c))!vars)
<1> DEFINE n == NameOf(c)
<1>1. TypeOK /\ n \in Name /\ n \in Provider /\ version[n] \in Nat /\ n # "legacy"
      /\ ReadInv(c) /\ CopyInv(c) /\ SpentInv(c)
  BY CallerNames, Zenon DEF Inv
<1>2. pc[c] # "copy"
  BY <1>1, Zenon DEF CopyInv
<1>3. ASSUME crs'[n] = crs[n], spent' = spent
      PROVE  [Entry(n)!Next]_(Entry(n)!vars)
  <2>1. Status(n)' = Status(n) /\ Holder(n)' = Holder(n)
    BY <1>3, Zenon DEF Status, Holder
  <2> QED
    BY <1>3, <2>1, EntryKept, Zenon
<1>4. CASE \/ ClaimGet(c) \/ LegacyGet(c) \/ AdoptRead(c) \/ Raced(c) \/ Examine(c) \/ Reread(c)
           \/ RetryGet(c) \/ CallFails(c)
  BY <1>3, <1>4, ReadingKeeps, ZenonT(30) DEF KeepObjects
<1>5. CASE AdoptCreate(c) \/ Create(c)
  <2>1. spent' = spent
    BY <1>1, <1>5, AdoptCreateMoves, CreateMoves, ZenonT(30)
  <2>2. ASSUME CreateCR(n, n), crs[n] = None
        PROVE  [Entry(n)!Next]_(Entry(n)!vars)
    <3>1. crs'[n].status = None
      BY <1>1, <2>2, ObjectWrites, ZenonT(40)
    <3>2. Status(n)' = Status(n) /\ Holder(n)' = Holder(n)
      BY <2>2, <3>1, ZenonT(40) DEF Status, Holder, Unset
    <3> QED
      BY <2>1, <3>2, EntryKept, ZenonT(40)
  <2> QED
    BY <1>1, <1>3, <1>5, <2>1, <2>2, AdoptCreateMoves, CreateMoves, ZenonT(30) DEF KeepObjects
<1>6. CASE AdoptDrop(c)
  <2>1. crs'[n] = crs[n] /\ spent' = spent
    BY <1>1, <1>6, AdoptDropMoves, ZenonT(30) DEF TypeOK
  <2> QED
    BY <1>3, <2>1, ZenonT(40)
<1>7. ~AdoptCopy(c)
  BY <1>2, Zenon DEF AdoptCopy
<1>8. ASSUME crs[n] # None, WriteStatus(n, Downloading(c, version[n] + 1)), pc'[c] # "patch",
             obs' = obs \/ ForgetObservation(HomeOf[c], n)
      PROVE  ~Lapsed(n)' /\ Status(n)' = "DOWNLOADING" /\ Holder(n)' = c
  BY <1>8, FreshLease, ZenonT(30)
<1>9. CASE Patch(c)
  <2>1. CASE ~PatchApplies(c)
    BY <1>1, <1>3, <1>9, <2>1, PatchMoves, ZenonT(30) DEF KeepObjects
  <2>2. CASE PatchApplies(c)
    <3>1. /\ pc[c] = "patch" /\ WriteStatus(n, Downloading(c, version[n] + 1)) /\ pc'[c] # "patch"
          /\ obs' = obs \/ ForgetObservation(HomeOf[c], n)
          /\ spent' \in {spent, spent \cup {c}}
      BY <1>1, <1>9, <2>2, PatchMoves, ZenonT(40)
    <3>2. c \notin spent
      BY <1>1, <3>1, ZenonT(40) DEF SpentInv
    <3>3. crs[n] # None
      BY <2>2, ZenonT(30) DEF PatchApplies
    <3>4. Status(n) = "ABSENT" \/ (Status(n) = "DOWNLOADING" /\ Lapsed(n))
      <4>1. CASE crs[n].status = None
        BY <4>1, Zenon DEF Status, Unset
      <4>2. CASE crs[n].status # None
        <5>1. crs[n].status.phase = "DOWNLOADING"
          BY <2>2, <4>2, Zenon DEF PatchApplies
        <5> QED
          BY <2>2, <3>1, <3>3, <4>2, <5>1, ZenonT(40) DEF Status, Lapsed, Unset
      <4> QED
        BY <4>1, <4>2, ZenonT(40)
    <3> QED
      BY <1>8, <3>1, <3>2, <3>3, <3>4, EntryAcquire, ZenonT(30)
  <2> QED
    BY <2>1, <2>2, Zenon
<1>10. CASE Reset(c)
  <2>1. CASE ~StillError(n)
    BY <1>1, <1>3, <1>10, <2>1, ResetMoves, ZenonT(30) DEF KeepObjects
  <2>2. CASE StillError(n)
    <3>1. CASE KeepObjects /\ spent' = spent
      BY <1>3, <3>1, ZenonT(30) DEF KeepObjects
    <3>2. CASE ~(KeepObjects /\ spent' = spent)
      <4>1. /\ pc[c] = "reset" /\ WriteStatus(n, Downloading(c, version[n] + 1)) /\ pc'[c] # "patch"
            /\ obs' = obs \/ ForgetObservation(HomeOf[c], n)
            /\ spent' \in {spent, spent \cup {c}}
        BY <1>1, <1>10, <3>2, ResetMoves, ZenonT(30)
      <4>2. c \notin spent
        BY <1>1, <4>1, ZenonT(30) DEF SpentInv
      <4>3. Status(n) = "ERROR" /\ crs[n] # None
        BY <2>2, Zenon DEF StillError, Status, Unset
      <4> QED
        BY <1>8, <4>1, <4>2, <4>3, EntryAcquire, ZenonT(30)
    <3> QED
      BY <3>1, <3>2, ZenonT(40)
  <2> QED
    BY <2>1, <2>2, ZenonT(40)
<1>11. Holds(c) => crs[n] # None /\ Status(n) = "DOWNLOADING" /\ Holder(n) = c
  BY ZenonT(40) DEF Holds, Status, Holder, Unset
<1>12. CASE Refresh(c)
  <2>1. CASE ~Holds(c)
    BY <1>1, <1>3, <1>12, <2>1, RefreshMoves, ZenonT(30) DEF KeepObjects
  <2>2. CASE Holds(c)
    <3>1. WriteStatus(n, Downloading(c, version[n] + 1)) /\ pc'[c] = "owner" /\ obs' = obs /\ spent' = spent
      BY <1>1, <1>12, <2>2, RefreshMoves, ZenonT(30)
    <3>2. Status(n)' = Status(n) /\ Holder(n)' = Holder(n)
      BY <1>8, <1>11, <2>2, <3>1, ZenonT(40)
    <3> QED
      BY <3>1, <3>2, EntryKept, ZenonT(30)
  <2> QED
    BY <2>1, <2>2, Zenon
<1>13. CASE Finish(c)
  <2>1. CASE ~Holds(c)
    BY <1>1, <1>3, <1>13, <2>1, FinishMoves, ZenonT(40) DEF KeepObjects
  <2>2. CASE Holds(c)
    <3>1. /\ pc[c] = "owner" /\ spent' = spent
          /\ \E s \in {"DOWNLOADED", "ERROR"} : WriteStatus(n, Terminal(s))
      BY <1>1, <1>13, <2>2, FinishMoves, ZenonT(40)
    <3>2. PICK s \in {"DOWNLOADED", "ERROR"} : WriteStatus(n, Terminal(s))
      BY <3>1, Zenon
    <3>3. crs'[n] # None /\ crs'[n].status = Terminal(s) /\ Terminal(s) # None
      BY <1>1, <1>11, <2>2, <3>2, StatusType, ObjectWrites, ZenonT(40) DEF WellFormed
    <3>4. Terminal(s).phase = s /\ Terminal(s).claim = None
      BY ZenonT(40) DEF Terminal
    <3>5. Status(n)' = s /\ Holder(n)' = None /\ ~Lapsed(n)'
      BY <3>2, <3>3, <3>4, ZenonT(40) DEF Status, Holder, Lapsed, Unset
    <3>6. c \in spent
      BY <1>1, <3>1, ZenonT(40) DEF SpentInv
    <3> QED
      BY <1>11, <2>2, <3>1, <3>2, <3>5, <3>6, EntryPublish, ZenonT(30)
  <2> QED
    BY <2>1, <2>2, Zenon
<1> QED
  BY <1>4, <1>5, <1>6, <1>7, <1>9, <1>10, <1>12, <1>13, CallerCases, ZenonT(40)

\* Callers of other providers only start downloads of their own.
LEMMA OtherEntry ==
  ASSUME WellFormed, Inv, NEW c \in Claim, ClaimStep(c) \/ Refresh(c) \/ CallFails(c),
         NEW p \in Provider, NameOf(c) # p
  PROVE  [Entry(p)!Next]_(Entry(p)!vars)
<1> DEFINE n == NameOf(c)
<1>1. TypeOK /\ n \in Name /\ p \in Name /\ HomeOf[c] \in Replica
  BY CallerNames, Zenon DEF Inv, Name
<1>2. crs'[p] = crs[p] /\ version'[p] = version[p]
  BY OtherObjects, ZenonT(40)
<1>3. Status(p)' = Status(p) /\ Holder(p)' = Holder(p)
  BY <1>2, ZenonT(40) DEF Status, Holder
<1>4. CASE spent' = spent
  BY <1>3, <1>4, EntryKept, ZenonT(40)
<1>5. CASE spent' # spent
  <2>1. spent' = spent \cup {c} /\ ForgetObservation(HomeOf[c], n)
    BY <1>1, <1>5, CallerCases, ReadingKeeps, AdoptCreateMoves, AdoptCopyMoves, AdoptDropMoves, CreateMoves, PatchMoves, ResetMoves, RefreshMoves, FinishMoves, ZenonT(30)
  <2>2. \A r \in Replica : obs'[r][p] = obs[r][p]
    <3>1. ASSUME NEW q \in Replica, NEW m \in Name, m # p, ForgetObservation(q, m)
          PROVE  \A r \in Replica : obs'[r][p] = obs[r][p]
      BY <1>1, <3>1, ZenonT(40) DEF ForgetObservation, TypeOK
    <3> QED
      BY <1>1, <2>1, <3>1, ZenonT(30)
  <2>3. \A d \in Claim : NameOf(d) = p => pc'[d] = pc[d] /\ read'[d] = read[d]
    BY OtherCallers, ZenonT(40)
  <2>4. \A r \in Replica : lease_has_expired(r, p, crs[p].status)' <=> lease_has_expired(r, p, crs[p].status)
    BY <1>2, <2>2, ZenonT(40) DEF lease_has_expired
  <2>5. \A d \in Claim : NameOf(d) = p => (PatchApplies(d)' <=> PatchApplies(d))
    BY <1>2, <2>3, ZenonT(40) DEF PatchApplies
  <2>6. Lapsed(p)' <=> Lapsed(p)
    BY <1>2, <2>3, <2>4, <2>5, ZenonT(40) DEF Lapsed
  <2> QED
    BY <1>3, <2>1, <2>6, EntryStart, ZenonT(40)
<1> QED
  BY <1>4, <1>5, Zenon

\* Every provider's object implements the lease-fenced claim of DownloadClaim
\* (the RegistryBackend trait), for every number of replicas and callers and with
\* every fault: a claim is handed out once, is taken over only when its lease was
\* judged to have lapsed at the version that is replaced, and only its holder
\* publishes.  A provider for which an older server left a name-only object is
\* excepted: its first status is copied from there without a claim.
THEOREM ObjectsAreClaims ==
  ASSUME NEW p \in Provider, WellFormed, \A l \in Legacies : l # None => l.provider # p
  PROVE  Spec => Entry(p)!Spec
<1>1. Init => Entry(p)!Init
  <2> SUFFICES ASSUME Init PROVE Entry(p)!Init
    BY ZenonT(40)
  <2>1. crs[p] = None
    BY Zenon DEF Init, Name, WellFormed
  <2> QED
    BY <2>1, ZenonT(30) DEF Init, Entry!Init
<1>2. Inv /\ [Next]_vars => [Entry(p)!Next]_(Entry(p)!vars)
  <2> SUFFICES ASSUME Inv, [Next]_vars PROVE [Entry(p)!Next]_(Entry(p)!vars)
    BY Zenon
  <2>1. ASSUME \/ \E r \in Replica, n \in Name : Age(r, n)
               \/ Touch \/ DeleteNext
               \/ \E r \in Replica : DeleteStart(r) \/ Crash(r)
               \/ UNCHANGED vars
        PROVE  [Entry(p)!Next]_(Entry(p)!vars)
    <3>1. spent' = spent
      BY <2>1, CrashedCallers, ZenonT(40)
    <3>2. crs'[p] = None \/ SameObject(crs'[p], crs[p])
      BY <2>1, TouchedOrGone, ZenonT(40) DEF Inv
    <3>3. CASE crs'[p] = None
      BY <3>1, <3>3, EntryForget, ZenonT(40)
    <3>4. CASE SameObject(crs'[p], crs[p])
      <4>0. /\ crs'[p] = None <=> crs[p] = None
            /\ crs[p] # None => \/ Unset(crs'[p].status) /\ Unset(crs[p].status)
                                \/ ~Unset(crs[p].status) /\ crs'[p].status = crs[p].status
        BY <3>4, SameReads, TouchedType, ZenonT(40) DEF SameObject, SameStatus, Blank, Unset
      <4>1. Status(p)' = Status(p) /\ Holder(p)' = Holder(p)
        BY <4>0, ZenonT(40) DEF Status, Holder
      <4> QED
        BY <3>1, <4>1, EntryKept, ZenonT(40)
    <3> QED
      BY <3>2, <3>3, <3>4, ZenonT(40)
  <2>2. ASSUME NEW c \in Claim, ClaimStep(c) \/ Refresh(c) \/ CallFails(c)
        PROVE  [Entry(p)!Next]_(Entry(p)!vars)
    <3>1. CASE NameOf(c) = p
      <4>1. [Entry(NameOf(c))!Next]_(Entry(NameOf(c))!vars)
        BY <2>2, <3>1, CallerEntry, ZenonT(40)
      <4> QED
        BY <3>1, <4>1, Zenon
    <3>2. CASE NameOf(c) # p
      BY <2>2, <3>2, OtherEntry, ZenonT(40)
    <3> QED
      BY <3>1, <3>2, ZenonT(40)
  <2> QED
    BY <2>1, <2>2, ZenonT(40) DEF Next
<1>3. Spec => []Inv
  BY Invariance, Zenon
<1> QED
  BY <1>1, <1>2, <1>3, PTL DEF Spec, Entry!Spec
=============================================================================
