---------------------------- MODULE ServerProofs ----------------------------
(***************************************************************************)
(* Proofs about the in-memory registry, the connections of the state       *)
(* managers, the check of callers and the Kubernetes objects of P2P        *)
(* sources, for every set of callers, tokens, workers and calls.  They     *)
(* share nothing but the names of some variables: each theorem is about    *)
(* the specification of one of them.                                       *)
(***************************************************************************)
EXTENDS Naturals, TLAPS

CONSTANTS
  None,
  Claim,
  Caller, Starter, Recheck, MaxFailures,
  Call, Token, Identity, Audience, audiences, Allowlist, Ttl, MaxTime, MaxErrors,
  Worker, Kind, Of, Owner, Pod, NewStatus, Unreliable, Legacy, MaxRetries

VARIABLES
  model, lease, spent,
  backend, lock, pc, got, built, failures,
  valid, positive, negative, call, review, answer, refused, now, errors,
  cr, cm, clock, last, owned, mixed

Memory == INSTANCE MemoryRegistry
Connection == INSTANCE LazyConnection
Auth == INSTANCE CallerAuth
Objects == INSTANCE P2PKubernetes

-----------------------------------------------------------------------------
(* The in-memory registry implements the claim protocol.                   *)

\* A lease there is while the record says DOWNLOADING, and only then.
MemoryInv ==
  /\ lease \in [claim : Claim, passed : BOOLEAN] \cup {None}
  /\ model = "DOWNLOADING" <=> lease # None

\* A claim made on a free entry, or after an error.
LEMMA MemoryClaims ==
  ASSUME Memory!WellFormed, MemoryInv, NEW c \in Claim,
         Memory!try_claim_for_download(c) \/ Memory!try_reset_error_for_retry(c)
  PROVE  MemoryInv' /\ Memory!Entry!Acquire(c)
<1>1. /\ c \notin spent /\ model' = "DOWNLOADING" /\ spent' = spent \cup {c}
      /\ lease' = [claim |-> c, passed |-> FALSE]
  BY Zenon DEF Memory!try_claim_for_download, Memory!try_reset_error_for_retry, Memory!Claimed
<1>2. lease' \in [claim : Claim, passed : BOOLEAN] /\ lease' # None
  <2>1. lease' \in [claim : Claim, passed : BOOLEAN]
    BY <1>1, Zenon
  <2> QED
    BY <2>1, Zenon DEF Memory!WellFormed
<1>3. MemoryInv'
  BY <1>1, <1>2, Zenon DEF MemoryInv
<1>4. lease'.claim = c /\ lease'.passed = FALSE
  BY <1>1, Zenon
<1>5. Memory!Entry!Hold(c)
  BY <1>1, <1>2, <1>4, Zenon DEF Memory!Entry!Hold, Memory!Expired
<1>6. Memory!Entry!Free \/ model = "ERROR"
  BY Zenon DEF Memory!try_claim_for_download, Memory!try_reset_error_for_retry, Memory!Entry!Free,
         Memory!Expired
<1> QED
  BY <1>1, <1>3, <1>5, <1>6, Zenon DEF Memory!Entry!Acquire

\* The holder renews its lease, or it runs out.
LEMMA MemoryLeases ==
  ASSUME Memory!WellFormed, MemoryInv,
         (\E c \in Claim : Memory!refresh_download_claim(c)) \/ Memory!Lapse
  PROVE  MemoryInv' /\ (Memory!Entry!Renew \/ Memory!Entry!Lapse)
<1>1. /\ lease # None /\ UNCHANGED <<model, spent>>
      /\ \E b \in BOOLEAN : lease' = [lease EXCEPT !.passed = b]
  BY Zenon DEF Memory!refresh_download_claim, Memory!Lapse, Memory!OwnsClaim
<1>2. PICK b \in BOOLEAN : lease' = [lease EXCEPT !.passed = b]
  BY <1>1, Zenon
<1>3. lease \in [claim : Claim, passed : BOOLEAN] /\ model = "DOWNLOADING"
  BY <1>1, Zenon DEF MemoryInv
<1>4. /\ lease' \in [claim : Claim, passed : BOOLEAN]
      /\ lease'.claim = lease.claim /\ lease'.passed = b
  BY <1>2, <1>3, Zenon
<1>5. lease' # None
  BY <1>4, Zenon DEF Memory!WellFormed
<1>6. MemoryInv'
  BY <1>1, <1>3, <1>4, <1>5, Zenon DEF MemoryInv
<1>7. CASE b = FALSE
  <2>1. Memory!Entry!Renew
    BY <1>1, <1>3, <1>4, <1>5, <1>7, Zenon DEF Memory!Entry!Renew, Memory!Expired
  <2> QED
    BY <1>6, <2>1, Zenon
<1>8. CASE b = TRUE
  <2>1. Memory!Entry!Lapse
    BY <1>1, <1>3, <1>4, <1>5, <1>8, Zenon DEF Memory!Entry!Lapse, Memory!Expired
  <2> QED
    BY <1>6, <2>1, Zenon
<1> QED
  BY <1>7, <1>8, Zenon

\* A download ends, or the record is deleted.
LEMMA MemoryEnds ==
  ASSUME Memory!WellFormed, MemoryInv
  PROVE  /\ \A c \in Claim, s \in {"DOWNLOADED", "ERROR"} :
              Memory!finish_download_claim(c, s) => MemoryInv' /\ Memory!Entry!Publish(c, s)
         /\ Memory!delete_model => MemoryInv' /\ Memory!Entry!Forget
<1>1. ASSUME NEW c \in Claim, NEW s \in {"DOWNLOADED", "ERROR"}, Memory!finish_download_claim(c, s)
      PROVE  MemoryInv' /\ Memory!Entry!Publish(c, s)
  <2>1. /\ c \in spent /\ lease # None /\ lease.claim = c /\ model = "DOWNLOADING"
        /\ model' = s /\ lease' = None /\ spent' = spent
    BY <1>1, Zenon DEF Memory!finish_download_claim, Memory!OwnsClaim
  <2> QED
    BY <2>1, Zenon DEF MemoryInv, Memory!Entry!Publish, Memory!Expired
<1>2. ASSUME Memory!delete_model PROVE MemoryInv' /\ Memory!Entry!Forget
  BY <1>2, Zenon DEF Memory!delete_model, MemoryInv, Memory!Entry!Forget, Memory!Expired
<1> QED
  BY <1>1, <1>2, Zenon

\* The in-memory backend does what the RegistryBackend trait promises: a claim
\* that lost its entry never holds it again (registry/backend/memory.rs).
THEOREM MemoryImplementsClaims == Memory!WellFormed /\ Memory!Spec => Memory!Entry!Spec
<1> SUFFICES ASSUME Memory!WellFormed PROVE Memory!Spec => Memory!Entry!Spec
  BY Zenon
<1>1. Memory!Init => MemoryInv /\ Memory!Entry!Init
  BY Zenon DEF Memory!Init, MemoryInv, Memory!Entry!Init
<1>2. MemoryInv /\ [Memory!Next]_Memory!vars => MemoryInv' /\ [Memory!Entry!Next]_Memory!Entry!vars
  <2> SUFFICES ASSUME MemoryInv, [Memory!Next]_Memory!vars
               PROVE  MemoryInv' /\ [Memory!Entry!Next]_Memory!Entry!vars
    BY Zenon
  <2>1. ASSUME NEW c \in Claim, Memory!try_claim_for_download(c) \/ Memory!try_reset_error_for_retry(c)
        PROVE  MemoryInv' /\ Memory!Entry!Next
    BY <2>1, MemoryClaims, Zenon DEF Memory!Entry!Next
  <2>2. ASSUME (\E c \in Claim : Memory!refresh_download_claim(c)) \/ Memory!Lapse
        PROVE  MemoryInv' /\ Memory!Entry!Next
    BY <2>2, MemoryLeases, Zenon DEF Memory!Entry!Next
  <2>3. ASSUME NEW c \in Claim, NEW s \in {"DOWNLOADED", "ERROR"}, Memory!finish_download_claim(c, s)
        PROVE  MemoryInv' /\ Memory!Entry!Next
    BY <2>3, MemoryEnds, Zenon DEF Memory!Entry!Next
  <2>4. ASSUME Memory!delete_model PROVE MemoryInv' /\ Memory!Entry!Next
    BY <2>4, MemoryEnds, Zenon DEF Memory!Entry!Next
  <2>5. CASE UNCHANGED Memory!vars
    BY <2>5, Zenon DEF Memory!vars, MemoryInv, Memory!Entry!vars, Memory!Expired
  <2> QED
    BY <2>1, <2>2, <2>3, <2>4, <2>5, Zenon DEF Memory!Next
<1> QED
  BY <1>1, <1>2, PTL DEF Memory!Spec, Memory!Entry!Spec

-----------------------------------------------------------------------------
(* The connection of a state manager: one backend for all its callers.     *)

ConnectionPc == {"start", "write", "check", "build", "put", "done", "failed", "cancelled"}

ConnectionTypes ==
  /\ backend \in Nat \cup {None} /\ lock \in Connection!Actor \cup {None}
  /\ pc \in [Connection!Actor -> ConnectionPc]
  /\ got \in [Connection!Actor -> Nat \cup {None}]
  /\ built \in Nat

\* The write guard: whoever checks or builds holds it, and there is nothing yet
\* while somebody builds.
ConnectionGuard ==
  \A a \in Connection!Actor :
    /\ pc[a] \in {"check", "build"} => lock = a
    /\ pc[a] = "build" => backend = None

\* The one connection that was made is in place, or in the hands of connect.
ConnectionOne ==
  /\ \A a \in Connection!Actor : got[a] # None => got[a] = 1 /\ built = 1
  /\ backend # None => backend = 1
  /\ built = IF backend # None \/ \E s \in Starter : pc[s] = "put" THEN 1 ELSE 0

\* While the P2P manager's connect is under way nobody else has begun.
ConnectionStart ==
  /\ \A a \in Connection!Actor : pc[a] = "put" => Connection!Eager(a) /\ got[a] # None
  /\ \A s \in Starter : Connection!Eager(s) =>
       /\ pc[s] \in {"start", "put", "done", "failed"}
       /\ pc[s] # "done" => backend = None /\ \A c \in Caller : pc[c] = "start"

ConnectionInv == ConnectionTypes /\ ConnectionGuard /\ ConnectionOne /\ ConnectionStart

\* What one caller's step does to the program counters and the results.
LEMMA ConnectionGoto ==
  ASSUME ConnectionTypes, NEW a \in Connection!Actor, NEW l \in ConnectionPc, Connection!Goto(a, l)
  PROVE  /\ pc' \in [Connection!Actor -> ConnectionPc] /\ pc'[a] = l
         /\ \A b \in Connection!Actor : b # a => pc'[b] = pc[b]
BY Zenon DEF ConnectionTypes, Connection!Goto

\* The steps that change neither the backend nor who was handed one.
LEMMA ConnectionWaits ==
  ASSUME Connection!WellFormed, ConnectionInv, NEW a \in Connection!Actor, NEW l \in ConnectionPc,
         Connection!Served(a), Connection!Goto(a, l), UNCHANGED <<backend, got, built>>,
         lock' \in Connection!Actor \cup {None},
         pc[a] # "put", l # "put",
         l \in {"check", "build"} => lock' = a,
         lock' = lock \/ lock = None \/ lock = a,
         l = "build" => backend = None,
         Connection!Eager(a) => l = "failed" /\ pc[a] = "start"
  PROVE  ConnectionInv'
<1> USE DEF ConnectionInv
<1>1. /\ pc' \in [Connection!Actor -> ConnectionPc] /\ pc'[a] = l
      /\ \A b \in Connection!Actor : b # a => pc'[b] = pc[b]
  BY ConnectionGoto, Zenon
<1>2. ConnectionTypes'
  BY <1>1, Zenon DEF ConnectionTypes
<1>3. ConnectionGuard'
  BY <1>1, Zenon DEF ConnectionGuard, Connection!WellFormed
<1>4. Starter \subseteq Connection!Actor /\ Caller \subseteq Connection!Actor
  BY Zenon DEF Connection!Actor
<1>5. \A s \in Starter : pc'[s] = "put" <=> pc[s] = "put"
  BY <1>1, <1>4, Zenon
<1>6. ConnectionOne'
  <2>1. (\E s \in Starter : pc'[s] = "put") <=> (\E s \in Starter : pc[s] = "put")
    BY <1>5, Zenon
  <2> QED
    BY <2>1, Zenon DEF ConnectionOne
<1>7. ConnectionStart'
  <2>1. \A b \in Connection!Actor : pc'[b] = "put" => Connection!Eager(b) /\ got'[b] # None
    BY <1>1, Zenon DEF ConnectionStart
  <2>2. ASSUME NEW s \in Starter, Connection!Eager(s)
        PROVE  /\ pc'[s] \in {"start", "put", "done", "failed"}
               /\ pc'[s] # "done" => backend' = None /\ \A c \in Caller : pc'[c] = "start"
    <3>1. CASE a = s
      <4>1. a \notin Caller /\ pc[s] # "done"
        BY <2>2, <3>1, Zenon DEF Connection!WellFormed
      <4> QED
        BY <2>2, <3>1, <4>1, <1>1, <1>4, Zenon DEF ConnectionStart
    <3>2. CASE a # s
      <4>1. a \notin Starter
        BY <2>2, <3>2, Zenon DEF Connection!WellFormed, Connection!Eager
      <4>2. pc[s] = "done"
        BY <4>1, Zenon DEF Connection!Served
      <4> QED
        BY <3>2, <4>2, <1>1, <1>4, Zenon
    <3> QED
      BY <3>1, <3>2, Zenon
  <2> QED
    BY <2>1, <2>2, Zenon DEF ConnectionStart, Connection!Eager
<1> QED
  BY <1>2, <1>3, <1>6, <1>7, Zenon

\* A caller is handed the backend that is there.
LEMMA ConnectionHands ==
  ASSUME Connection!WellFormed, ConnectionInv, NEW a \in Connection!Actor,
         Connection!Served(a), backend # None, Connection!Return(a, backend), ~Connection!Eager(a),
         UNCHANGED <<backend, built>>, lock' \in {lock, None}, lock' = lock \/ lock = a
  PROVE  ConnectionInv'
<1> USE DEF ConnectionInv
<1>1. /\ pc' \in [Connection!Actor -> ConnectionPc] /\ pc'[a] = "done"
      /\ \A b \in Connection!Actor : b # a => pc'[b] = pc[b]
  BY ConnectionGoto, Zenon DEF Connection!Return, ConnectionPc
<1>2. /\ got' \in [Connection!Actor -> Nat \cup {None}] /\ got'[a] = backend
      /\ \A b \in Connection!Actor : b # a => got'[b] = got[b]
  BY Zenon DEF Connection!Return, ConnectionTypes
<1>3. ConnectionTypes'
  BY <1>1, <1>2, Zenon DEF ConnectionTypes
<1>4. ConnectionGuard'
  BY <1>1, Zenon DEF ConnectionGuard
<1>5. backend = 1 /\ built = 1 /\ pc[a] # "put"
  BY Zenon DEF ConnectionOne, ConnectionStart
<1>6. ConnectionOne'
  BY <1>2, <1>5, Zenon DEF ConnectionOne
<1>7. \A s \in Starter : Connection!Eager(s) => pc[s] = "done" /\ s # a
  BY Zenon DEF ConnectionStart
<1>8. ConnectionStart'
  BY <1>1, <1>2, <1>7, Zenon DEF ConnectionStart, Connection!Eager, Connection!Actor
<1> QED
  BY <1>3, <1>4, <1>6, <1>8, Zenon

\* A backend is built under the guard.
LEMMA ConnectionBuilds ==
  ASSUME Connection!WellFormed, ConnectionInv, NEW a \in Connection!Actor,
         Connection!Served(a), Connection!Build(a)
  PROVE  ConnectionInv'
<1> USE DEF ConnectionInv
<1>1. /\ pc[a] = "build" /\ lock = a /\ built' = built + 1 /\ backend' = built'
      /\ Connection!Return(a, built') /\ lock' = None
  BY Zenon DEF Connection!Build
<1>2. backend = None /\ pc[a] # "put"
  BY <1>1, Zenon DEF ConnectionGuard
<1>3. \A s \in Starter : pc[s] # "put"
  BY <1>1, <1>2, Zenon DEF ConnectionStart, Connection!Served, Connection!Eager, Connection!Actor, Connection!WellFormed
<1>4. built = 0 /\ built' = 1 /\ backend' = 1 /\ backend' # None
  BY <1>1, <1>2, <1>3 DEF ConnectionOne, Connection!WellFormed
<1>5. /\ pc' \in [Connection!Actor -> ConnectionPc] /\ pc'[a] = "done"
      /\ \A b \in Connection!Actor : b # a => pc'[b] = pc[b]
  BY <1>1, ConnectionGoto, Zenon DEF Connection!Return, ConnectionPc
<1>6. /\ got' \in [Connection!Actor -> Nat \cup {None}] /\ got'[a] = 1
      /\ \A b \in Connection!Actor : b # a => got'[b] = got[b]
  BY <1>1, <1>4 DEF Connection!Return, ConnectionTypes
<1>7. ConnectionTypes'
  BY <1>1, <1>4, <1>5, <1>6 DEF ConnectionTypes
<1>8. ConnectionGuard'
  BY <1>1, <1>5, Zenon DEF ConnectionGuard
<1>9. \A b \in Connection!Actor : got[b] = None
  BY <1>4 DEF ConnectionOne
<1>10. ConnectionOne'
  BY <1>4, <1>6, <1>9, Zenon DEF ConnectionOne
<1>11. \A s \in Starter : Connection!Eager(s) => pc[s] = "done" /\ s # a
  BY <1>1, Zenon DEF ConnectionStart, Connection!Served, Connection!Eager, Connection!WellFormed
<1>12. ConnectionStart'
  BY <1>3, <1>5, <1>11, Zenon DEF ConnectionStart, Connection!Eager, Connection!Actor
<1> QED
  BY <1>7, <1>8, <1>10, <1>12, Zenon

\* The P2P manager's connect builds its backend, and puts it in place.
LEMMA ConnectionEager ==
  ASSUME Connection!WellFormed, ConnectionInv, NEW a \in Connection!Actor,
         Connection!Served(a), Connection!BuildEager(a) \/ Connection!PutEager(a)
  PROVE  ConnectionInv'
<1> USE DEF ConnectionInv
<1>1. CASE Connection!BuildEager(a) /\ Connection!Goto(a, "failed") /\ UNCHANGED <<got, built>>
  <2>1. pc[a] = "start" /\ UNCHANGED <<backend, lock>>
    BY <1>1, Zenon DEF Connection!BuildEager
  <2> QED
    BY <1>1, <2>1, ConnectionWaits, Zenon DEF ConnectionTypes, ConnectionPc
<1>2. CASE /\ pc[a] = "start" /\ Connection!Eager(a) /\ built' = built + 1
           /\ got' = [got EXCEPT ![a] = built'] /\ Connection!Goto(a, "put")
           /\ UNCHANGED <<backend, lock>>
  <2>1. /\ pc' \in [Connection!Actor -> ConnectionPc] /\ pc'[a] = "put"
        /\ \A b \in Connection!Actor : b # a => pc'[b] = pc[b]
    BY <1>2, ConnectionGoto, Zenon DEF ConnectionPc
  <2>2. a \in Starter /\ backend = None /\ \A c \in Caller : pc[c] = "start"
    BY <1>2, Zenon DEF Connection!Eager, ConnectionStart
  <2>3. \A s \in Starter : s = a
    BY <1>2, <2>2, Zenon DEF Connection!WellFormed, Connection!Eager
  <2>4. built = 0
    BY <1>2, <2>2, <2>3, Zenon DEF ConnectionOne
  <2>5. /\ got' \in [Connection!Actor -> Nat \cup {None}] /\ got'[a] = 1 /\ got'[a] # None
        /\ \A b \in Connection!Actor : b # a => got'[b] = got[b] /\ got[b] = None
    BY <1>2, <2>4 DEF ConnectionTypes, ConnectionOne, Connection!WellFormed
  <2>6. ConnectionTypes'
    BY <1>2, <2>1, <2>4, <2>5, Zenon DEF ConnectionTypes
  <2>7. ConnectionGuard'
    BY <1>2, <2>1, Zenon DEF ConnectionGuard
  <2>8. ConnectionOne'
    BY <1>2, <2>1, <2>2, <2>4, <2>5, Zenon DEF ConnectionOne
  <2>9. a \notin Caller
    BY <2>2, Zenon DEF Connection!WellFormed
  <2>10. ConnectionStart'
    BY <1>2, <2>1, <2>2, <2>3, <2>5, <2>9, ZenonT(40) DEF ConnectionStart, Connection!Eager, Connection!Actor
  <2> QED
    BY <2>6, <2>7, <2>8, <2>10, Zenon
<1>3. CASE Connection!PutEager(a)
  <2>1. /\ pc[a] = "put" /\ lock = None /\ backend' = got[a] /\ Connection!Goto(a, "done")
        /\ UNCHANGED <<lock, got, built>>
    BY <1>3, Zenon DEF Connection!PutEager
  <2>2. /\ pc' \in [Connection!Actor -> ConnectionPc] /\ pc'[a] = "done"
        /\ \A b \in Connection!Actor : b # a => pc'[b] = pc[b]
    BY <2>1, ConnectionGoto, Zenon DEF ConnectionPc
  <2>3. Connection!Eager(a) /\ a \in Starter /\ got[a] = 1 /\ built = 1 /\ backend' # None /\ backend' = 1
    BY <2>1, Zenon DEF ConnectionStart, ConnectionOne, Connection!Eager
  <2>4. \A s \in Starter : s = a
    BY <2>3, Zenon DEF Connection!WellFormed, Connection!Eager
  <2>5. ConnectionTypes'
    BY <2>1, <2>2, <2>3, Zenon DEF ConnectionTypes
  <2>6. \A b \in Connection!Actor : pc'[b] \notin {"check", "build"}
    BY <2>1, <2>2, Zenon DEF ConnectionGuard, Connection!WellFormed
  <2>7. ConnectionGuard'
    BY <2>6, Zenon DEF ConnectionGuard
  <2>8. ConnectionOne'
    BY <2>1, <2>3, Zenon DEF ConnectionOne
  <2>9. ConnectionStart'
    BY <2>1, <2>2, <2>3, <2>4, Zenon DEF ConnectionStart, Connection!Eager, Connection!Actor
  <2> QED
    BY <2>5, <2>7, <2>8, <2>9, Zenon
<1> QED
  BY <1>1, <1>2, <1>3, Zenon DEF Connection!BuildEager

\* Every caller of a state manager gets the one backend that was ever connected, whoever
\* races to connect, fails or is dropped while holding the guard (get_backend, connect).
THEOREM OneConnection == Connection!WellFormed /\ Connection!Spec => []Connection!OneBackend
<1> SUFFICES ASSUME Connection!WellFormed PROVE Connection!Spec => []Connection!OneBackend
  BY Zenon
<1>1. Connection!Init => ConnectionInv
  BY DEF Connection!Init, Connection!WellFormed, ConnectionInv, ConnectionTypes, ConnectionGuard,
         ConnectionOne, ConnectionStart, ConnectionPc, Connection!Actor, Connection!Eager
<1>2. ASSUME ConnectionInv, [Connection!Next]_Connection!vars
      PROVE  ConnectionInv'
  <2>1. CASE UNCHANGED Connection!vars
    BY <1>2, <2>1, Zenon DEF Connection!vars, ConnectionInv, ConnectionTypes, ConnectionGuard,
                      ConnectionOne, ConnectionStart
  <2>2. ASSUME NEW a \in Connection!Actor, Connection!FairStep(a) \/ (Connection!Served(a) /\ Connection!Cancel(a))
        PROVE  ConnectionInv'
    <3>1. Connection!Served(a)
      BY <2>2, Zenon DEF Connection!FairStep
    <3>2. lock \in Connection!Actor \cup {None}
      BY <1>2, Zenon DEF ConnectionInv, ConnectionTypes
    <3>3. CASE Connection!TryRead(a)
      <4>1. CASE backend # None
        BY <1>2, <3>1, <3>3, <4>1, ConnectionHands, Zenon DEF Connection!TryRead
      <4>2. CASE backend = None
        BY <1>2, <3>1, <3>2, <3>3, <4>2, ConnectionWaits, Zenon DEF Connection!TryRead, ConnectionPc
      <4> QED
        BY <4>1, <4>2, Zenon
    <3>4. CASE Connection!Acquire(a)
      <4>1. ~Connection!Eager(a)
        BY <1>2, <3>4, Zenon DEF Connection!Acquire, ConnectionInv, ConnectionStart, Connection!Eager
      <4> QED
        BY <1>2, <3>1, <3>4, <4>1, ConnectionWaits, Zenon DEF Connection!Acquire, ConnectionPc
    <3>5. CASE Connection!CheckAgain(a)
      <4>1. ~Connection!Eager(a) /\ lock = a
        BY <1>2, <3>5, Zenon DEF Connection!CheckAgain, ConnectionInv, ConnectionStart, ConnectionGuard, Connection!Eager
      <4>2. CASE backend # None
        BY <1>2, <3>1, <3>5, <4>1, <4>2, ConnectionHands, Zenon DEF Connection!CheckAgain
      <4>3. CASE backend = None
        BY <1>2, <3>1, <3>2, <3>5, <4>1, <4>3, ConnectionWaits, Zenon DEF Connection!CheckAgain, ConnectionPc
      <4> QED
        BY <4>2, <4>3, Zenon
    <3>6. CASE Connection!Build(a)
      BY <1>2, <3>1, <3>6, ConnectionBuilds, Zenon
    <3>7. CASE Connection!BuildFails(a) \/ Connection!Cancel(a)
      <4>1. ~Connection!Eager(a)
        BY <1>2, <3>7, Zenon DEF Connection!BuildFails, Connection!Cancel, ConnectionInv, ConnectionStart,
                          Connection!Eager, Connection!WellFormed
      <4>2. pc[a] # "put" /\ \E l \in {"failed", "cancelled"} : Connection!Goto(a, l)
        BY <3>7, Zenon DEF Connection!BuildFails, Connection!Cancel
      <4>3. UNCHANGED <<backend, got, built>> /\ lock' = IF lock = a THEN None ELSE lock
        BY <3>7, Zenon DEF Connection!BuildFails, Connection!Cancel
      <4> QED
        BY <1>2, <3>1, <3>2, <4>1, <4>2, <4>3, ConnectionWaits, Zenon DEF ConnectionPc
    <3>8. CASE Connection!BuildEager(a) \/ Connection!PutEager(a)
      BY <1>2, <3>1, <3>8, ConnectionEager, Zenon
    <3> QED
      BY <2>2, <3>3, <3>4, <3>5, <3>6, <3>7, <3>8, Zenon DEF Connection!FairStep, Connection!Step
  <2> QED
    BY <1>2, <2>1, <2>2, Zenon DEF Connection!Next
<1>3. ConnectionInv => Connection!OneBackend
  BY DEF ConnectionInv, ConnectionTypes, ConnectionOne, Connection!OneBackend
<1> QED
  BY <1>1, <1>2, <1>3, PTL DEF Connection!Spec

-----------------------------------------------------------------------------
(* The check of callers.                                                   *)

AuthPc ==
  {"idle", "lookup", "review", "rejected", "admitted", "denied", "unauthenticated", "unavailable", "cancelled"}

AuthTypes ==
  /\ now \in Nat
  /\ positive \in [Token -> Nat \cup {None}] /\ negative \in [Token -> Nat \cup {None}]
  /\ refused \in [Token -> Nat \cup {None}] /\ answer = positive
  /\ call \in [Call -> [pc : AuthPc, token : Token \cup {None}]]
  /\ review \in [Token -> Call \cup {None}]

\* Who is admitted, while the clock stands still: a token of the right audience and identity,
\* with an answer that still counts.
AuthVouched ==
  /\ \A t \in Token : positive[t] # None => audiences = {} \/ audiences \cap Audience[t] # {}
  /\ \A c \in Call : call[c].pc = "admitted" =>
       /\ call[c].token \in Token /\ Auth!Live(positive, call[c].token)
       /\ Identity[call[c].token] \in Allowlist

\* A token is under review by the call it says.
AuthReviews ==
  \A c \in Call : /\ call[c].pc \in {"lookup", "review"} => call[c].token \in Token
                  /\ call[c].pc = "review" => review[call[c].token] = c

\* What is remembered was rejected no earlier, and what is about to be, just now.
AuthRefused ==
  /\ \A t \in Token : negative[t] # None =>
       refused[t] # None /\ negative[t] <= refused[t] /\ negative[t] <= now
  /\ \A c \in Call : call[c].pc = "rejected" => call[c].token \in Token /\ refused[call[c].token] = now

AuthInv == AuthTypes /\ AuthVouched /\ AuthReviews /\ AuthRefused

\* A call moves on by itself, and reviews nothing that another one reviews.
LEMMA AuthMoves ==
  ASSUME Auth!WellFormed, AuthInv, NEW c \in Call, NEW l \in AuthPc \ {"rejected"},
         NEW t \in Token \cup {None}, Auth!To(c, l, t),
         UNCHANGED <<positive, negative, answer, refused, now>>,
         review' \in [Token -> Call \cup {None}],
         \A d \in Call \ {c} : call[d].pc = "review" => review'[call[d].token] = d,
         l = "review" => t \in Token /\ review'[t] = c,
         l = "lookup" => t \in Token,
         l = "admitted" => t \in Token /\ Auth!Live(positive, t) /\ Identity[t] \in Allowlist
  PROVE  AuthInv'
<1> USE DEF AuthInv
<1>1. /\ call' \in [Call -> [pc : AuthPc, token : Token \cup {None}]]
      /\ call'[c] = [pc |-> l, token |-> t]
      /\ \A d \in Call : d # c => call'[d] = call[d]
  BY Zenon DEF AuthTypes, Auth!To
<1>2. AuthTypes'
  BY <1>1, Zenon DEF AuthTypes
<1>3. AuthVouched'
  BY SMTT(30), <1>1 DEF AuthVouched, Auth!Live
<1>4. AuthReviews'
  BY <1>1 DEF AuthReviews
<1>5. AuthRefused'
  BY <1>1 DEF AuthRefused
<1> QED
  BY <1>2, <1>3, <1>4, <1>5, Zenon

\* A review is answered, for the call that asked and for all that wait.
LEMMA AuthAnswers ==
  ASSUME Auth!WellFormed, AuthInv, NEW c \in Call, call[c].pc = "review",
         NEW l \in {"admitted", "denied", "rejected", "unavailable"},
         Auth!Answered(c, call[c].token, l), now' = now,
         positive' \in [Token -> Nat \cup {None}], refused' \in [Token -> Nat \cup {None}],
         answer' = positive', negative' = negative,
         \A t \in Token : refused'[t] = refused[t] \/ refused'[t] = now,
         l = "rejected" => refused'[call[c].token] = now,
         \A t \in Token : positive'[t] = positive[t] \/ (t = call[c].token /\ positive'[t] = now),
         positive'[call[c].token] # positive[call[c].token] =>
           audiences = {} \/ audiences \cap Audience[call[c].token] # {},
         l = "admitted" => positive'[call[c].token] = now /\ Identity[call[c].token] \in Allowlist
  PROVE  AuthInv'
<1> USE DEF AuthInv
<1> DEFINE t == call[c].token
<1>1. t \in Token /\ review[t] = c
  BY Zenon DEF AuthReviews
<1>2. \A d \in Call : \/ call'[d] = [pc |-> l, token |-> t]
                      \/ call'[d] = call[d] /\ d # c
  BY Zenon DEF Auth!Answered
<1>3. call'[c] = [pc |-> l, token |-> t]
  BY Zenon DEF Auth!Answered
<1>4. /\ review' \in [Token -> Call \cup {None}]
      /\ \A u \in Token : u # t => review'[u] = review[u]
  BY <1>1, Zenon DEF Auth!Answered, AuthTypes
<1>5. call' \in [Call -> [pc : AuthPc, token : Token \cup {None}]]
  <2>1. \A d \in Call : call'[d] \in [pc : AuthPc, token : Token \cup {None}]
    BY <1>1, <1>2 DEF AuthTypes, AuthPc
  <2>2. call' = [d \in Call |-> call'[d]]
    BY Zenon DEF Auth!Answered
  <2> QED
    BY <2>1, <2>2, Zenon
<1>6. AuthTypes'
  BY <1>4, <1>5, Zenon DEF AuthTypes
<1>7. AuthVouched'
  <2>1. \A u \in Token : positive'[u] # None => audiences = {} \/ audiences \cap Audience[u] # {}
    BY Zenon DEF AuthVouched
  <2>2. l = "admitted" => positive'[t] # None /\ now' < positive'[t] + Ttl
    BY <1>1 DEF AuthTypes, Auth!WellFormed
  <2>3. \A u \in Token : Auth!Live(positive, u) => Auth!Live(positive, u)'
    BY DEF AuthTypes, Auth!Live, Auth!WellFormed
  <2>4. ASSUME NEW d \in Call, call'[d].pc = "admitted"
        PROVE  /\ call'[d].token \in Token /\ Auth!Live(positive, call[d].token)'
               /\ Identity[call'[d].token] \in Allowlist
    <3>1. CASE call'[d] = [pc |-> l, token |-> t]
      BY SMTT(30), <2>2, <2>4, <3>1, <1>1 DEF Auth!Live
    <3>2. CASE call'[d] = call[d]
      BY <2>3, <2>4, <3>2, Zenon DEF AuthVouched
    <3> QED
      BY <1>2, <3>1, <3>2, Zenon
  <2> QED
    BY <2>1, <2>4, Zenon DEF AuthVouched
<1>8. AuthReviews'
  <2>1. ASSUME NEW d \in Call, call'[d] = call[d], d # c, call[d].pc = "review"
        PROVE  review'[call'[d].token] = d
    BY <2>1, <1>1, <1>4, ZenonT(30) DEF AuthReviews
  <2> QED
    BY <2>1, <1>1, <1>2 DEF AuthReviews
<1>9. AuthRefused'
  <2>1. \A u \in Token : negative'[u] # None =>
          refused'[u] # None /\ negative'[u] <= refused'[u] /\ negative'[u] <= now'
    BY DEF AuthRefused, AuthTypes, Auth!WellFormed
  <2>2. \A d \in Call : call'[d].pc = "rejected" => call'[d].token \in Token /\ refused'[call'[d].token] = now'
    BY <1>1, <1>2 DEF AuthRefused
  <2> QED
    BY <2>1, <2>2, Zenon DEF AuthRefused
<1> QED
  BY <1>6, <1>7, <1>8, <1>9, Zenon

\* The calls' own steps.
LEMMA AuthCalls ==
  ASSUME Auth!WellFormed, AuthInv, NEW c \in Call,
         \/ Auth!NoToken(c) \/ Auth!try_get_with(c) \/ Auth!Cancel(c) \/ Auth!Leave(c)
         \/ \E t \in Token : Auth!verify(c, t)
  PROVE  AuthInv'
<1> USE DEF AuthPc
<1>1. /\ review \in [Token -> Call \cup {None}]
      /\ \A d \in Call : call[d].pc = "review" => call[d].token \in Token /\ review[call[d].token] = d
  BY Zenon DEF AuthInv, AuthTypes, AuthReviews
<1>2. CASE Auth!NoToken(c) \/ Auth!Leave(c)
  <2>1. \E l \in {"unauthenticated", "idle"} : Auth!To(c, l, None)
    BY <1>2, Zenon DEF Auth!NoToken, Auth!Leave
  <2>2. UNCHANGED <<positive, negative, answer, refused, now, review>>
    BY <1>2, Zenon DEF Auth!NoToken, Auth!Leave
  <2> QED
    BY <1>1, <2>1, <2>2, AuthMoves, Zenon
<1>3. ASSUME NEW t \in Token, Auth!verify(c, t) PROVE AuthInv'
  <2>1. \E l \in {"unauthenticated", "lookup"} : Auth!To(c, l, t)
    BY <1>3, Zenon DEF Auth!verify
  <2>2. UNCHANGED <<positive, negative, answer, refused, now, review>>
    BY <1>3, Zenon DEF Auth!verify
  <2> QED
    BY <1>1, <2>1, <2>2, AuthMoves, Zenon
<1>4. CASE Auth!try_get_with(c)
  <2> DEFINE t == call[c].token
  <2>1. call[c].pc = "lookup" /\ t \in Token /\ UNCHANGED <<positive, negative, answer, refused, now>>
    BY <1>4, Zenon DEF Auth!try_get_with, AuthInv, AuthReviews
  <2>2. CASE Auth!Live(positive, t) /\ Auth!To(c, Auth!Verdict(t), t) /\ UNCHANGED review
    BY <1>1, <2>1, <2>2, AuthMoves, Zenon DEF Auth!Verdict
  <2>3. CASE review[t] = None /\ review' = [review EXCEPT ![t] = c] /\ Auth!To(c, "review", t)
    <3>1. review' \in [Token -> Call \cup {None}] /\ review'[t] = c
      BY <1>1, <2>1, <2>3, Zenon
    <3>2. \A d \in Call \ {c} : call[d].pc = "review" => review'[call[d].token] = d
      BY <1>1, <2>1, <2>3, ZenonT(40) DEF Auth!WellFormed
    <3> QED
      BY <2>1, <2>3, <3>1, <3>2, AuthMoves, Zenon
  <2> QED
    BY <1>4, <2>2, <2>3, Zenon DEF Auth!try_get_with
<1>5. CASE Auth!Cancel(c)
  <2> DEFINE t == call[c].token
  <2>1. /\ call[c].pc \in {"lookup", "review", "rejected"} /\ t \in Token /\ Auth!To(c, "cancelled", t)
        /\ UNCHANGED <<positive, negative, answer, refused, now>>
    BY <1>5, Zenon DEF Auth!Cancel, AuthInv, AuthReviews, AuthRefused
  <2>2. review' \in [Token -> Call \cup {None}]
    BY <1>1, <1>5, Zenon DEF Auth!Cancel
  <2>3. ASSUME NEW d \in Call \ {c}, call[d].pc = "review" PROVE review'[call[d].token] = d
    <3>1. CASE call[c].pc = "review"
      <4>1. call[d].token # t
        BY <1>1, <2>3, <3>1, Zenon
      <4> QED
        BY <1>1, <1>5, <2>1, <2>3, <3>1, <4>1, Zenon DEF Auth!Cancel
    <3>2. CASE call[c].pc # "review"
      BY <1>1, <1>5, <2>3, <3>2, Zenon DEF Auth!Cancel
    <3> QED
      BY <2>1, <3>1, <3>2, Zenon
  <2> QED
    BY <2>1, <2>2, <2>3, AuthMoves, Zenon
<1> QED
  BY <1>2, <1>3, <1>4, <1>5, Zenon

\* The reviews that end, one way or another.
LEMMA AuthReviewsEnd ==
  ASSUME Auth!WellFormed, AuthInv, NEW c \in Call,
         Auth!ReviewAccepted(c) \/ Auth!ReviewRejected(c) \/ Auth!ReviewError(c)
  PROVE  AuthInv'
<1> DEFINE t == call[c].token
<1>1. t \in Token /\ call[c].pc = "review" /\ AuthTypes
  BY Zenon DEF Auth!ReviewAccepted, Auth!ReviewRejected, Auth!ReviewError, AuthInv, AuthReviews
<1>2. CASE Auth!ReviewAccepted(c)
  <2>1. /\ positive' = [positive EXCEPT ![t] = now] /\ answer' = [answer EXCEPT ![t] = now]
        /\ audiences = {} \/ audiences \cap Audience[t] # {}
        /\ Auth!Answered(c, t, Auth!Verdict(t)) /\ UNCHANGED <<negative, refused, now>>
    BY <1>2, Zenon DEF Auth!ReviewAccepted, Auth!Accepts
  <2>2. /\ positive' \in [Token -> Nat \cup {None}] /\ refused' \in [Token -> Nat \cup {None}]
        /\ answer' = positive' /\ positive'[t] = now
        /\ \A u \in Token : u # t => positive'[u] = positive[u]
    BY <1>1, <2>1, Zenon DEF AuthTypes
  <2>3. CASE Identity[t] \in Allowlist
    BY <1>1, <2>1, <2>2, <2>3, AuthAnswers, Zenon DEF Auth!Verdict
  <2>4. CASE Identity[t] \notin Allowlist
    BY <1>1, <2>1, <2>2, <2>4, AuthAnswers, Zenon DEF Auth!Verdict
  <2> QED
    BY <2>3, <2>4, Zenon
<1>3. CASE Auth!ReviewRejected(c)
  <2>1. /\ refused' = [refused EXCEPT ![t] = now]
        /\ Auth!Answered(c, t, "rejected") /\ UNCHANGED <<positive, negative, answer, now>>
    BY <1>3, Zenon DEF Auth!ReviewRejected
  <2>2. /\ refused' \in [Token -> Nat \cup {None}] /\ refused'[t] = now
        /\ \A u \in Token : refused'[u] = refused[u] \/ refused'[u] = now
    BY <1>1, <2>1, Zenon DEF AuthTypes
  <2> QED
    BY <1>1, <2>1, <2>2, AuthAnswers, Zenon DEF AuthTypes
<1>4. CASE Auth!ReviewError(c)
  <2>1. Auth!Answered(c, t, "unavailable") /\ UNCHANGED <<positive, answer, negative, refused, now>>
    BY <1>4, Zenon DEF Auth!ReviewError
  <2> QED
    BY <1>1, <2>1, AuthAnswers, Zenon DEF AuthTypes
<1> QED
  BY <1>2, <1>3, <1>4, Zenon

\* A rejection is remembered.
LEMMA AuthRemembers ==
  ASSUME Auth!WellFormed, AuthInv, NEW c \in Call, Auth!Remember(c)
  PROVE  AuthInv'
<1> USE DEF AuthInv
<1> DEFINE t == call[c].token
<1>1. /\ call[c].pc = "rejected" /\ negative' = [negative EXCEPT ![t] = now] /\ Auth!To(c, "unauthenticated", t)
      /\ UNCHANGED <<positive, review, answer, refused, now>>
  BY Zenon DEF Auth!Remember
<1>2. t \in Token /\ refused[t] = now /\ now \in Nat
  BY <1>1, Zenon DEF AuthRefused, AuthTypes
<1>3. /\ call' \in [Call -> [pc : AuthPc, token : Token \cup {None}]]
      /\ call'[c] = [pc |-> "unauthenticated", token |-> t]
      /\ \A d \in Call : d # c => call'[d] = call[d]
  BY <1>1, <1>2, Zenon DEF AuthTypes, Auth!To, AuthPc
<1>4. negative' \in [Token -> Nat \cup {None}] /\ negative'[t] = now /\ \A u \in Token : u # t => negative'[u] = negative[u]
  BY <1>1, <1>2, Zenon DEF AuthTypes
<1>5. AuthTypes'
  BY <1>1, <1>3, <1>4, Zenon DEF AuthTypes
<1>6. AuthVouched'
  BY SMTT(30), <1>1, <1>3 DEF AuthVouched, Auth!Live
<1>7. AuthReviews'
  BY <1>1, <1>3 DEF AuthReviews
<1>8. AuthRefused'
  <2>1. \A u \in Token : negative'[u] # None =>
          refused'[u] # None /\ negative'[u] <= refused'[u] /\ negative'[u] <= now'
    BY SMTT(30), <1>1, <1>2, <1>4 DEF AuthRefused, Auth!WellFormed
  <2>2. \A d \in Call : call'[d].pc = "rejected" => call'[d].token \in Token /\ refused'[call'[d].token] = now'
    BY <1>1, <1>3 DEF AuthRefused
  <2> QED
    BY <2>1, <2>2, Zenon DEF AuthRefused
<1> QED
  BY <1>5, <1>6, <1>7, <1>8, Zenon

\* A call goes in only with a token the API server vouched for within the last Ttl, of an allowed
\* identity and a right audience; one review of a token is under way at a time; and only a
\* rejection turns a token away unseen (TokenReviewer::verify, review_token, authorize).
THEOREM AdmissionsAreVouched == Auth!WellFormed /\ Auth!Spec => []Auth!AdmittedIsVouched
<1> SUFFICES ASSUME Auth!WellFormed PROVE Auth!Spec => []Auth!AdmittedIsVouched
  BY Zenon
<1>1. Auth!Init => AuthInv
  BY DEF Auth!Init, AuthInv, AuthTypes, AuthVouched, AuthReviews, AuthRefused, AuthPc
<1>2. ASSUME AuthInv, [Auth!Next]_Auth!vars PROVE AuthInv'
  <2>1. CASE UNCHANGED <<positive, negative, call, review, answer, refused, now>>
    BY <1>2, <2>1, Zenon DEF AuthInv, AuthTypes, AuthVouched, AuthReviews, AuthRefused, Auth!Live
  <2>2. CASE Auth!Tick
    <3>1. /\ now' = now + 1 /\ UNCHANGED <<positive, negative, review, answer, refused>>
          /\ call' = [c \in Call |-> IF call[c].pc \in {"lookup", "review"} THEN call[c]
                                     ELSE [pc |-> "idle", token |-> None]]
          /\ \A c \in Call : call[c].pc # "rejected"
      BY <2>2, Zenon DEF Auth!Tick
    <3>2. AuthTypes'
      <4>1. \A c \in Call : call'[c] \in [pc : AuthPc, token : Token \cup {None}]
        BY <1>2, <3>1, Zenon DEF AuthInv, AuthTypes, AuthPc
      <4>2. call' \in [Call -> [pc : AuthPc, token : Token \cup {None}]]
        BY <3>1, <4>1, Zenon
      <4> QED
        BY <1>2, <3>1, <4>2 DEF AuthInv, AuthTypes
    <3>3. AuthVouched' /\ AuthReviews'
      BY <1>2, <3>1, Zenon DEF AuthInv, AuthVouched, AuthReviews
    <3>4. AuthRefused'
      <4>1. \A c \in Call : call'[c].pc # "rejected"
        BY <3>1, Zenon
      <4>2. \A t \in Token : negative'[t] # None =>
              refused'[t] # None /\ negative'[t] <= refused'[t] /\ negative'[t] <= now'
        BY <1>2, <3>1 DEF AuthInv, AuthRefused, AuthTypes
      <4> QED
        BY <4>1, <4>2, Zenon DEF AuthRefused
    <3> QED
      BY <3>2, <3>3, <3>4, Zenon DEF AuthInv
  <2>3. ASSUME NEW t \in Token, Auth!Flip(t) PROVE AuthInv'
    BY <2>1, <2>3, Zenon DEF Auth!Flip
  <2>4. CASE UNCHANGED Auth!vars
    BY <2>1, <2>4, Zenon DEF Auth!vars
  <2> QED
    BY <1>2, <2>2, <2>3, <2>4, AuthCalls, AuthReviewsEnd, AuthRemembers, Zenon DEF Auth!Next
<1>3. AuthInv => Auth!AdmittedIsVouched
  <2> SUFFICES ASSUME AuthInv PROVE Auth!AdmittedIsVouched
    BY Zenon
  <2>1. \A c, d \in Call : call[c].pc = "review" /\ call[d].pc = "review" /\ c # d =>
          call[c].token # call[d].token
    BY Zenon DEF AuthInv, AuthReviews
  <2>2. \A c \in Call : call[c].pc = "admitted" =>
          /\ answer[call[c].token] # None /\ now < answer[call[c].token] + Ttl
          /\ Identity[call[c].token] \in Allowlist
          /\ audiences = {} \/ audiences \cap Audience[call[c].token] # {}
    BY Zenon DEF AuthInv, AuthTypes, AuthVouched, Auth!Live
  <2>3. \A t \in Token : Auth!Live(negative, t) => refused[t] # None /\ now < refused[t] + Ttl
    BY SMTT(30) DEF AuthInv, AuthTypes, AuthRefused, Auth!Live, Auth!WellFormed
  <2> QED
    BY <2>1, <2>2, <2>3, Zenon DEF Auth!AdmittedIsVouched
<1> QED
  BY <1>1, <1>2, <1>3, PTL DEF Auth!Spec

-----------------------------------------------------------------------------
(* The Kubernetes objects of P2P sources.                                  *)

ObjectPc ==
  {"idle", "done", "failed", "create", "get", "label", "pod", "cm", "cmPatch", "read",
   "patch", "objects", "sweep", "configMaps", "reaping", "tensors"}

ObjectCall ==
  [pc : ObjectPc, uid : Nat \cup {None}, label : {None} \cup {Owner[c] : c \in Call},
   pod : {None} \cup {Pod[c] : c \in Call}, rv : Nat \cup {None},
   status : Objects!StatusRecord \cup {None}, tries : Nat, left : SUBSET (Worker \cup Call), clean : BOOLEAN]

ObjectTypes ==
  /\ cr \in [Worker -> Objects!ObjectRecord \cup {None}]
  /\ cm \in [Worker -> Objects!TensorRecord \cup {None}]
  /\ clock \in Nat
  /\ call \in [Call -> ObjectCall]
  /\ last \in [Worker -> Call \cup {None}]
  /\ DOMAIN owned = Worker

\* Neither begun nor ended.
ObjectBusy(r) == r.pc \notin {"idle", "done", "failed"}

\* Which steps are whose.
ObjectKinds(c, r) ==
  /\ r.pc \in {"create", "get", "label", "pod", "cm", "cmPatch"} => Kind[c] = "publish"
  /\ r.pc \in {"read", "patch"} => Kind[c] \in {"publish", "update"}
  /\ r.pc \in {"objects", "sweep", "configMaps"} => Kind[c] = "removeMetadata"
  /\ r.pc = "reaping" => Kind[c] = "reap"
  /\ r.pc = "tensors" => Kind[c] = "get"
  /\ Objects!Removes(c) => r.left \subseteq Worker

\* An update that is about to patch has read the status of the version it names.
ObjectRead(c, r) ==
  r.pc = "patch" =>
    /\ r.rv \in Nat /\ r.rv <= clock
    /\ Kind[c] = "update" =>
         /\ r.status # None
         /\ cr[Of[c]] # None /\ cr[Of[c]].rv = r.rv => r.status = cr[Of[c]].status

\* A publication that nothing overlaps has the object it saw, and its tensors before its status.
ObjectPublication(c, r) ==
  Kind[c] = "publish" /\ Of[c] \notin mixed =>
    /\ r.pc \in {"label", "pod", "cm", "cmPatch", "read", "patch"} =>
         cr[Of[c]] # None /\ cr[Of[c]].uid = r.uid
    /\ r.pc \in {"read", "patch"} => cm[Of[c]] = [payload |-> c, owner |-> r.uid]

\* A read has a status, which the object it saw never loses.
ObjectGet(c, r) ==
  Kind[c] = "get" =>
    /\ r.pc = "idle" => r.status = None
    /\ r.pc = "tensors" =>
         /\ r.status # None /\ r.uid \in Nat /\ r.uid <= clock
         /\ cr[Of[c]] # None /\ cr[Of[c]].uid = r.uid => cr[Of[c]].status # None
    /\ r.pc = "done" /\ r.status # None /\ r.clean /\ Of[c] \notin mixed =>
         r.left = {r.status.payload}

ObjectCalls ==
  \A c \in Call : /\ ObjectKinds(c, call[c]) /\ ObjectRead(c, call[c])
                  /\ ObjectPublication(c, call[c]) /\ ObjectGet(c, call[c])

\* The objects themselves.
ObjectStates ==
  \A w \in Worker : cr[w] # None =>
    /\ cr[w].uid <= clock /\ cr[w].rv <= clock
    /\ cr[w].status # None => /\ cr[w].status.payload = last[w]
                              /\ cr[w].status.ready <=> cr[w].status.status = "READY"

\* What does not overlap, of a worker that is not mixed: two publications; a publication and
\* a removal that reaches the worker; and a removal of the source has what is left to remove.
ObjectApart ==
  /\ \A c, d \in Call : Kind[c] = "publish" /\ Kind[d] = "publish" /\ Of[c] = Of[d] /\ Of[c] \notin mixed
                        /\ ObjectBusy(call[c]) /\ ObjectBusy(call[d]) => c = d
  /\ \A c, d \in Call : Kind[c] = "publish" /\ Of[c] \notin mixed
                        /\ ObjectBusy(call[c]) /\ Objects!Removes(d) /\ ObjectBusy(call[d])
                        => Kind[d] = "reap" /\ Of[c] \notin call[d].left
  /\ \A d \in Call, w \in Worker \ mixed :
       Kind[d] = "removeMetadata" /\ ObjectBusy(call[d]) /\ cr[w] # None
       => call[d].pc = "objects" /\ w \in call[d].left

ObjectInv == ObjectTypes /\ ObjectCalls /\ ObjectStates /\ ObjectApart /\ Objects!TensorsKept

\* The record of one call changes.
LEMMA ObjectSet ==
  ASSUME ObjectTypes, NEW c \in Call, NEW r \in ObjectCall, call' = [call EXCEPT ![c] = r]
  PROVE  /\ call' \in [Call -> ObjectCall] /\ call'[c] = r
         /\ \A d \in Call : d # c => call'[d] = call[d]
BY Zenon DEF ObjectTypes

\* What publishing means.
LEMMA ObjectPublishing ==
  \A w \in Worker : w \in Objects!Publishing <=>
    \E c \in Call : Kind[c] = "publish" /\ Of[c] = w /\ ObjectBusy(call[c])
BY Zenon DEF Objects!Publishing, Objects!Publishes, Objects!Running, ObjectBusy

\* A publication that starts is alone, or its worker is mixed from now on.
ObjectStarts(c, r) ==
  Kind[c] = "publish" /\ Of[c] \notin mixed' =>
    IF ObjectBusy(call[c]) THEN ObjectBusy(r)
    ELSE ObjectBusy(r) =>
           \A d \in Call \ {c} : ObjectBusy(call[d]) =>
             ~Objects!Removes(d) /\ ~(Kind[d] = "publish" /\ Of[d] = Of[c])

\* A removal that starts leaves the publications alone, or their workers are mixed from now on.
ObjectRemoves(c, r) ==
  Objects!Removes(c) /\ ObjectBusy(r) =>
    \/ ObjectBusy(call[c]) /\ r.left \subseteq call[c].left
    \/ \A w \in Worker : w \in Objects!Publishing => w \in mixed' \/ (Kind[c] = "reap" /\ w \notin r.left)
    \/ Kind[c] = "removeMetadata" /\ ObjectBusy(call[c])

\* The removal of a source has all that is left to remove.
ObjectSweeps(c, r) ==
  Kind[c] = "removeMetadata" /\ ObjectBusy(r) =>
    \A w \in Worker \ mixed' : cr[w] # None => r.pc = "objects" /\ w \in r.left

\* A step that changes one call and nothing of the cluster.
LEMMA ObjectCallMoves ==
  ASSUME Objects!WellFormed, ObjectInv, NEW c \in Call, NEW r \in ObjectCall,
         call' = [call EXCEPT ![c] = r], UNCHANGED <<cr, cm, clock, last, owned>>, mixed \subseteq mixed',
         ObjectKinds(c, r), ObjectRead(c, r),
         Of[c] \notin mixed' => ObjectPublication(c, r),
         Kind[c] = "get" => ObjectGet(c, r),
         ObjectStarts(c, r), ObjectRemoves(c, r), ObjectSweeps(c, r)
  PROVE  ObjectInv'
<1>1. /\ call' \in [Call -> ObjectCall] /\ call'[c] = r
      /\ \A d \in Call : d # c => call'[d] = call[d]
  BY ObjectSet, Zenon DEF ObjectInv
<1>2. ObjectTypes'
  BY <1>1, Zenon DEF ObjectInv, ObjectTypes
<1>3. ObjectStates'
  BY Zenon DEF ObjectInv, ObjectStates
<1>4. ObjectCalls'
  <2>1. ASSUME NEW d \in Call
        PROVE  /\ ObjectKinds(d, call'[d])
               /\ ObjectRead(d, call[d])'
               /\ ObjectPublication(d, call[d])'
               /\ ObjectGet(d, call[d])'
    <3>1. CASE d = c
      BY <1>1, <3>1, Zenon DEF ObjectRead, ObjectPublication, ObjectGet
    <3>2. CASE d # c
      BY <1>1, <3>2, Zenon DEF ObjectInv, ObjectCalls, ObjectRead, ObjectPublication, ObjectGet
    <3> QED
      BY <3>1, <3>2, Zenon
  <2> QED
    BY <2>1, Zenon DEF ObjectCalls, ObjectKinds
<1>5. ObjectApart'
  <2>1. ASSUME NEW d \in Call, NEW e \in Call, Kind[d] = "publish", Kind[e] = "publish", Of[d] = Of[e],
               Of[d] \notin mixed', ObjectBusy(call'[d]), ObjectBusy(call'[e])
        PROVE  d = e
    BY <1>1, <2>1 DEF ObjectInv, ObjectApart, ObjectStarts
  <2>2. ASSUME NEW d \in Call, NEW e \in Call, Kind[d] = "publish", Of[d] \notin mixed',
               ObjectBusy(call'[d]), Objects!Removes(e), ObjectBusy(call'[e])
        PROVE  Kind[e] = "reap" /\ Of[d] \notin call'[e].left
    <3>1. Of[d] \in Worker /\ Of[d] \notin mixed
      BY <2>2, Zenon DEF Objects!WellFormed
    <3>2. CASE e = c
      <4>1. d # c
        BY <2>2, <3>2, Zenon DEF Objects!Removes
      <4>2. Of[d] \in Objects!Publishing
        BY <1>1, <2>2, <3>1, <4>1, ObjectPublishing, Zenon
      <4> QED
        BY <1>1, <2>2, <3>1, <3>2, <4>1, <4>2, ZenonT(40) DEF ObjectInv, ObjectApart, ObjectRemoves
    <3>3. CASE e # c
      BY <1>1, <2>2, <3>1, <3>3, Zenon DEF ObjectInv, ObjectApart, ObjectStarts
    <3> QED
      BY <3>2, <3>3, Zenon
  <2>3. ASSUME NEW d \in Call, NEW w \in Worker \ mixed', Kind[d] = "removeMetadata",
               ObjectBusy(call'[d]), cr'[w] # None
        PROVE  call'[d].pc = "objects" /\ w \in call'[d].left
    BY <1>1, <2>3, Zenon DEF ObjectInv, ObjectApart, ObjectSweeps
  <2> QED
    BY <2>1, <2>2, <2>3, ZenonT(40) DEF ObjectApart, ObjectBusy, Objects!Removes
<1>6. Objects!TensorsKept'
  <2>1. ASSUME NEW w \in Worker, w \notin mixed', w \in Objects!Publishing
        PROVE  w \in Objects!Publishing'
    <3>1. PICK d \in Call : Kind[d] = "publish" /\ Of[d] = w /\ ObjectBusy(call[d])
      BY <2>1, ObjectPublishing, Zenon
    <3>2. ObjectBusy(call'[d])
      BY <1>1, <2>1, <3>1, Zenon DEF ObjectStarts
    <3> QED
      BY <3>1, <3>2, Zenon DEF Objects!Publishing, Objects!Publishes, Objects!Running, ObjectBusy
  <2> QED
    BY <2>1, Zenon DEF ObjectInv, Objects!TensorsKept
<1> QED
  BY <1>2, <1>3, <1>4, <1>5, <1>6, Zenon DEF ObjectInv

\* One call's record, its program counter changed.
LEMMA ObjectGo ==
  ASSUME ObjectTypes, NEW c \in Call, NEW l \in ObjectPc, Objects!Go(c, l)
  PROVE  /\ [call[c] EXCEPT !.pc = l] \in ObjectCall
         /\ call' = [call EXCEPT ![c] = [call[c] EXCEPT !.pc = l]]
<1>1. call[c] \in ObjectCall
  BY Zenon DEF ObjectTypes
<1> QED
  BY <1>1, Zenon DEF Objects!Go, ObjectCall

\* A call fails.
LEMMA ObjectFails ==
  ASSUME Objects!WellFormed, ObjectInv, NEW c \in Call, Objects!Fails(c),
         UNCHANGED <<cr, cm, clock, last, owned>>
  PROVE  ObjectInv'
<1> DEFINE r == [call[c] EXCEPT !.pc = "failed"]
<1>1. call[c] \in ObjectCall
  BY Zenon DEF ObjectInv, ObjectTypes
<1>2. r \in ObjectCall /\ call' = [call EXCEPT ![c] = r]
  BY ObjectGo, Zenon DEF ObjectInv, Objects!Fails, ObjectPc
<1>3. r.pc = "failed" /\ r.left = call[c].left /\ ObjectKinds(c, call[c])
  BY <1>1, Zenon DEF ObjectCall, ObjectInv, ObjectCalls
<1>4. mixed \subseteq mixed' /\ (Kind[c] = "publish" => Of[c] \in mixed')
  BY Zenon DEF Objects!Fails
<1>5. ObjectKinds(c, r) /\ ObjectRead(c, r) /\ ObjectPublication(c, r) /\ ObjectGet(c, r) /\ ~ObjectBusy(r)
  BY <1>3, Zenon DEF ObjectKinds, ObjectRead, ObjectPublication, ObjectGet, ObjectBusy
<1> HIDE DEF r
<1>6. ObjectStarts(c, r) /\ ObjectRemoves(c, r) /\ ObjectSweeps(c, r)
  BY <1>4, <1>5, Zenon DEF ObjectStarts, ObjectRemoves, ObjectSweeps
<1> QED
  BY <1>2, <1>4, <1>5, <1>6, ObjectCallMoves, Zenon

\* A call that only goes on to its next step: a publication before its tensors are written, or
\* a removal that has removed all it had.
LEMMA ObjectGoesOn ==
  ASSUME Objects!WellFormed, ObjectInv, NEW c \in Call, NEW l \in ObjectPc, Objects!Go(c, l),
         UNCHANGED <<cr, cm, clock, last, owned, mixed>>,
         \/ /\ Kind[c] = "publish" /\ call[c].pc \in {"create", "label", "pod", "cm"}
            /\ l \in {"get", "pod", "cm", "cmPatch"} /\ (call[c].pc = "create" => l = "get")
         \/ Objects!Removes(c) /\ l = "done"
         \/ Kind[c] = "removeMetadata" /\ call[c].pc = "objects" /\ call[c].left = {} /\ l = "sweep"
         \/ Kind[c] = "get" /\ call[c].pc = "idle" /\ l = "done" /\ call[c].status = None
  PROVE  ObjectInv'
<1> DEFINE r == [call[c] EXCEPT !.pc = l]
<1>1. call[c] \in ObjectCall
  BY Zenon DEF ObjectInv, ObjectTypes
<1>2. r \in ObjectCall /\ call' = [call EXCEPT ![c] = r]
  BY ObjectGo, Zenon DEF ObjectInv
<1>3. /\ r.pc = l /\ r.uid = call[c].uid /\ r.status = call[c].status
      /\ r.left = call[c].left
  BY <1>1, Zenon DEF ObjectCall
<1>4. ObjectKinds(c, call[c]) /\ ObjectPublication(c, call[c])
  BY Zenon DEF ObjectInv, ObjectCalls
<1> HIDE DEF r
<1>5. ObjectKinds(c, r) /\ ObjectRead(c, r) /\ ObjectPublication(c, r)
  BY <1>3, <1>4, Zenon DEF ObjectKinds, ObjectRead, ObjectPublication, Objects!Removes
<1>6. Kind[c] = "get" => ObjectGet(c, r)
  BY <1>3, Zenon DEF ObjectGet, Objects!Removes
<1>7. ObjectStarts(c, r)
  BY <1>3, Zenon DEF ObjectStarts, ObjectBusy, Objects!Removes
<1>8. ObjectRemoves(c, r)
  BY <1>3, Zenon DEF ObjectRemoves, ObjectBusy, Objects!Removes
<1>9. ObjectSweeps(c, r)
  BY <1>3, Zenon DEF ObjectSweeps, ObjectBusy, Objects!Removes, ObjectInv, ObjectApart
<1> QED
  BY <1>2, <1>5, <1>6, <1>7, <1>8, <1>9, ObjectCallMoves, ZenonT(40)

\* publish_metadata up to the object.
LEMMA ObjectPublishReads ==
  ASSUME Objects!WellFormed, ObjectInv, NEW c \in Call, Objects!PublishStart(c) \/ Objects!PublishGet(c)
  PROVE  ObjectInv'
<1>1. call[c] \in ObjectCall /\ ObjectKinds(c, call[c])
  BY Zenon DEF ObjectInv, ObjectTypes, ObjectCalls
<1>2. CASE Objects!PublishStart(c)
  <2> DEFINE l == IF cr[Of[c]] = None THEN "create" ELSE "get"
             r == [call[c] EXCEPT !.pc = l]
  <2>1. /\ Kind[c] = "publish" /\ call[c].pc = "idle" /\ Objects!Go(c, l) /\ mixed \subseteq mixed'
        /\ UNCHANGED <<cr, cm, clock, last, owned>>
    BY <1>2, Zenon DEF Objects!PublishStart, Objects!At
  <2>2. r \in ObjectCall /\ call' = [call EXCEPT ![c] = r]
    BY <2>1, ObjectGo, Zenon DEF ObjectInv, ObjectPc
  <2>3. r.pc \in {"create", "get"}
    BY <1>1, Zenon DEF ObjectCall
  <2>4. Of[c] \notin mixed' => \A d \in Call \ {c} : ObjectBusy(call[d]) =>
                    ~Objects!Removes(d) /\ ~(Kind[d] = "publish" /\ Of[d] = Of[c])
    BY <1>2, Zenon DEF Objects!PublishStart, Objects!Running, Objects!Publishes, ObjectBusy
  <2> HIDE DEF r
  <2>5. ObjectKinds(c, r) /\ ObjectRead(c, r) /\ ObjectPublication(c, r) /\ ~ObjectBusy(call[c])
    BY <2>1, <2>3, Zenon DEF Objects!Removes, ObjectKinds, ObjectRead, ObjectPublication, ObjectBusy
  <2>6. ObjectStarts(c, r) /\ ObjectRemoves(c, r) /\ ObjectSweeps(c, r)
    BY <2>1, <2>4, <2>5, Zenon DEF ObjectStarts, ObjectRemoves, ObjectSweeps, Objects!Removes
  <2> QED
    BY <2>1, <2>2, <2>5, <2>6, ObjectCallMoves, ZenonT(40)
<1>3. CASE Objects!PublishGet(c)
  <2>1. Kind[c] = "publish" /\ call[c].pc = "get" /\ Of[c] \in Worker /\ UNCHANGED <<cr, cm, clock, last, owned>>
    BY <1>1, <1>3, Zenon DEF Objects!PublishGet, Objects!At, ObjectKinds, Objects!WellFormed
  <2>2. CASE Objects!Fails(c)
    BY <2>1, <2>2, ObjectFails, Zenon
  <2>3. CASE ~Objects!Fails(c)
    <3> DEFINE o == cr[Of[c]]
               r == [call[c] EXCEPT !.pc = "label", !.uid = o.uid, !.label = o.label, !.pod = o.pod]
    <3>1. o # None /\ call' = [call EXCEPT ![c] = r] /\ mixed' = mixed
      BY <1>3, <2>3, Zenon DEF Objects!PublishGet
    <3>2. o \in Objects!ObjectRecord
      BY <2>1, <3>1, Zenon DEF ObjectInv, ObjectTypes
    <3>3. r \in ObjectCall
      BY <1>1, <3>2, Zenon DEF ObjectCall, ObjectPc, Objects!ObjectRecord
    <3>4. r.pc = "label" /\ r.uid = o.uid
      BY <1>1, Zenon DEF ObjectCall
    <3> HIDE DEF r
    <3>5. ObjectKinds(c, r) /\ ObjectRead(c, r) /\ ObjectPublication(c, r) /\ ObjectBusy(call[c]) /\ ObjectBusy(r)
      BY <2>1, <3>1, <3>4, Zenon DEF Objects!Removes, ObjectKinds, ObjectRead, ObjectPublication, ObjectBusy
    <3>6. ObjectStarts(c, r) /\ ObjectRemoves(c, r) /\ ObjectSweeps(c, r)
      BY <2>1, <3>5, ZenonT(40) DEF ObjectStarts, ObjectRemoves, ObjectSweeps, Objects!Removes
    <3> QED
      BY <2>1, <3>1, <3>3, <3>5, <3>6, ObjectCallMoves, ZenonT(40)
  <2> QED
    BY <2>2, <2>3, Zenon
<1> QED
  BY <1>2, <1>3, Zenon

\* The reads before a status patch, and a patch that is refused.
LEMMA ObjectStatusReads ==
  ASSUME Objects!WellFormed, ObjectInv, NEW c \in Call,
         Objects!ReadForPublish(c) \/ Objects!ReadForUpdate(c)
  PROVE  ObjectInv'
<1>1. call[c] \in ObjectCall /\ ObjectKinds(c, call[c]) /\ ObjectPublication(c, call[c])
  BY Zenon DEF ObjectInv, ObjectTypes, ObjectCalls
<1>2. Kind[c] \in {"publish", "update"} /\ Of[c] \in Worker /\ UNCHANGED <<cr, cm, clock, last, owned>>
  BY Zenon DEF Objects!ReadForPublish, Objects!ReadForUpdate, Objects!WellFormed
<1>3. CASE Objects!Fails(c)
  BY <1>2, <1>3, ObjectFails, Zenon
<1>4. CASE ~Objects!Fails(c)
  <2> DEFINE o == cr[Of[c]]
             r == IF Kind[c] = "publish" THEN [call[c] EXCEPT !.pc = "patch", !.rv = o.rv]
                  ELSE [call[c] EXCEPT !.pc = "patch", !.rv = o.rv, !.status = o.status]
  <2>1. /\ o # None /\ call' = [call EXCEPT ![c] = r] /\ mixed' = mixed
        /\ Kind[c] = "update" => o.status # None
        /\ Kind[c] = "publish" => call[c].pc = "read"
    BY <1>4, Zenon DEF Objects!ReadForPublish, Objects!ReadForUpdate, Objects!At
  <2>2. o \in Objects!ObjectRecord
    BY <1>2, <2>1, Zenon DEF ObjectInv, ObjectTypes
  <2>3. r \in ObjectCall
    BY <1>1, <2>2, ZenonT(30) DEF ObjectCall, ObjectPc, Objects!ObjectRecord
  <2>4. /\ r.pc = "patch" /\ r.uid = call[c].uid /\ r.rv = o.rv
        /\ Kind[c] = "update" => r.status = o.status
    BY <1>1, <1>2, Zenon DEF ObjectCall
  <2>5. o.rv \in Nat /\ o.rv <= clock
    BY <1>2, <2>1, <2>2, Zenon DEF ObjectInv, ObjectStates, Objects!ObjectRecord
  <2> HIDE DEF r
  <2>6. ObjectKinds(c, r) /\ ObjectRead(c, r) /\ ObjectPublication(c, r) /\ ObjectBusy(r)
    BY <1>1, <1>2, <2>1, <2>4, <2>5, ZenonT(40) DEF Objects!Removes, ObjectKinds, ObjectRead, ObjectPublication, ObjectBusy
  <2>7. Kind[c] = "publish" => ObjectBusy(call[c])
    BY <2>1, Zenon DEF ObjectBusy
  <2>8. ObjectStarts(c, r) /\ ObjectRemoves(c, r) /\ ObjectSweeps(c, r)
    BY <1>2, <2>6, <2>7, ZenonT(40) DEF ObjectStarts, ObjectRemoves, ObjectSweeps, Objects!Removes
  <2> QED
    BY <1>2, <2>1, <2>3, <2>6, <2>8, ObjectCallMoves, ZenonT(40)
<1> QED
  BY <1>3, <1>4, Zenon

\* The lists the removals work from.
LEMMA ObjectLists ==
  ASSUME Objects!WellFormed, ObjectInv, NEW c \in Call,
         Objects!RemoveMetadataList(c) \/ Objects!RemoveMetadataSweep(c) \/ Objects!ReapList(c)
  PROVE  ObjectInv'
<1>1. call[c] \in ObjectCall /\ ObjectKinds(c, call[c])
  BY Zenon DEF ObjectInv, ObjectTypes, ObjectCalls
<1>2. CASE Objects!RemoveMetadataList(c)
  <2> DEFINE left == {w \in Worker : cr[w] # None}
             r == [call[c] EXCEPT !.pc = "objects", !.left = left]
  <2>1. /\ Kind[c] = "removeMetadata" /\ call' = [call EXCEPT ![c] = r] /\ mixed' = mixed \cup Objects!Publishing
        /\ UNCHANGED <<cr, cm, clock, last, owned>>
    BY <1>2, Zenon DEF Objects!RemoveMetadataList
  <2>2. left \in SUBSET Worker /\ left \in SUBSET (Worker \cup Call)
    BY Zenon
  <2> HIDE DEF left
  <2>3. r \in ObjectCall /\ r.pc = "objects" /\ r.left = left
    BY <1>1, <2>2, ZenonT(40) DEF ObjectCall, ObjectPc
  <2> HIDE DEF r
  <2>4. ObjectKinds(c, r) /\ ObjectRead(c, r) /\ ObjectPublication(c, r)
    BY <2>2, <2>1, <2>3, Zenon DEF Objects!Removes, ObjectKinds, ObjectRead, ObjectPublication
  <2>5. \A w \in Worker : cr[w] # None => w \in r.left
    BY <2>3, Zenon DEF left
  <2>6. ObjectStarts(c, r) /\ ObjectRemoves(c, r) /\ ObjectSweeps(c, r)
    BY <2>1, <2>3, <2>5, Zenon DEF ObjectStarts, ObjectRemoves, ObjectSweeps
  <2> QED
    BY <2>1, <2>3, <2>4, <2>6, ObjectCallMoves, ZenonT(40)
<1>3. CASE Objects!RemoveMetadataSweep(c)
  <2> DEFINE left == {w \in Worker : cm[w] # None}
             r == [call[c] EXCEPT !.pc = "configMaps", !.left = left]
  <2>1. /\ call[c].pc = "sweep" /\ call' = [call EXCEPT ![c] = r]
        /\ UNCHANGED <<cr, cm, clock, last, owned, mixed>>
    BY <1>3, ZenonT(40) DEF Objects!RemoveMetadataSweep, Objects!At
  <2>2. left \in SUBSET Worker /\ left \in SUBSET (Worker \cup Call)
    BY Zenon
  <2> HIDE DEF left
  <2>3. r \in ObjectCall /\ r.pc = "configMaps" /\ r.left = left
    BY <1>1, <2>2, ZenonT(40) DEF ObjectCall, ObjectPc
  <2> HIDE DEF r
  <2>4. Kind[c] = "removeMetadata" /\ ObjectBusy(call[c])
    BY <1>1, <2>1, Zenon DEF ObjectKinds, ObjectBusy
  <2>5. ObjectKinds(c, r) /\ ObjectRead(c, r) /\ ObjectPublication(c, r)
    BY <2>2, <2>3, <2>4, Zenon DEF Objects!Removes, ObjectKinds, ObjectRead, ObjectPublication
  <2>6. \A w \in Worker \ mixed' : cr[w] = None
    BY <2>1, <2>4, Zenon DEF ObjectInv, ObjectApart
  <2>7. ObjectStarts(c, r) /\ ObjectRemoves(c, r) /\ ObjectSweeps(c, r)
    BY <2>4, <2>6, Zenon DEF ObjectStarts, ObjectRemoves, ObjectSweeps
  <2> QED
    BY <2>1, <2>3, <2>4, <2>5, <2>7, ObjectCallMoves, ZenonT(40)
<1>4. CASE Objects!ReapList(c)
  <2> DEFINE left == Objects!list_workers("STALE")
             r == [call[c] EXCEPT !.pc = "reaping", !.left = left]
  <2>1. /\ Kind[c] = "reap" /\ call' = [call EXCEPT ![c] = r]
        /\ mixed' = mixed \cup (Objects!Publishing \cap left)
        /\ UNCHANGED <<cr, cm, clock, last, owned>>
    BY <1>4, Zenon DEF Objects!ReapList
  <2>2. left \in SUBSET Worker /\ left \in SUBSET (Worker \cup Call)
    BY Zenon DEF Objects!list_workers
  <2> HIDE DEF left
  <2>3. r \in ObjectCall /\ r.pc = "reaping" /\ r.left = left
    BY <1>1, <2>2, ZenonT(40) DEF ObjectCall, ObjectPc
  <2> HIDE DEF r
  <2>4. ObjectKinds(c, r) /\ ObjectRead(c, r) /\ ObjectPublication(c, r)
    BY <2>2, <2>1, <2>3, Zenon DEF Objects!Removes, ObjectKinds, ObjectRead, ObjectPublication
  <2>5. ObjectStarts(c, r) /\ ObjectRemoves(c, r) /\ ObjectSweeps(c, r)
    BY <2>1, <2>3, ZenonT(40) DEF ObjectStarts, ObjectRemoves, ObjectSweeps
  <2> QED
    BY <2>1, <2>3, <2>4, <2>5, ObjectCallMoves, ZenonT(40)
<1> QED
  BY <1>2, <1>3, <1>4, Zenon

\* get_metadata.
LEMMA ObjectGets ==
  ASSUME Objects!WellFormed, ObjectInv, NEW c \in Call, Objects!GetObject(c) \/ Objects!GetTensors(c)
  PROVE  ObjectInv'
<1> DEFINE w == Of[c]
           o == cr[Of[c]]
<1>1. /\ call[c] \in ObjectCall /\ ObjectGet(c, call[c])
      /\ Kind[c] = "get" /\ w \in Worker /\ UNCHANGED <<cr, cm, clock, last, owned, mixed>>
  BY Zenon DEF ObjectInv, ObjectTypes, ObjectCalls, Objects!GetObject, Objects!GetTensors, Objects!WellFormed
<1>2. o \in Objects!ObjectRecord \cup {None} /\ cm[w] \in Objects!TensorRecord \cup {None}
  BY <1>1, Zenon DEF ObjectInv, ObjectTypes
<1>3. CASE Objects!GetObject(c)
  <2>1. call[c].pc = "idle" /\ call[c].status = None
    BY <1>1, <1>3, Zenon DEF Objects!GetObject, Objects!At, ObjectGet
  <2>2. CASE o = None \/ o.status = None
    <3>1. Objects!Go(c, "done")
      BY <1>3, <2>2, Zenon DEF Objects!GetObject
    <3> QED
      BY <1>1, <2>1, <3>1, ObjectGoesOn, ZenonT(40) DEF ObjectPc
  <2>3. CASE o # None /\ o.status # None
    <3> DEFINE r == [call[c] EXCEPT !.pc = "tensors", !.status = o.status,
                                    !.clean = w \notin Objects!Publishing, !.uid = o.uid]
    <3>1. call' = [call EXCEPT ![c] = r]
      BY <1>3, <2>3, ZenonT(40) DEF Objects!GetObject
    <3>2. r \in ObjectCall /\ r.pc = "tensors" /\ r.status = o.status /\ r.uid = o.uid
      BY <1>1, <1>2, <2>3, ZenonT(40) DEF ObjectCall, ObjectPc, Objects!ObjectRecord
    <3>3. o.uid \in Nat /\ o.uid <= clock
      BY <1>1, <1>2, <2>3, Zenon DEF ObjectInv, ObjectStates, Objects!ObjectRecord
    <3> HIDE DEF r
    <3>4. ObjectKinds(c, r) /\ ObjectRead(c, r) /\ ObjectPublication(c, r) /\ ObjectGet(c, r)
      BY <1>1, <2>3, <3>2, <3>3, Zenon DEF Objects!Removes, ObjectKinds, ObjectRead, ObjectPublication, ObjectGet
    <3>5. ObjectStarts(c, r) /\ ObjectRemoves(c, r) /\ ObjectSweeps(c, r)
      BY <1>1, Zenon DEF ObjectStarts, ObjectRemoves, ObjectSweeps, Objects!Removes
    <3> QED
      BY <1>1, <3>1, <3>2, <3>4, <3>5, ObjectCallMoves, ZenonT(40)
  <2> QED
    BY <2>2, <2>3, Zenon
<1>4. CASE Objects!GetTensors(c)
  <2> DEFINE left == IF cm[w] = None THEN {} ELSE {cm[w].payload}
             clean == call[c].clean /\ w \notin Objects!Publishing /\ cr[w] # None /\ cr[w].uid = call[c].uid
                      /\ cr[w].status.payload = call[c].status.payload
             r == [call[c] EXCEPT !.pc = "done", !.left = left, !.clean = clean]
  <2>1. call[c].pc = "tensors" /\ call' = [call EXCEPT ![c] = r]
    BY <1>4, Zenon DEF Objects!GetTensors, Objects!At
  <2>2. call[c].status # None /\ (o # None /\ o.uid = call[c].uid => o.status # None)
    BY <1>1, <2>1, Zenon DEF ObjectGet
  <2>3. clean /\ w \notin mixed => left = {call[c].status.payload}
    BY <1>1, <2>2, Zenon DEF ObjectInv, Objects!TensorsKept
  <2>4. clean \in BOOLEAN
    BY <1>1, Zenon DEF ObjectCall
  <2> HIDE DEF clean
  <2>5. /\ r.pc = "done" /\ r.status = call[c].status /\ r.left = left
        /\ r.clean = clean
    BY <1>1, Zenon DEF ObjectCall
  <2> HIDE DEF r, left
  <2>6. ObjectKinds(c, r) /\ ObjectRead(c, r) /\ ObjectPublication(c, r) /\ ObjectGet(c, r)
    BY <1>1, <2>3, <2>5, ZenonT(40) DEF Objects!Removes, ObjectKinds, ObjectRead, ObjectPublication, ObjectGet
  <2>7. ObjectStarts(c, r) /\ ObjectRemoves(c, r) /\ ObjectSweeps(c, r)
    BY <1>1, Zenon DEF ObjectStarts, ObjectRemoves, ObjectSweeps, Objects!Removes
  <2>8. r \in ObjectCall
    <3>1. left \in SUBSET (Worker \cup Call)
      BY <1>2, Zenon DEF left, Objects!TensorRecord
    <3> QED
      BY <1>1, <2>4, <3>1, ZenonT(40) DEF ObjectCall, ObjectPc, r
  <2> QED
    BY <1>1, <2>1, <2>6, <2>7, <2>8, ObjectCallMoves, Zenon
<1> QED
  BY <1>3, <1>4, Zenon

\* An object is created, by the only publication there is unless the worker is mixed.
LEMMA ObjectCreates ==
  ASSUME Objects!WellFormed, ObjectInv, NEW c \in Call, Objects!PublishCreate(c)
  PROVE  ObjectInv'
<1> DEFINE w == Of[c]
           o == Objects!Object(clock + 1, Owner[c], Pod[c])
           r == [call[c] EXCEPT !.pc = "get"]
<1>1. /\ call[c] \in ObjectCall /\ Kind[c] = "publish" /\ w \in Worker /\ call[c].pc = "create"
      /\ Objects!Go(c, "get") /\ UNCHANGED <<cm, last, mixed>>
  BY Zenon DEF ObjectInv, ObjectTypes, ObjectCalls, ObjectKinds, Objects!PublishCreate, Objects!At, Objects!WellFormed
<1>2. CASE cr[w] # None
  BY <1>1, <1>2, ObjectGoesOn, Zenon DEF Objects!PublishCreate, ObjectPc
<1>3. CASE cr[w] = None
  <2>1. cr' = [cr EXCEPT ![w] = o] /\ clock' = clock + 1 /\ owned' = [owned EXCEPT ![w] = Owner[c]]
    BY <1>3, Zenon DEF Objects!PublishCreate
  <2>2. r \in ObjectCall /\ call' = [call EXCEPT ![c] = r]
    BY <1>1, ObjectGo, Zenon DEF ObjectInv, ObjectPc
  <2>3. r.pc = "get"
    BY <1>1, Zenon DEF ObjectCall
  <2> HIDE DEF r
  <2>4. /\ call' \in [Call -> ObjectCall] /\ call'[c] = r
        /\ \A d \in Call : d # c => call'[d] = call[d]
    BY <2>2, ObjectSet, Zenon DEF ObjectInv
  <2>5. clock \in Nat
    BY Zenon DEF ObjectInv, ObjectTypes
  <2>6. /\ o \in Objects!ObjectRecord /\ o.uid = clock + 1 /\ o.rv = clock + 1 /\ o.status = None
    BY SMTT(30), <2>5 DEF Objects!Object, Objects!ObjectRecord
  <2> HIDE DEF o
  <2>7. /\ cr' \in [Worker -> Objects!ObjectRecord \cup {None}] /\ cr'[w] = o
        /\ \A v \in Worker : v # w => cr'[v] = cr[v]
    BY <1>1, <2>1, <2>6, ZenonT(40) DEF ObjectInv, ObjectTypes
  <2>8. ObjectTypes'
    BY SMTT(30), <1>1, <2>1, <2>4, <2>5, <2>7 DEF ObjectInv, ObjectTypes
  <2>9. ObjectStates'
    <3>1. ASSUME NEW v \in Worker, v # w, cr[v] # None
          PROVE  cr[v].uid \in Nat /\ cr[v].rv \in Nat /\ cr[v].uid <= clock + 1 /\ cr[v].rv <= clock + 1
      BY SMTT(30), <2>5, <3>1 DEF ObjectInv, ObjectTypes, ObjectStates, Objects!ObjectRecord
    <3> QED
      BY SMTT(30), <1>1, <2>1, <2>5, <2>6, <2>7, <3>1 DEF ObjectInv, ObjectStates
  <2>10. \A d \in Call : Kind[d] = "publish" /\ Of[d] = w /\ w \notin mixed /\ ObjectBusy(call[d]) => d = c
    BY <1>1, Zenon DEF ObjectInv, ObjectApart, ObjectBusy
  <2>11. ObjectCalls'
    <3>1. ASSUME NEW d \in Call, d # c
          PROVE  /\ ObjectKinds(d, call[d])'
                 /\ ObjectRead(d, call[d])'
                 /\ ObjectPublication(d, call[d])'
                 /\ ObjectGet(d, call[d])'
      <4>1. /\ call'[d] = call[d] /\ ObjectKinds(d, call[d]) /\ ObjectRead(d, call[d])
            /\ ObjectPublication(d, call[d]) /\ ObjectGet(d, call[d])
        BY <2>4, <3>1, Zenon DEF ObjectInv, ObjectCalls
      <4>2. Kind[d] \in {"publish", "update", "get"} => Of[d] \in Worker
        BY Zenon DEF Objects!WellFormed
      <4>3. ObjectKinds(d, call[d])'
        BY <4>1, ZenonT(40) DEF ObjectKinds
      <4>4. ObjectRead(d, call[d])'
        BY SMTT(30), <4>1, <4>2, <2>1, <2>5, <2>6, <2>7 DEF ObjectRead, ObjectKinds
      <4>5. ObjectPublication(d, call[d])'
        BY <4>1, <4>2, <3>1, <1>1, <2>7, <2>10, ZenonT(40) DEF ObjectPublication, ObjectBusy
      <4>6. ObjectGet(d, call[d])'
        BY SMTT(30), <4>1, <4>2, <1>1, <2>1, <2>5, <2>6, <2>7 DEF ObjectGet
      <4> QED
        BY <4>3, <4>4, <4>5, <4>6, Zenon
    <3>2. /\ ObjectKinds(c, call[c])' /\ ObjectRead(c, call[c])'
          /\ ObjectPublication(c, call[c])' /\ ObjectGet(c, call[c])'
      BY <1>1, <2>3, <2>4, ZenonT(40) DEF Objects!Removes, ObjectKinds, ObjectRead, ObjectPublication, ObjectGet
    <3> QED
      BY <3>1, <3>2, Zenon DEF ObjectCalls
  <2>12. ObjectApart'
    <3>1. ObjectBusy(call[c]) /\ ObjectBusy(r)
      BY <1>1, <2>3, ZenonT(40) DEF ObjectBusy
    <3>2. \A d \in Call : Kind[d] = "removeMetadata" /\ ObjectBusy(call[d]) => w \in mixed
      BY <1>1, <3>1, ZenonT(40) DEF ObjectInv, ObjectApart, Objects!Removes
    <3> QED
      BY SMTT(30), <1>1, <2>4, <2>7, <3>1, <3>2 DEF ObjectInv, ObjectApart, Objects!Removes, ObjectBusy
  <2>13. Objects!TensorsKept'
    <3>1. \A v \in Worker : v \in Objects!Publishing => v \in Objects!Publishing'
      BY <1>1, <2>3, <2>4, Zenon DEF Objects!Publishing, Objects!Publishes, Objects!Running
    <3> QED
      BY SMTT(30), <1>1, <2>6, <2>7, <3>1 DEF ObjectInv, Objects!TensorsKept
  <2> QED
    BY <2>8, <2>9, <2>11, <2>12, <2>13, ZenonT(40) DEF ObjectInv
<1> QED
  BY <1>2, <1>3, Zenon

\* A write to an object that is there: of its label or pod reference, or of its status.
LEMMA ObjectWrites ==
  ASSUME Objects!WellFormed, ObjectInv, NEW c \in Call, NEW r \in ObjectCall, NEW o \in Objects!ObjectRecord,
         Kind[c] \in {"publish", "update"}, cr[Of[c]] # None,
         call' = [call EXCEPT ![c] = r], cr' = [cr EXCEPT ![Of[c]] = o], clock' = clock + 1,
         UNCHANGED <<cm, owned, mixed>>,
         o.uid = cr[Of[c]].uid, o.rv = clock + 1,
         cr[Of[c]].status # None => o.status # None,
         last' \in [Worker -> Call \cup {None}], \A v \in Worker : v # Of[c] => last'[v] = last[v],
         o.status # None => /\ o.status.payload = last'[Of[c]]
                            /\ o.status.ready <=> o.status.status = "READY",
         r.uid = call[c].uid,
         \/ /\ r.pc \in {"pod", "cm"} /\ call[c].pc \in {"label", "pod"}
            /\ Kind[c] = "publish"
         \/ /\ r.pc = "done" /\ call[c].pc = "patch" /\ Kind[c] = "publish"
            /\ o.status # None /\ o.status.payload = c
         \/ /\ r.pc = "done" /\ Kind[c] = "update"
            /\ cr[Of[c]].status # None /\ o.status.payload = cr[Of[c]].status.payload
  PROVE  ObjectInv'
<1> DEFINE w == Of[c]
<1>1. /\ w \in Worker /\ clock \in Nat /\ ObjectPublication(c, call[c])
  BY Zenon DEF ObjectInv, ObjectTypes, ObjectCalls, Objects!WellFormed
<1>2. /\ call' \in [Call -> ObjectCall] /\ call'[c] = r
      /\ \A d \in Call : d # c => call'[d] = call[d]
  BY ObjectSet, Zenon DEF ObjectInv
<1>3. /\ cr' \in [Worker -> Objects!ObjectRecord \cup {None}] /\ cr'[w] = o
      /\ \A v \in Worker : v # w => cr'[v] = cr[v]
  BY <1>1, Zenon DEF ObjectInv, ObjectTypes
<1>4. o # None /\ cr'[w] # None
  BY <1>3, ZenonT(40) DEF Objects!WellFormed
<1>5. ObjectTypes'
  BY SMTT(30), <1>1, <1>2, <1>3 DEF ObjectInv, ObjectTypes
<1>6. ASSUME NEW v \in Worker, cr[v] # None
      PROVE  cr[v].uid \in Nat /\ cr[v].rv \in Nat /\ cr[v].uid <= clock /\ cr[v].rv <= clock
  BY <1>6, ZenonT(40) DEF ObjectInv, ObjectTypes, ObjectStates, Objects!ObjectRecord
<1>7. ObjectStates'
  <2>1. ASSUME NEW v \in Worker, cr'[v] # None
        PROVE  cr'[v].uid <= clock' /\ cr'[v].rv <= clock'
    BY SMTT(30), <1>1, <1>3, <1>6, <2>1
  <2>2. ASSUME NEW v \in Worker, cr'[v] # None, cr'[v].status # None
        PROVE  /\ cr'[v].status.payload = last'[v]
               /\ cr'[v].status.ready <=> cr'[v].status.status = "READY"
    BY <1>3, <2>2, Zenon DEF ObjectInv, ObjectStates
  <2> QED
    BY <2>1, <2>2, Zenon DEF ObjectStates
<1>8. ObjectCalls'
  <2>1. ASSUME NEW d \in Call, d # c
        PROVE  /\ ObjectKinds(d, call[d])' /\ ObjectRead(d, call[d])'
               /\ ObjectPublication(d, call[d])' /\ ObjectGet(d, call[d])'
    <3>1. /\ call'[d] = call[d] /\ ObjectKinds(d, call[d]) /\ ObjectRead(d, call[d])
          /\ ObjectPublication(d, call[d]) /\ ObjectGet(d, call[d])
      BY <1>2, <2>1, ZenonT(40) DEF ObjectInv, ObjectCalls
    <3>2. Kind[d] \in {"publish", "update", "get"} => Of[d] \in Worker
      BY Zenon DEF Objects!WellFormed
    <3>3. ObjectKinds(d, call[d])'
      BY <3>1, Zenon DEF ObjectKinds
    <3>4. ObjectRead(d, call[d])'
      <4>1. CASE Of[d] = w
        BY <3>1, <1>1, <1>3, <4>1, SMTT(30) DEF ObjectRead
      <4>2. CASE Of[d] # w
        BY <3>1, <3>2, <1>1, <1>3, <4>2, SMTT(30) DEF ObjectRead
      <4> QED
        BY <4>1, <4>2, ZenonT(40)
    <3>5. ObjectPublication(d, call[d])'
      BY <3>1, <3>2, <1>3, <1>4, SMTT(30) DEF ObjectPublication
    <3>6. ObjectGet(d, call[d])'
      <4>1. CASE Of[d] = w
        BY <3>1, <1>1, <1>3, <4>1, SMTT(30) DEF ObjectGet
      <4>2. CASE Of[d] # w
        BY SMTT(30), <3>1, <3>2, <1>1, <1>3, <4>2 DEF ObjectGet
      <4> QED
        BY <4>1, <4>2, Zenon
    <3> QED
      BY <3>3, <3>4, <3>5, <3>6, ZenonT(40)
  <2>2. /\ ObjectKinds(c, call[c])' /\ ObjectRead(c, call[c])'
        /\ ObjectPublication(c, call[c])' /\ ObjectGet(c, call[c])'
    BY <1>1, <1>2, <1>3, <1>4, ZenonT(40) DEF Objects!Removes, ObjectKinds, ObjectRead, ObjectPublication, ObjectGet
  <2> QED
    BY <2>1, <2>2, Zenon DEF ObjectCalls
<1>9. ObjectApart'
  <2>1. Kind[c] = "publish" /\ ObjectBusy(r) => ObjectBusy(call[c])
    BY Zenon DEF ObjectBusy
  <2>2. \A v \in Worker : cr'[v] # None => cr[v] # None
    BY <1>3, Zenon
  <2> QED
    BY SMTT(30), <1>2, <2>1, <2>2 DEF ObjectInv, ObjectApart, Objects!Removes, ObjectBusy
<1>10. Objects!TensorsKept'
  <2>1. ASSUME NEW v \in Worker, v # w \/ Kind[c] = "update", v \in Objects!Publishing PROVE v \in Objects!Publishing'
    BY <1>2, <2>1, Zenon DEF Objects!Publishing, Objects!Publishes, Objects!Running
  <2>2. ASSUME NEW v \in Worker, v # w, v \notin mixed', v \notin Objects!Publishing', cr'[v] # None, cr'[v].status # None
        PROVE  cm'[v] # None /\ cm'[v].payload = cr'[v].status.payload /\ cm'[v].owner = cr'[v].uid
    BY <1>3, <2>1, <2>2, Zenon DEF ObjectInv, Objects!TensorsKept
  <2>3. ASSUME w \notin mixed', w \notin Objects!Publishing', o.status # None
        PROVE  cm'[w] # None /\ cm'[w].payload = o.status.payload /\ cm'[w].owner = o.uid
    <3>1. CASE Kind[c] = "update"
      BY <1>1, <2>1, <2>3, <3>1, ZenonT(40) DEF ObjectInv, Objects!TensorsKept
    <3>2. CASE Kind[c] = "publish" /\ r.pc \in {"pod", "cm"}
      <4>1. w \in Objects!Publishing'
        BY <1>1, <1>2, <3>2, ZenonT(40) DEF Objects!Publishing, Objects!Publishes, Objects!Running
      <4> QED
        BY <2>3, <4>1, Zenon
    <3>3. CASE Kind[c] = "publish" /\ r.pc = "done"
      <4>1. cm[w] = [payload |-> c, owner |-> call[c].uid] /\ o.uid = call[c].uid
        BY <1>1, <2>3, <3>3, ZenonT(40) DEF ObjectPublication
      <4>2. o.status.payload = c
        BY <3>3, Zenon
      <4>3. call[c].uid \in Nat
        BY <1>1, <1>6, <4>1, ZenonT(40)
      <4>4. cm[w] \in Objects!TensorRecord
        BY SMTT(30), <4>1, <4>3 DEF Objects!TensorRecord
      <4> QED
        BY SMTT(30), <4>1, <4>2, <4>4 DEF Objects!WellFormed
    <3> QED
      BY <3>1, <3>2, <3>3, Zenon
  <2> QED
    BY <1>3, <2>2, <2>3, ZenonT(40) DEF Objects!TensorsKept
<1> QED
  BY <1>5, <1>7, <1>8, <1>9, <1>10, ZenonT(40) DEF ObjectInv

\* The merge patches of the owner label and of the pod reference.
LEMMA ObjectMerges ==
  ASSUME Objects!WellFormed, ObjectInv, NEW c \in Call, Objects!PublishLabel(c) \/ Objects!PublishPod(c)
  PROVE  ObjectInv'
<1> DEFINE w == Of[c]
<1>1. /\ call[c] \in ObjectCall /\ Kind[c] = "publish" /\ w \in Worker /\ call[c].pc \in {"label", "pod"}
      /\ UNCHANGED <<cm, last, owned>>
  BY Zenon DEF ObjectInv, ObjectTypes, ObjectCalls, ObjectKinds, Objects!PublishLabel, Objects!PublishPod, Objects!At,
         Objects!WellFormed
<1>2. CASE Objects!Fails(c) /\ UNCHANGED <<cr, clock>>
  BY <1>1, <1>2, ObjectFails, Zenon
<1>3. ASSUME NEW l \in {"pod", "cm"}, Objects!Go(c, l), UNCHANGED <<cr, clock, mixed>>
      PROVE  ObjectInv'
  BY <1>1, <1>3, ObjectGoesOn, ZenonT(40) DEF ObjectPc
<1>4. ASSUME NEW l \in {"pod", "cm"}, Objects!Go(c, l), UNCHANGED mixed, cr[w] # None,
             NEW o, Objects!Write(w, o), o = [cr[w] EXCEPT !.label = Owner[c]] \/ o = [cr[w] EXCEPT !.pod = Pod[c]]
      PROVE  ObjectInv'
  <2> DEFINE r == [call[c] EXCEPT !.pc = l]
             n == [o EXCEPT !.rv = clock + 1]
  <2>0. l \in ObjectPc
    BY <1>4, Zenon DEF ObjectPc
  <2>1. r \in ObjectCall /\ call' = [call EXCEPT ![c] = r]
    BY <1>4, <2>0, ObjectGo, Zenon DEF ObjectInv
  <2>2. r.pc = l /\ r.uid = call[c].uid
    BY <1>1, Zenon DEF ObjectCall
  <2>3. cr[w] \in Objects!ObjectRecord /\ clock \in Nat
    BY <1>1, <1>4, ZenonT(40) DEF ObjectInv, ObjectTypes
  <2>4. o \in Objects!ObjectRecord /\ o.uid = cr[w].uid /\ o.status = cr[w].status
    BY SMTT(30), <1>4, <2>3 DEF Objects!ObjectRecord
  <2>5. n \in Objects!ObjectRecord /\ n.uid = cr[w].uid /\ n.status = cr[w].status /\ n.rv = clock + 1
    BY SMTT(30), <2>3, <2>4 DEF Objects!ObjectRecord
  <2>6. clock' = clock + 1 /\ cr' = [cr EXCEPT ![w] = n]
    BY <1>4, Zenon DEF Objects!Write
  <2>7. cr[w].status # None => /\ cr[w].status.payload = last[w]
                               /\ cr[w].status.ready <=> cr[w].status.status = "READY"
    BY <1>1, <1>4, Zenon DEF ObjectInv, ObjectStates
  <2>8. last' \in [Worker -> Call \cup {None}] /\ last' = last
    BY <1>1, Zenon DEF ObjectInv, ObjectTypes
  <2> HIDE DEF r, n
  <2> QED
    BY <1>1, <1>4, <2>1, <2>2, <2>5, <2>6, <2>7, <2>8, ObjectWrites, ZenonT(40)
<1>5. CASE Objects!PublishLabel(c)
  <2>1. CASE Owner[c] # None /\ call[c].label # Owner[c]
    BY <1>2, <1>4, <1>5, <2>1, ZenonT(40) DEF Objects!PublishLabel
  <2>2. CASE ~(Owner[c] # None /\ call[c].label # Owner[c])
    BY <1>3, <1>5, <2>2, ZenonT(40) DEF Objects!PublishLabel
  <2> QED
    BY <2>1, <2>2, Zenon
<1>6. CASE Objects!PublishPod(c)
  <2>1. CASE Pod[c] # None /\ call[c].pod # Pod[c]
    BY <1>2, <1>4, <1>6, <2>1, ZenonT(40) DEF Objects!PublishPod
  <2>2. CASE ~(Pod[c] # None /\ call[c].pod # Pod[c])
    BY <1>3, <1>6, <2>2, ZenonT(40) DEF Objects!PublishPod
  <2> QED
    BY <2>1, <2>2, ZenonT(40)
<1> QED
  BY <1>5, <1>6, Zenon

\* The status patch: applied to the version that was read, or refused.
LEMMA ObjectPatches ==
  ASSUME Objects!WellFormed, ObjectInv, NEW c \in Call, Objects!PatchPublication(c) \/ Objects!PatchUpdate(c)
  PROVE  ObjectInv'
<1> DEFINE w == Of[c]
           p == IF Kind[c] = "publish" THEN c ELSE call[c].status.payload
<1>1. /\ call[c] \in ObjectCall /\ Kind[c] \in {"publish", "update"} /\ w \in Worker /\ call[c].pc = "patch"
      /\ UNCHANGED <<cm, owned>> /\ Objects!PatchStatus(c, p)
  BY Zenon DEF ObjectInv, ObjectTypes, Objects!PatchPublication, Objects!PatchUpdate, Objects!PatchStatus, Objects!At,
         Objects!WellFormed
<1>2. ObjectRead(c, call[c]) /\ ObjectPublication(c, call[c]) /\ ObjectKinds(c, call[c])
  BY Zenon DEF ObjectInv, ObjectCalls
<1>3. CASE Objects!Fails(c) /\ UNCHANGED <<cr, clock, last>>
  BY <1>1, <1>3, ObjectFails, ZenonT(40)
<1>4. CASE /\ cr[w] # None /\ cr[w].rv = call[c].rv
           /\ Objects!Write(w, [cr[w] EXCEPT !.status = Objects!Status(p, NewStatus[c])])
           /\ last' = IF Kind[c] = "publish" THEN [last EXCEPT ![w] = c] ELSE last
           /\ Objects!Go(c, "done") /\ UNCHANGED mixed
  <2> DEFINE r == [call[c] EXCEPT !.pc = "done"]
             s == Objects!Status(p, NewStatus[c])
             o == [cr[w] EXCEPT !.status = s]
             n == [o EXCEPT !.rv = clock + 1]
  <2>1. r \in ObjectCall /\ call' = [call EXCEPT ![c] = r]
    BY <1>4, ObjectGo, Zenon DEF ObjectInv, ObjectPc
  <2>2. r.pc = "done" /\ r.uid = call[c].uid
    BY <1>1, Zenon DEF ObjectCall
  <2>3. cr[w] \in Objects!ObjectRecord /\ clock \in Nat /\ last \in [Worker -> Call \cup {None}]
    BY <1>1, <1>4, Zenon DEF ObjectInv, ObjectTypes
  <2>4. CASE Kind[c] = "update"
    <3>1. call[c].status # None /\ call[c].status = cr[w].status
      BY <1>1, <1>2, <1>4, <2>4, ZenonT(40) DEF ObjectRead
    <3>2. cr[w].status \in Objects!StatusRecord
      BY <2>3, <3>1, Zenon DEF Objects!ObjectRecord
    <3>3. p = cr[w].status.payload /\ p \in Call /\ p = last[w]
      BY <1>1, <1>4, <2>4, <3>1, <3>2, ZenonT(40) DEF ObjectInv, ObjectStates, Objects!StatusRecord
    <3> HIDE DEF p
    <3>4. /\ s \in Objects!StatusRecord /\ s.payload = p /\ (s.ready <=> s.status = "READY")
      BY <3>3, Zenon DEF Objects!Status, Objects!StatusRecord
    <3> HIDE DEF s
    <3>5. o \in Objects!ObjectRecord /\ o.uid = cr[w].uid /\ o.status = s
      BY <2>3, <3>4, Zenon DEF Objects!ObjectRecord
    <3> HIDE DEF o
    <3>6. n \in Objects!ObjectRecord /\ n.uid = cr[w].uid /\ n.status = s /\ n.rv = clock + 1
      BY SMTT(30), <2>3, <3>5 DEF Objects!ObjectRecord
    <3>7. clock' = clock + 1 /\ cr' = [cr EXCEPT ![w] = n] /\ last' = last /\ s # None
      BY <1>4, <2>4, <3>4, ZenonT(40) DEF Objects!Write, Objects!WellFormed, s, o
    <3> HIDE DEF r, n
    <3> QED
      BY <1>1, <1>4, <2>1, <2>2, <2>3, <2>4, <3>1, <3>3, <3>4, <3>6, <3>7, ObjectWrites, ZenonT(40)
  <2>5. CASE Kind[c] = "publish"
    <3>1. p = c
      BY <2>5, Zenon
    <3> HIDE DEF p
    <3>2. /\ s \in Objects!StatusRecord /\ s.payload = c /\ (s.ready <=> s.status = "READY")
      BY <3>1, Zenon DEF Objects!Status, Objects!StatusRecord
    <3> HIDE DEF s
    <3>3. o \in Objects!ObjectRecord /\ o.uid = cr[w].uid /\ o.status = s
      BY <2>3, <3>2, ZenonT(40) DEF Objects!ObjectRecord
    <3> HIDE DEF o
    <3>4. n \in Objects!ObjectRecord /\ n.uid = cr[w].uid /\ n.status = s /\ n.rv = clock + 1
      BY <2>3, <3>3 DEF Objects!ObjectRecord
    <3>5. clock' = clock + 1 /\ cr' = [cr EXCEPT ![w] = n] /\ last' = [last EXCEPT ![w] = c] /\ s # None
      BY <1>4, <2>5, <3>2, ZenonT(40) DEF Objects!Write, Objects!WellFormed, s, o
    <3>6. /\ last' \in [Worker -> Call \cup {None}] /\ last'[w] = c
          /\ \A v \in Worker : v # w => last'[v] = last[v]
      BY <1>1, <2>3, <3>5, ZenonT(40)
    <3> HIDE DEF r, n
    <3> QED
      BY <1>1, <1>4, <2>1, <2>2, <2>5, <3>2, <3>4, <3>5, <3>6, ObjectWrites, ZenonT(40)
  <2> QED
    BY <1>1, <2>4, <2>5, ZenonT(40)
<1>5. CASE /\ call' = [call EXCEPT ![c] = [call[c] EXCEPT !.pc = "read", !.tries = call[c].tries + 1]]
           /\ UNCHANGED <<cr, clock, last, mixed>>
  <2> DEFINE r == [call[c] EXCEPT !.pc = "read", !.tries = call[c].tries + 1]
  <2>1. r \in ObjectCall /\ r.pc = "read" /\ r.uid = call[c].uid
    <3>1. call[c].tries + 1 \in Nat /\ "read" \in ObjectPc
      BY <1>1 DEF ObjectCall, ObjectPc
    <3> QED
      BY <1>1, <3>1, ZenonT(40) DEF ObjectCall
  <2>2. call' = [call EXCEPT ![c] = r]
    BY <1>5, Zenon
  <2> HIDE DEF r
  <2>3. ObjectKinds(c, r) /\ ObjectRead(c, r) /\ ObjectPublication(c, r) /\ ObjectBusy(r) /\ ObjectBusy(call[c])
    BY <1>1, <1>2, <2>1, Zenon DEF Objects!Removes, ObjectKinds, ObjectRead, ObjectPublication, ObjectBusy
  <2>4. ObjectStarts(c, r) /\ ObjectRemoves(c, r) /\ ObjectSweeps(c, r)
    BY <1>1, <2>3, Zenon DEF ObjectStarts, ObjectRemoves, ObjectSweeps, Objects!Removes
  <2> QED
    BY <1>1, <1>5, <2>1, <2>2, <2>3, <2>4, ObjectCallMoves, ZenonT(40)
<1>6. CASE cr[w] = None
  BY <1>1, <1>3, <1>6, Zenon DEF Objects!PatchStatus
<1>7. CASE cr[w] # None /\ Objects!Unchanged(c)
  BY <1>1, <1>4, <1>7, Zenon DEF Objects!PatchStatus, Objects!Unchanged
<1>8. CASE cr[w] # None /\ ~Objects!Unchanged(c)
  BY <1>1, <1>3, <1>5, <1>8, ZenonT(40) DEF Objects!PatchStatus
<1> QED
  BY <1>6, <1>7, <1>8, ZenonT(40)

\* An object is deleted that no publication is at, unless its worker is mixed.
LEMMA ObjectDeletes ==
  ASSUME Objects!WellFormed, ObjectInv, NEW c \in Call, NEW r \in ObjectCall, NEW w \in Worker,
         call' = [call EXCEPT ![c] = r], Objects!Delete(w), UNCHANGED <<cm, clock>>, mixed \subseteq mixed',
         Objects!Removes(c), ObjectKinds(c, r), r.pc \in {"done", "objects", "reaping"},
         w \in Objects!Publishing => w \in mixed',
         r.pc # "done" => r.pc = call[c].pc /\ r.left = call[c].left \ {w}
  PROVE  ObjectInv'
<1>1. /\ call' \in [Call -> ObjectCall] /\ call'[c] = r
      /\ \A d \in Call : d # c => call'[d] = call[d]
  BY ObjectSet, Zenon DEF ObjectInv
<1>2. /\ cr' \in [Worker -> Objects!ObjectRecord \cup {None}] /\ cr'[w] = None
      /\ last' \in [Worker -> Call \cup {None}] /\ DOMAIN owned' = Worker
      /\ \A v \in Worker : v # w => cr'[v] = cr[v] /\ last'[v] = last[v]
  BY Zenon DEF ObjectInv, ObjectTypes, Objects!Delete
<1>3. ObjectTypes'
  BY <1>1, <1>2, ZenonT(40) DEF ObjectInv, ObjectTypes
<1>4. ObjectStates'
  BY <1>2 DEF ObjectInv, ObjectStates
<1>5. ObjectCalls'
  <2>1. ASSUME NEW d \in Call, d # c
        PROVE  /\ ObjectKinds(d, call[d])' /\ ObjectRead(d, call[d])'
               /\ ObjectPublication(d, call[d])' /\ ObjectGet(d, call[d])'
    <3>1. /\ call'[d] = call[d] /\ ObjectKinds(d, call[d]) /\ ObjectRead(d, call[d])
          /\ ObjectPublication(d, call[d]) /\ ObjectGet(d, call[d])
      BY <1>1, <2>1, Zenon DEF ObjectInv, ObjectCalls
    <3>2. Kind[d] \in {"publish", "update", "get"} => Of[d] \in Worker
      BY Zenon DEF Objects!WellFormed
    <3>3. ObjectKinds(d, call[d])'
      BY <3>1, Zenon DEF ObjectKinds
    <3>4. ObjectRead(d, call[d])'
      BY <3>1, <3>2, <1>2, Zenon DEF ObjectRead, ObjectKinds
    <3>5. ObjectPublication(d, call[d])'
      <4>1. CASE Of[d] = w
        <5>1. Kind[d] = "publish" /\ w \notin mixed' => ~ObjectBusy(call[d])
          BY <4>1, ObjectPublishing, Zenon
        <5> QED
          BY <3>1, <4>1, <5>1, Zenon DEF ObjectPublication, ObjectBusy
      <4>2. CASE Of[d] # w
        BY <3>1, <3>2, <1>2, <4>2, ZenonT(40) DEF ObjectPublication
      <4> QED
        BY <4>1, <4>2, Zenon
    <3>6. ObjectGet(d, call[d])'
      BY <3>1, <3>2, <1>2, Zenon DEF ObjectGet
    <3> QED
      BY <3>3, <3>4, <3>5, <3>6, ZenonT(40)
  <2>2. /\ ObjectKinds(c, call[c])' /\ ObjectRead(c, call[c])'
        /\ ObjectPublication(c, call[c])' /\ ObjectGet(c, call[c])'
    BY <1>1, Zenon DEF Objects!Removes, ObjectKinds, ObjectRead, ObjectPublication, ObjectGet
  <2> QED
    BY <2>1, <2>2, Zenon DEF ObjectCalls
<1>6. ObjectApart'
  <2>1. ObjectBusy(r) => ObjectBusy(call[c]) /\ r.left = call[c].left \ {w} /\ r.pc = call[c].pc
    BY Zenon DEF ObjectBusy
  <2>2. \A v \in Worker : cr'[v] # None => v # w /\ cr[v] # None
    BY <1>2, ZenonT(40)
  <2>3. ASSUME NEW d \in Call, NEW v \in Worker \ mixed', Kind[d] = "removeMetadata",
               ObjectBusy(call'[d]), cr'[v] # None
        PROVE  call'[d].pc = "objects" /\ v \in call'[d].left
    BY SMTT(30), <1>1, <2>1, <2>2, <2>3 DEF ObjectInv, ObjectApart
  <2>4. ASSUME NEW d \in Call, NEW e \in Call, Kind[d] = "publish", Of[d] \notin mixed',
               ObjectBusy(call'[d]), Objects!Removes(e), ObjectBusy(call'[e])
        PROVE  Kind[e] = "reap" /\ Of[d] \notin call'[e].left
    BY <1>1, <2>1, <2>4, ZenonT(40) DEF ObjectInv, ObjectApart, Objects!Removes
  <2>5. ASSUME NEW d \in Call, NEW e \in Call, Kind[d] = "publish", Kind[e] = "publish", Of[d] = Of[e],
               Of[d] \notin mixed', ObjectBusy(call'[d]), ObjectBusy(call'[e])
        PROVE  d = e
    BY <1>1, <2>5, ZenonT(40) DEF ObjectInv, ObjectApart, Objects!Removes
  <2> QED
    BY <2>3, <2>4, <2>5, Zenon DEF ObjectApart, ObjectBusy, Objects!Removes
<1>7. Objects!TensorsKept'
  <2>1. \A v \in Worker : v \in Objects!Publishing => v \in Objects!Publishing'
    BY <1>1, Zenon DEF Objects!Publishing, Objects!Publishes, Objects!Running, Objects!Removes
  <2> QED
    BY SMTT(30), <1>2, <2>1 DEF ObjectInv, Objects!TensorsKept
<1> QED
  BY <1>3, <1>4, <1>5, <1>6, <1>7, ZenonT(40) DEF ObjectInv

\* The removals of objects.
LEMMA ObjectRemovals ==
  ASSUME Objects!WellFormed, ObjectInv, NEW c \in Call,
         Objects!remove_worker(c) \/ Objects!RemoveMetadataObject(c) \/ Objects!ReapRemove(c)
  PROVE  ObjectInv'
<1>1. call[c] \in ObjectCall /\ ObjectKinds(c, call[c])
  BY Zenon DEF ObjectInv, ObjectTypes, ObjectCalls
<1>2. CASE Objects!remove_worker(c)
  <2> DEFINE r == [call[c] EXCEPT !.pc = "done"]
  <2>1. /\ Kind[c] = "removeWorker" /\ Of[c] \in Worker /\ Objects!Delete(Of[c]) /\ Objects!Go(c, "done")
        /\ mixed' = mixed \cup (Objects!Publishing \cap {Of[c]}) /\ UNCHANGED <<cm, clock>>
    BY <1>2, Zenon DEF Objects!remove_worker, Objects!WellFormed
  <2>2. r \in ObjectCall /\ call' = [call EXCEPT ![c] = r]
    BY <2>1, ObjectGo, Zenon DEF ObjectInv, ObjectPc
  <2>3. r.pc = "done" /\ r.left = call[c].left
    BY <1>1, Zenon DEF ObjectCall
  <2> HIDE DEF r
  <2>4. ObjectKinds(c, r) /\ Objects!Removes(c)
    BY <1>1, <2>1, <2>3, ZenonT(40) DEF ObjectKinds, Objects!Removes
  <2> QED
    BY <2>1, <2>2, <2>3, <2>4, ObjectDeletes, ZenonT(40)
<1>3. CASE Objects!RemoveMetadataObject(c) \/ Objects!ReapRemove(c)
  <2>1. /\ call[c].pc \in {"objects", "reaping"} /\ Objects!Removes(c) /\ UNCHANGED <<cm, clock, mixed>>
        /\ call[c].pc = "objects" => Kind[c] = "removeMetadata"
        /\ call[c].pc = "reaping" => Kind[c] = "reap"
    BY <1>1, <1>3, Zenon DEF Objects!RemoveMetadataObject, Objects!ReapRemove, Objects!At, ObjectKinds, Objects!Removes
  <2>2. CASE call[c].left = {}
    <3>1. CASE Objects!RemoveMetadataObject(c)
      BY <2>1, <2>2, <3>1, ObjectGoesOn, ZenonT(40) DEF Objects!RemoveMetadataObject, Objects!At, ObjectPc
    <3>2. CASE Objects!ReapRemove(c)
      BY <2>1, <2>2, <3>2, ObjectGoesOn, ZenonT(40) DEF Objects!ReapRemove, Objects!At, ObjectPc
    <3> QED
      BY <1>3, <3>1, <3>2, ZenonT(40)
  <2>3. CASE call[c].left # {}
    <3>1. PICK w \in call[c].left : Objects!Delete(w) /\ call' = [call EXCEPT ![c].left = @ \ {w}]
      BY <1>3, <2>3, Zenon DEF Objects!RemoveMetadataObject, Objects!ReapRemove
    <3> DEFINE r == [call[c] EXCEPT !.left = call[c].left \ {w}]
    <3>2. call' = [call EXCEPT ![c] = r] /\ r \in ObjectCall /\ r.pc = call[c].pc /\ r.left = call[c].left \ {w}
      BY <1>1, <3>1, ZenonT(40) DEF ObjectCall
    <3>3. w \in Worker
      BY <1>1, <2>1, <3>1, Zenon DEF ObjectKinds
    <3>4. w \in Objects!Publishing => w \in mixed
      <4>1. ASSUME NEW d \in Call, Kind[d] = "publish", Of[d] = w, ObjectBusy(call[d]), w \notin mixed
            PROVE  FALSE
        BY <2>1, <3>1, <4>1, ZenonT(40) DEF ObjectInv, ObjectApart, ObjectBusy
      <4> QED
        BY <3>3, <4>1, ObjectPublishing, ZenonT(40)
    <3> HIDE DEF r
    <3>5. ObjectKinds(c, r)
      BY <1>1, <3>2, Zenon DEF ObjectKinds
    <3> QED
      BY <2>1, <3>1, <3>2, <3>3, <3>4, <3>5, ObjectDeletes, ZenonT(40)
  <2> QED
    BY <2>2, <2>3, Zenon
<1> QED
  BY <1>2, <1>3, ZenonT(40)

\* The tensors of a worker are written by its publication, or deleted.
LEMMA ObjectTensors ==
  ASSUME Objects!WellFormed, ObjectInv, NEW c \in Call, NEW r \in ObjectCall, NEW w \in Worker,
         NEW t \in Objects!TensorRecord \cup {None},
         call' = [call EXCEPT ![c] = r], cm' = [cm EXCEPT ![w] = t], UNCHANGED <<cr, clock, last, owned, mixed>>,
         ObjectBusy(call[c]), ObjectBusy(r),
         \/ /\ Kind[c] = "publish" /\ Of[c] = w /\ call[c].pc \in {"cm", "cmPatch"} /\ r.pc = "read"
            /\ r.uid = call[c].uid /\ t = [payload |-> c, owner |-> r.uid]
         \/ /\ Kind[c] = "removeMetadata" /\ call[c].pc = "configMaps" /\ r.pc = "configMaps"
            /\ r.left \subseteq call[c].left
  PROVE  ObjectInv'
<1>1. /\ call' \in [Call -> ObjectCall] /\ call'[c] = r
      /\ \A d \in Call : d # c => call'[d] = call[d]
  BY ObjectSet, Zenon DEF ObjectInv
<1>2. /\ cm' \in [Worker -> Objects!TensorRecord \cup {None}] /\ cm'[w] = t
      /\ \A v \in Worker : v # w => cm'[v] = cm[v]
  BY Zenon DEF ObjectInv, ObjectTypes
<1>3. ObjectTypes'
  BY <1>1, <1>2, ZenonT(40) DEF ObjectInv, ObjectTypes
<1>4. ObjectStates'
  BY Zenon DEF ObjectInv, ObjectStates
<1>5. \A d \in Call : d # c /\ Kind[d] = "publish" /\ Of[d] = w /\ w \notin mixed => ~ObjectBusy(call[d])
  BY Zenon DEF ObjectInv, ObjectApart, Objects!Removes
<1>6. Kind[c] = "removeMetadata" => w \in mixed \/ cr[w] = None
  BY Zenon DEF ObjectInv, ObjectApart
<1>7. ObjectCalls'
  <2>1. ASSUME NEW d \in Call, d # c
        PROVE  /\ ObjectKinds(d, call[d])' /\ ObjectRead(d, call[d])'
               /\ ObjectPublication(d, call[d])' /\ ObjectGet(d, call[d])'
    <3>1. /\ call'[d] = call[d] /\ ObjectKinds(d, call[d]) /\ ObjectRead(d, call[d])
          /\ ObjectPublication(d, call[d]) /\ ObjectGet(d, call[d])
      BY <1>1, <2>1, ZenonT(40) DEF ObjectInv, ObjectCalls
    <3>2. Kind[d] = "publish" => Of[d] \in Worker
      BY Zenon DEF Objects!WellFormed
    <3>3. ObjectKinds(d, call[d])' /\ ObjectRead(d, call[d])' /\ ObjectGet(d, call[d])'
      BY <3>1, Zenon DEF ObjectKinds, ObjectRead, ObjectGet
    <3>4. ObjectPublication(d, call[d])'
      BY <3>1, <3>2, <1>2, <1>5, <2>1, ZenonT(40) DEF ObjectPublication, ObjectBusy
    <3> QED
      BY <3>3, <3>4, Zenon
  <2>2. /\ ObjectKinds(c, call[c])' /\ ObjectRead(c, call[c])'
        /\ ObjectPublication(c, call[c])' /\ ObjectGet(c, call[c])'
    <3>1. ObjectKinds(c, call[c]) /\ ObjectPublication(c, call[c])
      BY Zenon DEF ObjectInv, ObjectCalls
    <3> QED
      BY <1>1, <1>2, <3>1, ZenonT(40) DEF Objects!Removes, ObjectKinds, ObjectRead, ObjectPublication, ObjectGet
  <2> QED
    BY <2>1, <2>2, ZenonT(40) DEF ObjectCalls
<1>8. ObjectApart'
  <2>1. ASSUME NEW d \in Call, NEW v \in Worker \ mixed', Kind[d] = "removeMetadata",
               ObjectBusy(call'[d]), cr'[v] # None
        PROVE  call'[d].pc = "objects" /\ v \in call'[d].left
    BY <1>1, <2>1, ZenonT(40) DEF ObjectInv, ObjectApart
  <2>2. ASSUME NEW d \in Call, NEW e \in Call, Kind[d] = "publish", Of[d] \notin mixed',
               ObjectBusy(call'[d]), Objects!Removes(e), ObjectBusy(call'[e])
        PROVE  Kind[e] = "reap" /\ Of[d] \notin call'[e].left
    BY <1>1, <2>2, Zenon DEF ObjectInv, ObjectApart, Objects!Removes
  <2>3. ASSUME NEW d \in Call, NEW e \in Call, Kind[d] = "publish", Kind[e] = "publish", Of[d] = Of[e],
               Of[d] \notin mixed', ObjectBusy(call'[d]), ObjectBusy(call'[e])
        PROVE  d = e
    BY <1>1, <2>3, ZenonT(40) DEF ObjectInv, ObjectApart
  <2> QED
    BY <2>1, <2>2, <2>3, ZenonT(40) DEF ObjectApart, ObjectBusy, Objects!Removes
<1>9. Objects!TensorsKept'
  <2>1. \A v \in Worker : v \in Objects!Publishing => v \in Objects!Publishing'
    BY <1>1, Zenon DEF Objects!Publishing, Objects!Publishes, Objects!Running, ObjectBusy
  <2>2. Kind[c] = "publish" => w \in Objects!Publishing
    BY Zenon DEF Objects!Publishing, Objects!Publishes, Objects!Running, ObjectBusy
  <2> QED
    BY SMTT(30), <1>2, <1>6, <2>1, <2>2 DEF ObjectInv, Objects!TensorsKept
<1> QED
  BY <1>3, <1>4, <1>7, <1>8, <1>9, ZenonT(40) DEF ObjectInv

\* The ConfigMap of a publication, and of a removal.
LEMMA ObjectConfigMaps ==
  ASSUME Objects!WellFormed, ObjectInv, NEW c \in Call,
         Objects!UpsertConfigMap(c) \/ Objects!PatchConfigMap(c) \/ Objects!RemoveMetadataConfigMap(c)
  PROVE  ObjectInv'
<1>1. call[c] \in ObjectCall /\ ObjectKinds(c, call[c])
  BY Zenon DEF ObjectInv, ObjectTypes, ObjectCalls
<1>2. CASE Objects!UpsertConfigMap(c) \/ Objects!PatchConfigMap(c)
  <2> DEFINE w == Of[c]
  <2>1. /\ call[c].pc \in {"cm", "cmPatch"} /\ Kind[c] = "publish" /\ w \in Worker
        /\ UNCHANGED <<cr, clock, last, owned>>
    BY <1>1, <1>2, Zenon DEF Objects!UpsertConfigMap, Objects!PatchConfigMap, Objects!At, ObjectKinds, Objects!WellFormed
  <2>2. CASE Objects!Fails(c) /\ UNCHANGED cm
    BY <2>1, <2>2, ObjectFails, ZenonT(40)
  <2>3. CASE Objects!Go(c, "cmPatch") /\ UNCHANGED <<cm, mixed>> /\ call[c].pc = "cm"
    BY <2>1, <2>3, ObjectGoesOn, ZenonT(40) DEF ObjectPc
  <2>4. CASE /\ cm' = [cm EXCEPT ![w] = [payload |-> c, owner |-> call[c].uid]]
             /\ Objects!Go(c, "read") /\ UNCHANGED mixed
    <3> DEFINE r == [call[c] EXCEPT !.pc = "read"]
               t == [payload |-> c, owner |-> call[c].uid]
    <3>1. r \in ObjectCall /\ call' = [call EXCEPT ![c] = r]
      BY <2>4, ObjectGo, ZenonT(40) DEF ObjectInv, ObjectPc
    <3>2. r.pc = "read" /\ r.uid = call[c].uid
      BY <1>1, Zenon DEF ObjectCall
    <3>3. t \in Objects!TensorRecord
      BY <1>1, Zenon DEF ObjectCall, Objects!TensorRecord
    <3>4. cm' = [cm EXCEPT ![w] = t] /\ t = [payload |-> c, owner |-> r.uid]
      BY <2>4, <3>2, Zenon
    <3> HIDE DEF r, t
    <3>5. ObjectBusy(r) /\ ObjectBusy(call[c])
      BY <2>1, <3>2, ZenonT(40) DEF ObjectBusy
    <3> QED
      BY <2>1, <2>4, <3>1, <3>2, <3>3, <3>4, <3>5, ObjectTensors, ZenonT(40)
  <2> QED
    BY <1>2, <2>2, <2>3, <2>4, ZenonT(40) DEF Objects!UpsertConfigMap, Objects!PatchConfigMap, Objects!At
<1>3. CASE Objects!RemoveMetadataConfigMap(c)
  <2>1. call[c].pc = "configMaps" /\ Kind[c] = "removeMetadata" /\ UNCHANGED <<cr, clock, last, owned, mixed>>
    BY <1>1, <1>3, Zenon DEF Objects!RemoveMetadataConfigMap, Objects!At, ObjectKinds
  <2>2. CASE call[c].left = {}
    BY <1>3, <2>1, <2>2, ObjectGoesOn, ZenonT(40) DEF Objects!RemoveMetadataConfigMap, ObjectPc, Objects!Removes
  <2>3. CASE call[c].left # {}
    <3>1. PICK w \in call[c].left : /\ cm' \in {cm, [cm EXCEPT ![w] = None]}
                                    /\ call' = [call EXCEPT ![c].left = @ \ {w}]
      BY <1>3, <2>3, Zenon DEF Objects!RemoveMetadataConfigMap
    <3> DEFINE r == [call[c] EXCEPT !.left = call[c].left \ {w}]
    <3>2. call' = [call EXCEPT ![c] = r] /\ r \in ObjectCall /\ r.pc = call[c].pc /\ r.left \subseteq call[c].left
      BY <1>1, <3>1, Zenon DEF ObjectCall
    <3>3. w \in Worker
      BY <1>1, <2>1, <3>1, ZenonT(40) DEF ObjectKinds, Objects!Removes
    <3>4. \E t \in Objects!TensorRecord \cup {None} : cm' = [cm EXCEPT ![w] = t]
      <4>1. cm = [cm EXCEPT ![w] = cm[w]] /\ cm[w] \in Objects!TensorRecord \cup {None}
        BY <3>3, Zenon DEF ObjectInv, ObjectTypes
      <4> QED
        BY <3>1, <4>1, Zenon
    <3> HIDE DEF r
    <3>5. ObjectBusy(r) /\ ObjectBusy(call[c])
      BY <2>1, <3>2, Zenon DEF ObjectBusy
    <3> QED
      BY <2>1, <3>2, <3>3, <3>4, <3>5, ObjectTensors, ZenonT(40)
  <2> QED
    BY <2>2, <2>3, Zenon
<1> QED
  BY <1>2, <1>3, Zenon

\* The garbage collector never takes the tensors of an object that is there.
LEMMA ObjectCollects ==
  ASSUME Objects!WellFormed, ObjectInv, NEW w \in Worker, Objects!CollectConfigMap(w)
  PROVE  ObjectInv'
<1>1. /\ cm[w] # None /\ (cr[w] # None => cr[w].uid # cm[w].owner) /\ cm' = [cm EXCEPT ![w] = None]
      /\ UNCHANGED <<cr, clock, call, last, owned, mixed>>
  BY Zenon DEF Objects!CollectConfigMap
<1>2. /\ cm' \in [Worker -> Objects!TensorRecord \cup {None}] /\ cm'[w] = None
      /\ \A v \in Worker : v # w => cm'[v] = cm[v]
  BY <1>1, ZenonT(40) DEF ObjectInv, ObjectTypes
<1>3. ObjectTypes' /\ ObjectStates' /\ ObjectApart'
  BY SMTT(30), <1>1, <1>2 DEF ObjectInv, ObjectTypes, ObjectStates, ObjectApart, ObjectBusy, Objects!Removes
<1>4. ObjectCalls'
  <2>1. ASSUME NEW d \in Call
        PROVE  /\ ObjectKinds(d, call[d])' /\ ObjectRead(d, call[d])'
               /\ ObjectPublication(d, call[d])' /\ ObjectGet(d, call[d])'
    <3>1. /\ ObjectKinds(d, call[d]) /\ ObjectRead(d, call[d])
          /\ ObjectPublication(d, call[d]) /\ ObjectGet(d, call[d])
      BY Zenon DEF ObjectInv, ObjectCalls
    <3>2. Kind[d] = "publish" => Of[d] \in Worker
      BY Zenon DEF Objects!WellFormed
    <3>3. ObjectKinds(d, call[d])' /\ ObjectRead(d, call[d])' /\ ObjectGet(d, call[d])'
      BY <3>1, <1>1, ZenonT(30) DEF ObjectKinds, ObjectRead, ObjectGet
    <3>4. ObjectPublication(d, call[d])'
      <4> SUFFICES ASSUME Kind[d] = "publish", Of[d] \notin mixed
                   PROVE  /\ call[d].pc \in {"label", "pod", "cm", "cmPatch", "read", "patch"} =>
                               cr[Of[d]] # None /\ cr[Of[d]].uid = call[d].uid
                          /\ call[d].pc \in {"read", "patch"} =>
                               cm'[Of[d]] = [payload |-> d, owner |-> call[d].uid]
        BY <1>1, Zenon DEF ObjectPublication
      <4>1. /\ call[d].pc \in {"label", "pod", "cm", "cmPatch", "read", "patch"} =>
                 cr[Of[d]] # None /\ cr[Of[d]].uid = call[d].uid
            /\ call[d].pc \in {"read", "patch"} => cm[Of[d]] = [payload |-> d, owner |-> call[d].uid]
        BY <3>1, ZenonT(40) DEF ObjectPublication
      <4>2. ASSUME call[d].pc \in {"read", "patch"} PROVE Of[d] # w
        <5>1. cr[Of[d]] # None /\ cr[Of[d]].uid = call[d].uid
          BY <4>1, <4>2, ZenonT(40)
        <5>2. cm[Of[d]] = [payload |-> d, owner |-> call[d].uid]
          BY <4>1, <4>2, ZenonT(40)
        <5>3. [payload |-> d, owner |-> call[d].uid].owner = call[d].uid
          BY Zenon
        <5> QED
          BY <5>1, <5>2, <5>3, <1>1, ZenonT(40)
      <4> QED
        BY <3>2, <4>1, <4>2, <1>2, ZenonT(40)
    <3> QED
      BY <3>3, <3>4, ZenonT(40)
  <2> QED
    BY <2>1, ZenonT(40) DEF ObjectCalls
<1>5. Objects!TensorsKept'
  <2>1. Objects!Publishing' = Objects!Publishing
    BY <1>1, Zenon DEF Objects!Publishing, Objects!Publishes, Objects!Running
  <2> QED
    BY <1>1, <1>2, <2>1, ZenonT(40) DEF ObjectInv, Objects!TensorsKept
<1> QED
  BY <1>3, <1>4, <1>5, ZenonT(40) DEF ObjectInv

\* The invariant holds in every state.
LEMMA ObjectInvariance == Objects!WellFormed /\ Objects!Spec => []ObjectInv
<1> SUFFICES ASSUME Objects!WellFormed PROVE Objects!Spec => []ObjectInv
  BY Zenon
<1>1. Objects!Init => ObjectInv
  <2> SUFFICES ASSUME Objects!Init PROVE ObjectInv
    BY Zenon
  <2>1. Objects!Object(0, None, None) \in Objects!ObjectRecord /\ Objects!Fresh \in ObjectCall
    BY Zenon DEF Objects!Object, Objects!ObjectRecord, Objects!Fresh, ObjectCall, ObjectPc
  <2>2. /\ \A w \in Worker : cr[w] \in {None, Objects!Object(0, None, None)} /\ cm[w] = None
        /\ \A c \in Call : call[c] = Objects!Fresh
        /\ clock = 0 /\ mixed = {}
    BY Zenon DEF Objects!Init
  <2>3. ObjectTypes
    BY SMTT(30), <2>1, <2>2 DEF Objects!Init, ObjectTypes
  <2>4. /\ Objects!Fresh.pc = "idle" /\ Objects!Fresh.status = None /\ Objects!Fresh.left = {}
        /\ Objects!Object(0, None, None).uid = 0 /\ Objects!Object(0, None, None).rv = 0
        /\ Objects!Object(0, None, None).status = None
    BY Zenon DEF Objects!Object, Objects!Fresh
  <2>5. ObjectCalls
    BY <2>2, <2>4, ZenonT(40) DEF ObjectCalls, ObjectKinds, ObjectRead, ObjectPublication, ObjectGet
  <2>6. ObjectStates /\ ObjectApart /\ Objects!TensorsKept
    BY SMTT(30), <2>2, <2>4 DEF ObjectStates, ObjectApart, ObjectBusy, Objects!TensorsKept
  <2> QED
    BY <2>3, <2>5, <2>6, ZenonT(40) DEF ObjectInv
<1>2. ASSUME ObjectInv, [Objects!Next]_Objects!vars PROVE ObjectInv'
  <2>1. CASE UNCHANGED Objects!vars
    <3>1. UNCHANGED <<cr, cm, clock, call, last, owned, mixed>>
      BY <2>1, ZenonT(40) DEF Objects!vars
    <3>2. ObjectTypes' /\ ObjectStates' /\ ObjectApart'
      BY <1>2, <3>1, SMTT(30) DEF ObjectInv, ObjectTypes, ObjectStates, ObjectApart, ObjectBusy
    <3>3. ObjectCalls'
      <4> SUFFICES ASSUME NEW x \in Call
                   PROVE  /\ ObjectKinds(x, call[x])' /\ ObjectRead(x, call[x])'
                          /\ ObjectPublication(x, call[x])' /\ ObjectGet(x, call[x])'
        BY Zenon DEF ObjectCalls
      <4>1. /\ ObjectKinds(x, call[x]) /\ ObjectRead(x, call[x])
            /\ ObjectPublication(x, call[x]) /\ ObjectGet(x, call[x])
        BY <1>2, Zenon DEF ObjectInv, ObjectCalls
      <4>2. ObjectKinds(x, call[x])'
        BY <3>1, <4>1, ZenonT(40) DEF ObjectKinds
      <4>3. ObjectRead(x, call[x])'
        BY <3>1, <4>1, ZenonT(40) DEF ObjectRead
      <4>4. ObjectPublication(x, call[x])'
        BY <3>1, <4>1, ZenonT(40) DEF ObjectPublication
      <4>5. ObjectGet(x, call[x])'
        BY <3>1, <4>1, ZenonT(40) DEF ObjectGet
      <4> QED
        BY <4>2, <4>3, <4>4, <4>5, ZenonT(40)
    <3>4. Objects!TensorsKept'
      BY <1>2, <3>1, Zenon DEF ObjectInv, Objects!TensorsKept, Objects!Publishing, Objects!Publishes, Objects!Running
    <3> QED
      BY <3>2, <3>3, <3>4, ZenonT(40) DEF ObjectInv
  <2>2. ASSUME NEW c \in Call, Objects!RequestFails(c) PROVE ObjectInv'
    BY <1>2, <2>2, ObjectFails, Zenon DEF Objects!RequestFails
  <2> QED
    BY ZenonT(40), <1>2, <2>1, <2>2, ObjectPublishReads, ObjectCreates, ObjectMerges, ObjectConfigMaps, ObjectStatusReads,
       ObjectPatches, ObjectRemovals, ObjectLists, ObjectGets, ObjectCollects
       DEF Objects!Next
<1> QED
  BY <1>1, <1>2, PTL DEF Objects!Spec

\* A publication stands until the next one or a removal, and the Ready condition is that of the
\* status next to it: no status update brings back what it read before (patch_status).
THEOREM PublicationsStand ==
  Objects!WellFormed /\ Objects!Spec => [](Objects!PublicationKept /\ Objects!ReadyAgrees)
<1>1. ObjectInv => Objects!PublicationKept /\ Objects!ReadyAgrees
  BY ZenonT(40) DEF ObjectInv, ObjectStates, Objects!PublicationKept, Objects!ReadyAgrees
<1> QED
  BY <1>1, ObjectInvariance, PTL

\* An object has the tensors of its publication, and a read returns the tensors and the status of
\* one publication, wherever no removal or second publication overlapped one (publish_metadata,
\* upsert_tensor_configmap, get_metadata).
THEOREM TensorsBelong ==
  Objects!WellFormed /\ Objects!Spec => [](Objects!TensorsKept /\ Objects!ReadsOnePublication)
<1>1. ObjectInv => Objects!TensorsKept /\ Objects!ReadsOnePublication
  BY ZenonT(40) DEF ObjectInv, ObjectCalls, ObjectGet, Objects!ReadsOnePublication, Objects!At
<1> QED
  BY <1>1, ObjectInvariance, PTL

\* Every publication is made for a namespace, and no object is older than the label.
ObjectScoped == Legacy = {} /\ \A c \in Call : Kind[c] = "publish" => Owner[c] # None

\* Every object has the label it was created with, and whoever saw it agreed.
ObjectOwners ==
  /\ \A w \in Worker : cr[w] # None => cr[w].label # None /\ cr[w].label = owned[w]
  /\ \A c \in Call : call[c].pc = "label" => call[c].label = Owner[c]

\* A step of a call that writes no label.
LEMMA ObjectUnlabelled ==
  ASSUME ObjectInv, ObjectOwners, NEW c \in Call, NEW r, call' = [call EXCEPT ![c] = r],
         r.pc = "label" => r.label = Owner[c], UNCHANGED <<cr, owned>>
  PROVE  ObjectOwners'
<1>1. call'[c] = r /\ \A d \in Call : d # c => call'[d] = call[d]
  BY Zenon DEF ObjectInv, ObjectTypes
<1> QED
  BY <1>1, Zenon DEF ObjectOwners

\* A call that goes on to anything but its label.
LEMMA ObjectGoes ==
  ASSUME ObjectInv, ObjectOwners, NEW c \in Call, NEW l \in ObjectPc, Objects!Go(c, l), l # "label",
         UNCHANGED <<cr, owned>>
  PROVE  ObjectOwners'
<1> DEFINE r == [call[c] EXCEPT !.pc = l]
<1>1. call' = [call EXCEPT ![c] = r] /\ r.pc = l
  BY ObjectGo, Zenon DEF ObjectInv, ObjectTypes, ObjectCall
<1> HIDE DEF r
<1> QED
  BY <1>1, ObjectUnlabelled, ZenonT(40)

\* The objects keep their labels.
LEMMA ObjectLabels ==
  ASSUME ObjectScoped, Objects!WellFormed, ObjectInv, ObjectOwners, [Objects!Next]_Objects!vars
  PROVE  ObjectOwners'
<1>1. \A c \in Call : call[c] \in ObjectCall /\ ObjectKinds(c, call[c])
  BY Zenon DEF ObjectInv, ObjectTypes, ObjectCalls
<1>2. CASE UNCHANGED <<cr, owned, call>>
  BY <1>2, Zenon DEF ObjectOwners
<1>3. ASSUME NEW c \in Call, Objects!Fails(c), UNCHANGED <<cr, owned>> PROVE ObjectOwners'
  BY <1>3, ObjectGoes, ZenonT(40) DEF Objects!Fails, ObjectPc
<1>4. ASSUME NEW c \in Call, NEW w \in Worker, Objects!Delete(w),
             (\E left : call' = [call EXCEPT ![c].left = left]) \/ Objects!Go(c, "done")
      PROVE  ObjectOwners'
  <2>1. /\ cr'[w] = None /\ \A v \in Worker : v # w => cr'[v] = cr[v] /\ owned'[v] = owned[v]
    BY <1>4, Zenon DEF Objects!Delete, ObjectInv, ObjectTypes
  <2>2. \A d \in Call : call'[d].pc = "label" => call[d].pc = "label" /\ call'[d].label = call[d].label
    BY SMTT(30), <1>1, <1>4 DEF ObjectInv, ObjectTypes, ObjectCall, Objects!Go
  <2> QED
    BY <2>1, <2>2, ZenonT(40) DEF ObjectOwners
<1>5. ASSUME NEW c \in Call, NEW o, NEW l \in ObjectPc, l # "label", Of[c] \in Worker, cr[Of[c]] # None,
             o \in Objects!ObjectRecord, o.label = cr[Of[c]].label,
             Objects!Write(Of[c], o), Objects!Go(c, l), UNCHANGED owned
      PROVE  ObjectOwners'
  <2> DEFINE n == [o EXCEPT !.rv = clock + 1]
  <2>1. n.label = o.label
    BY <1>5, Zenon DEF Objects!ObjectRecord
  <2>2. cr' = [cr EXCEPT ![Of[c]] = n]
    BY <1>5, ZenonT(40) DEF Objects!Write
  <2> HIDE DEF n
  <2>3. cr'[Of[c]] = n /\ \A v \in Worker : v # Of[c] => cr'[v] = cr[v]
    BY <1>5, <2>2, ZenonT(40) DEF ObjectInv, ObjectTypes
  <2>4. \A d \in Call : call'[d].pc = "label" => call[d].pc = "label" /\ call'[d].label = call[d].label
    BY <1>1, <1>5, ZenonT(40) DEF ObjectInv, ObjectTypes, ObjectCall, Objects!Go
  <2> QED
    BY <1>5, <2>1, <2>3, <2>4, ZenonT(40) DEF ObjectOwners
<1>6. ASSUME NEW c \in Call, Objects!PublishStart(c) \/ Objects!PublishGet(c) PROVE ObjectOwners'
  <2>1. CASE Objects!PublishStart(c)
    <3>1. \E l \in {"create", "get"} : Objects!Go(c, l)
      BY <2>1, ZenonT(40) DEF Objects!PublishStart
    <3>2. UNCHANGED <<cr, owned>>
      BY <2>1, Zenon DEF Objects!PublishStart
    <3> QED
      BY <3>1, <3>2, ObjectGoes, ZenonT(40) DEF ObjectPc
  <2>2. CASE Objects!PublishGet(c) /\ ~Objects!Fails(c)
    <3> DEFINE o == cr[Of[c]]
               r == [call[c] EXCEPT !.pc = "label", !.uid = o.uid, !.label = o.label, !.pod = o.pod]
    <3>1. /\ o # None /\ Objects!OwnerAgrees(c, o.label) /\ call' = [call EXCEPT ![c] = r]
          /\ UNCHANGED <<cr, owned>> /\ Kind[c] = "publish" /\ Of[c] \in Worker
      BY <1>1, <2>2, ZenonT(40) DEF Objects!PublishGet, Objects!At, ObjectKinds, Objects!WellFormed
    <3>2. o.label # None
      BY <3>1, Zenon DEF ObjectOwners
    <3>3. r.label = o.label
      BY SMTT(30), <1>1 DEF ObjectCall
    <3>4. o.label = Owner[c]
      BY <3>1, <3>2, ZenonT(40) DEF Objects!OwnerAgrees, ObjectScoped
    <3> HIDE DEF r
    <3> QED
      BY <3>1, <3>3, <3>4, ObjectUnlabelled, ZenonT(40)
  <2>3. CASE Objects!PublishGet(c) /\ Objects!Fails(c)
    BY <1>3, <2>3, ZenonT(40) DEF Objects!PublishGet
  <2> QED
    BY <1>6, <2>1, <2>2, <2>3, ZenonT(40)
<1>7. ASSUME NEW c \in Call, Objects!PublishCreate(c) PROVE ObjectOwners'
  <2>1. Of[c] \in Worker /\ Kind[c] = "publish" /\ Objects!Go(c, "get")
    BY <1>1, <1>7, ZenonT(40) DEF Objects!PublishCreate, Objects!At, ObjectKinds, Objects!WellFormed
  <2>2. CASE cr[Of[c]] # None
    BY <1>7, <2>1, <2>2, ObjectGoes, ZenonT(40) DEF Objects!PublishCreate, ObjectPc
  <2>3. CASE cr[Of[c]] = None
    <3>1. /\ cr'[Of[c]] = Objects!Object(clock + 1, Owner[c], Pod[c]) /\ owned'[Of[c]] = Owner[c]
          /\ \A v \in Worker : v # Of[c] => cr'[v] = cr[v] /\ owned'[v] = owned[v]
      BY <1>7, <2>1, <2>3, ZenonT(40) DEF Objects!PublishCreate, ObjectInv, ObjectTypes
    <3>2. Objects!Object(clock + 1, Owner[c], Pod[c]).label = Owner[c] /\ Owner[c] # None
      BY <2>1, ZenonT(40) DEF Objects!Object, ObjectScoped
    <3>3. \A d \in Call : call'[d].pc = "label" => call[d].pc = "label" /\ call'[d].label = call[d].label
      BY <1>1, <2>1, ZenonT(40) DEF ObjectInv, ObjectTypes, ObjectCall, Objects!Go
    <3> QED
      BY <3>1, <3>2, <3>3, ZenonT(40) DEF ObjectOwners
  <2> QED
    BY <2>2, <2>3, ZenonT(40)
<1>8. ASSUME NEW c \in Call, Objects!PublishLabel(c) \/ Objects!PublishPod(c) PROVE ObjectOwners'
  <2>1. CASE Objects!PublishLabel(c)
    <3>1. call[c].label = Owner[c]
      BY <2>1, Zenon DEF Objects!PublishLabel, Objects!At, ObjectOwners
    <3> QED
      BY <2>1, <3>1, ObjectGoes, ZenonT(40) DEF Objects!PublishLabel, ObjectPc
  <2>2. CASE Objects!PublishPod(c)
    <3>1. Of[c] \in Worker /\ UNCHANGED owned
      BY <1>1, <2>2, ZenonT(40) DEF Objects!PublishPod, Objects!At, ObjectKinds, Objects!WellFormed
    <3>2. CASE UNCHANGED cr /\ (Objects!Fails(c) \/ Objects!Go(c, "cm"))
      BY <1>3, <3>1, <3>2, ObjectGoes, ZenonT(40) DEF ObjectPc
    <3>3. CASE cr[Of[c]] # None /\ Objects!Write(Of[c], [cr[Of[c]] EXCEPT !.pod = Pod[c]]) /\ Objects!Go(c, "cm")
      <4> DEFINE o == [cr[Of[c]] EXCEPT !.pod = Pod[c]]
      <4>1. cr[Of[c]] \in Objects!ObjectRecord
        BY <3>1, <3>3, ZenonT(40) DEF ObjectInv, ObjectTypes
      <4>2. o \in Objects!ObjectRecord /\ o.label = cr[Of[c]].label
        BY <4>1, Zenon DEF Objects!ObjectRecord
      <4> HIDE DEF o
      <4> QED
        BY <1>5, <3>1, <3>3, <4>2, ZenonT(40) DEF o, ObjectPc
    <3> QED
      BY <2>2, <3>2, <3>3, ZenonT(40) DEF Objects!PublishPod
  <2> QED
    BY <1>8, <2>1, <2>2, ZenonT(40)
<1>9. ASSUME NEW c \in Call, NEW r, call' = [call EXCEPT ![c] = r], r.pc # "label", UNCHANGED <<cr, owned>>
      PROVE  ObjectOwners'
  BY <1>9, ObjectUnlabelled, ZenonT(40)
<1>10. ASSUME NEW c \in Call,
              \/ Objects!UpsertConfigMap(c) \/ Objects!PatchConfigMap(c) \/ Objects!RequestFails(c)
       PROVE  ObjectOwners'
  <2>1. UNCHANGED <<cr, owned>> /\ (Objects!Fails(c) \/ \E l \in {"read", "cmPatch"} : Objects!Go(c, l))
    BY <1>10, Zenon DEF Objects!UpsertConfigMap, Objects!PatchConfigMap, Objects!RequestFails
  <2> QED
    BY <1>3, <2>1, ObjectGoes, ZenonT(40) DEF ObjectPc
<1>11. ASSUME NEW c \in Call,
              \/ Objects!RemoveMetadataList(c) \/ Objects!RemoveMetadataSweep(c) \/ Objects!ReapList(c)
              \/ Objects!GetTensors(c)
       PROVE  ObjectOwners'
  <2>1. UNCHANGED <<cr, owned>>
    BY <1>11, Zenon DEF Objects!RemoveMetadataList, Objects!RemoveMetadataSweep, Objects!ReapList, Objects!GetTensors
  <2>2. ASSUME NEW d \in Call, call'[d].pc = "label" PROVE call'[d] = call[d]
    <3>1. CASE Objects!RemoveMetadataList(c)
      BY <1>1, <2>2, <3>1, ZenonT(40) DEF Objects!RemoveMetadataList, ObjectInv, ObjectTypes, ObjectCall
    <3>2. CASE Objects!RemoveMetadataSweep(c)
      BY <1>1, <2>2, <3>2, ZenonT(40) DEF Objects!RemoveMetadataSweep, ObjectInv, ObjectTypes, ObjectCall
    <3>3. CASE Objects!ReapList(c)
      BY <1>1, <2>2, <3>3, ZenonT(40) DEF Objects!ReapList, ObjectInv, ObjectTypes, ObjectCall
    <3>4. CASE Objects!GetTensors(c)
      BY <1>1, <2>2, <3>4, ZenonT(40) DEF Objects!GetTensors, ObjectInv, ObjectTypes, ObjectCall
    <3> QED
      BY <1>11, <3>1, <3>2, <3>3, <3>4, ZenonT(40)
  <2> QED
    BY <2>1, <2>2, ZenonT(40) DEF ObjectOwners
<1>12. ASSUME NEW c \in Call, Objects!ReadForPublish(c) \/ Objects!ReadForUpdate(c) \/ Objects!GetObject(c)
       PROVE  ObjectOwners'
  <2> DEFINE o == cr[Of[c]]
             p == [call[c] EXCEPT !.pc = "patch", !.rv = o.rv]
             u == [call[c] EXCEPT !.pc = "patch", !.rv = o.rv, !.status = o.status]
             g == [call[c] EXCEPT !.pc = "tensors", !.status = o.status,
                                  !.clean = Of[c] \notin Objects!Publishing, !.uid = o.uid]
  <2>1. /\ UNCHANGED <<cr, owned>>
        /\ \/ Objects!Fails(c) \/ Objects!Go(c, "done")
           \/ call' = [call EXCEPT ![c] = p] \/ call' = [call EXCEPT ![c] = u] \/ call' = [call EXCEPT ![c] = g]
    BY <1>12, Zenon DEF Objects!ReadForPublish, Objects!ReadForUpdate, Objects!GetObject
  <2>2. p.pc = "patch" /\ u.pc = "patch" /\ g.pc = "tensors"
    BY <1>1, ZenonT(40) DEF ObjectCall
  <2> HIDE DEF p, u, g
  <2> QED
    BY <1>3, <1>9, <2>1, <2>2, ObjectGoes, ZenonT(40) DEF ObjectPc
<1>13. ASSUME NEW c \in Call, Objects!PatchPublication(c) \/ Objects!PatchUpdate(c) PROVE ObjectOwners'
  <2>1. Of[c] \in Worker /\ UNCHANGED owned
    BY <1>13, Zenon DEF Objects!PatchPublication, Objects!PatchUpdate, Objects!PatchStatus, Objects!WellFormed
  <2>2. CASE Objects!Fails(c) /\ UNCHANGED cr
    BY <1>3, <2>1, <2>2, ZenonT(40)
  <2>3. ASSUME NEW s, cr[Of[c]] # None, Objects!Write(Of[c], [cr[Of[c]] EXCEPT !.status = s]), Objects!Go(c, "done"),
               s \in Objects!StatusRecord
        PROVE  ObjectOwners'
    <3> DEFINE o == [cr[Of[c]] EXCEPT !.status = s]
    <3>1. cr[Of[c]] \in Objects!ObjectRecord
      BY <2>1, <2>3, ZenonT(40) DEF ObjectInv, ObjectTypes
    <3>2. o \in Objects!ObjectRecord /\ o.label = cr[Of[c]].label
      BY <2>3, <3>1, ZenonT(40) DEF Objects!ObjectRecord
    <3> HIDE DEF o
    <3> QED
      BY <1>5, <2>1, <2>3, <3>2, ZenonT(40) DEF o, ObjectPc
  <2>4. CASE call' = [call EXCEPT ![c] = [call[c] EXCEPT !.pc = "read", !.tries = call[c].tries + 1]] /\ UNCHANGED cr
    <3> DEFINE r == [call[c] EXCEPT !.pc = "read", !.tries = call[c].tries + 1]
    <3>1. r.pc = "read"
      BY <1>1, ZenonT(40) DEF ObjectCall
    <3> HIDE DEF r
    <3> QED
      BY <1>9, <2>1, <2>4, <3>1, ZenonT(40) DEF r
  <2>5. ASSUME NEW p \in Call PROVE Objects!Status(p, NewStatus[c]) \in Objects!StatusRecord
    BY Zenon DEF Objects!Status, Objects!StatusRecord
  <2>6. CASE Objects!PatchPublication(c)
    BY <2>2, <2>3, <2>4, <2>5, <2>6, ZenonT(40) DEF Objects!PatchPublication, Objects!PatchStatus
  <2>7. CASE Objects!PatchUpdate(c)
    <3>1. call[c].status # None
      BY <2>7, Zenon DEF Objects!PatchUpdate, Objects!At, ObjectInv, ObjectCalls, ObjectRead
    <3>2. call[c].status.payload \in Call
      BY <1>1, <3>1, ZenonT(40) DEF ObjectCall, Objects!StatusRecord
    <3> QED
      BY <2>2, <2>3, <2>4, <2>5, <2>7, <3>2, ZenonT(40) DEF Objects!PatchUpdate, Objects!PatchStatus
  <2> QED
    BY <1>13, <2>6, <2>7, Zenon
<1>14. ASSUME NEW c \in Call, Objects!remove_worker(c) PROVE ObjectOwners'
  <2>1. Of[c] \in Worker /\ Objects!Delete(Of[c]) /\ Objects!Go(c, "done")
    BY <1>14, ZenonT(40) DEF Objects!remove_worker, Objects!WellFormed
  <2> QED
    BY <1>4, <2>1, ZenonT(40)
<1>15. ASSUME NEW c \in Call, Objects!RemoveMetadataObject(c) \/ Objects!ReapRemove(c) PROVE ObjectOwners'
  <2>1. call[c].left \subseteq Worker
    BY <1>1, <1>15, ZenonT(40) DEF Objects!RemoveMetadataObject, Objects!ReapRemove, Objects!At, ObjectKinds, Objects!Removes
  <2>2. CASE call[c].left = {}
    <3>1. UNCHANGED <<cr, owned>> /\ \E l \in {"sweep", "done"} : Objects!Go(c, l)
      BY <1>15, <2>2, ZenonT(40) DEF Objects!RemoveMetadataObject, Objects!ReapRemove
    <3> QED
      BY <3>1, ObjectGoes, ZenonT(40) DEF ObjectPc
  <2>3. CASE call[c].left # {}
    <3>1. PICK w \in call[c].left : Objects!Delete(w) /\ call' = [call EXCEPT ![c].left = @ \ {w}]
      BY <1>15, <2>3, ZenonT(40) DEF Objects!RemoveMetadataObject, Objects!ReapRemove
    <3>2. \E left : call' = [call EXCEPT ![c].left = left]
      BY <3>1, Zenon
    <3> QED
      BY <1>4, <2>1, <3>1, <3>2, ZenonT(40)
  <2> QED
    BY <2>2, <2>3, ZenonT(40)
<1>16. ASSUME NEW c \in Call, Objects!RemoveMetadataConfigMap(c) PROVE ObjectOwners'
  <2>1. UNCHANGED <<cr, owned>>
    BY <1>16, ZenonT(40) DEF Objects!RemoveMetadataConfigMap
  <2>2. ASSUME NEW d \in Call, call'[d].pc = "label" PROVE call[d].pc = "label" /\ call'[d].label = call[d].label
    BY SMTT(30), <1>1, <1>16, <2>2 DEF Objects!RemoveMetadataConfigMap, Objects!Go, ObjectInv, ObjectTypes, ObjectCall
  <2> QED
    BY <2>1, <2>2, ZenonT(40) DEF ObjectOwners
<1>17. ASSUME NEW w \in Worker, Objects!CollectConfigMap(w) PROVE ObjectOwners'
  BY <1>2, <1>17, ZenonT(40) DEF Objects!CollectConfigMap
<1>18. CASE UNCHANGED Objects!vars
  BY <1>2, <1>18, ZenonT(40) DEF Objects!vars
<1> QED
  BY <1>6, <1>7, <1>8, <1>10, <1>11, <1>13, <1>14, <1>15, <1>16, <1>17, <1>18, <1>12, ZenonT(40) DEF Objects!Next

\* Where every publication is made for a namespace and no object is older than the owner label, an
\* object keeps the owner it was created with, whoever publishes (publish_metadata's owner check).
THEOREM OwnersStay ==
  ObjectScoped /\ Objects!WellFormed /\ Objects!Spec => []Objects!OwnerKept
<1> SUFFICES ASSUME ObjectScoped, Objects!WellFormed PROVE Objects!Spec => []Objects!OwnerKept
  BY Zenon
<1>1. Objects!Init => ObjectOwners
  <2> SUFFICES ASSUME Objects!Init PROVE ObjectOwners
    BY Zenon
  <2>1. Objects!Fresh.pc # "label"
    BY Zenon DEF Objects!Fresh
  <2>2. \A w \in Worker : cr[w] = None
    BY Zenon DEF Objects!Init, ObjectScoped
  <2>3. \A c \in Call : call[c] = Objects!Fresh
    BY Zenon DEF Objects!Init
  <2> QED
    BY <2>1, <2>2, <2>3, ZenonT(40) DEF ObjectOwners
<1>2. ObjectInv /\ ObjectOwners /\ [Objects!Next]_Objects!vars => ObjectOwners'
  BY ObjectLabels, Zenon
<1>3. ObjectOwners => Objects!OwnerKept
  BY Zenon DEF ObjectOwners, Objects!OwnerKept
<1> QED
  BY <1>1, <1>2, <1>3, ObjectInvariance, PTL DEF Objects!Spec
=============================================================================
