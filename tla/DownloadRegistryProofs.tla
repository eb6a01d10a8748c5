------------------------ MODULE DownloadRegistryProofs ------------------------
(***************************************************************************)
(* The Redis registry implements the fenced claim protocol of              *)
(* DownloadClaim, for any set of replicas, requests and caches and any     *)
(* number of faults; and a client's request (ModelRequest) installs what   *)
(* it reports.                                                             *)
(***************************************************************************)
EXTENDS DownloadRegistry, Sequences, TLAPS

\* What makes a claim usable once: an id that its request has not given away yet
\* has no download task, and a request about to start one has an id left.
FreshIds ==
  /\ \A c \in Claim : c[2] >= seq[c[1]] => task[c] = "none"
  /\ \A q \in Request : pc[q] = "won" => seq[q] <= MaxClaims

Inv == TypeOK /\ FreshIds

USE ConstantAssumption DEF Status

\* A claim id is a request of a replica and its attempt.
LEMMA ClaimFacts ==
  /\ \A c \in Claim : /\ c[1] \in Request /\ c[2] \in 1 .. MaxClaims
                      /\ c = <<c[1], c[2]>>
                      /\ ReplicaOf(c) \in Replica
                      /\ c # None
  /\ \A q \in Request, n \in 1 .. MaxClaims :
       <<q, n>> \in Claim /\ <<q, n>>[1] = q /\ <<q, n>>[2] = n
BY DEF Claim, ReplicaOf

\* A granted claim keeps the record typed.
LEMMA ClaimedType ==
  \A c \in Claim : /\ Claimed(c) \in Record
                   /\ Claimed(c).status = "DOWNLOADING"
                   /\ Claimed(c).claim = c
                   /\ Claimed(c).lapsed = FALSE
                   /\ Claimed(c) # None
<1> SUFFICES ASSUME NEW c \in Claim
             PROVE  /\ Claimed(c) \in Record /\ Claimed(c) # None
                    /\ Claimed(c).status = "DOWNLOADING" /\ Claimed(c).claim = c /\ Claimed(c).lapsed = FALSE
  BY Zenon
<1>1. Claimed(c) = [status |-> "DOWNLOADING", claim |-> c, lapsed |-> FALSE]
  BY Zenon DEF Claimed
<1>2. Claimed(c) \in Record
  BY <1>1 DEF Record
<1>3. Claimed(c) # None
  BY <1>2, Zenon
<1> QED
  BY <1>1, <1>2, <1>3

\* A finished claim keeps the record typed.
LEMMA FinishedType ==
  \A s \in Status : /\ Finished(s) \in Record
                    /\ Finished(s).status = s
                    /\ Finished(s).claim = None
                    /\ Finished(s).lapsed = FALSE
                    /\ Finished(s) # None
<1> SUFFICES ASSUME NEW s \in Status
             PROVE  /\ Finished(s) \in Record /\ Finished(s) # None
                    /\ Finished(s).status = s /\ Finished(s).claim = None /\ Finished(s).lapsed = FALSE
  BY Zenon
<1>1. Finished(s) = [status |-> s, claim |-> None, lapsed |-> FALSE]
  BY Zenon DEF Finished
<1>2. Finished(s) \in Record
  BY <1>1 DEF Record
<1>3. Finished(s) # None
  BY <1>2, Zenon
<1> QED
  BY <1>1, <1>2, <1>3

\* A fault keeps the fault counts typed.
LEMMA FailType ==
  ASSUME TypeOK, NEW k, Fail(k)
  PROVE  faults' \in FaultCount
BY DEF TypeOK, Fail, CanFail, FaultCount

\* The initial state satisfies the invariant and maps to the protocol's.
LEMMA InitInv == Init => Inv
<1> SUFFICES ASSUME Init PROVE Inv
  BY Zenon
<1>1. TypeOK
  BY DEF Init, TypeOK, FaultCount
<1>2. FreshIds
  BY Zenon DEF Init, FreshIds
<1> QED
  BY <1>1, <1>2, Zenon DEF Inv

\* The id a request is about to use is one of the claims and is unspent.
LEMMA MyClaimFacts ==
  ASSUME Inv, NEW q \in Request, seq[q] <= MaxClaims
  PROVE  /\ MyClaim(q) \in Claim
         /\ MyClaim(q)[1] = q /\ MyClaim(q)[2] = seq[q]
         /\ task[MyClaim(q)] = "none"
<1>1. seq[q] \in 1 .. MaxClaims
  BY DEF Inv, TypeOK
<1>2. MyClaim(q) \in Claim /\ MyClaim(q)[1] = q /\ MyClaim(q)[2] = seq[q]
  BY <1>1, ClaimFacts, Zenon DEF MyClaim
<1>3. MyClaim(q)[2] >= seq[MyClaim(q)[1]]
  BY <1>1, <1>2
<1> QED
  BY <1>2, <1>3, Zenon DEF Inv, FreshIds

\* Taking ownership keeps the record typed.
LEMMA TakeOwnershipType ==
  ASSUME Inv, NEW q \in Request, TakeOwnership(q)
  PROVE  record' \in Record \cup {None}
BY MyClaimFacts, ClaimedType, Zenon DEF TakeOwnership

\* A download that starts uses up its request's id and no other.
LEMMA StartTaskFacts ==
  ASSUME Inv, NEW q \in Request, seq[q] <= MaxClaims, StartTask(q)
  PROVE  /\ task' \in [Claim -> {"none", "fetching", "fetched", "failed", "ended"}]
         /\ seq' \in [Request -> Nat \ {0}]
         /\ \A c \in Claim : c[2] >= seq'[c[1]] => task'[c] = "none"
         /\ \A p \in Request : p # q => seq'[p] = seq[p]
<1>1. MyClaim(q) \in Claim /\ MyClaim(q)[1] = q /\ MyClaim(q)[2] = seq[q]
  BY MyClaimFacts, Zenon
<1>2. task' = [task EXCEPT ![MyClaim(q)] = "fetching"] /\ seq' = [seq EXCEPT ![q] = seq[q] + 1]
  BY Zenon DEF StartTask
<1>3. seq[q] \in Nat \ {0} /\ seq \in [Request -> Nat \ {0}]
  BY Zenon DEF Inv, TypeOK
<1>4. task \in [Claim -> {"none", "fetching", "fetched", "failed", "ended"}]
  BY Zenon DEF Inv, TypeOK
<1>5. task' \in [Claim -> {"none", "fetching", "fetched", "failed", "ended"}]
  BY <1>1, <1>2, <1>4, Zenon
<1>6. seq' \in [Request -> Nat \ {0}] /\ seq'[q] = seq[q] + 1 /\ \A p \in Request : p # q => seq'[p] = seq[p]
  BY <1>2, <1>3
<1>7. ASSUME NEW c \in Claim, c[2] >= seq'[c[1]]
      PROVE  task'[c] = "none"
  <2>1. c[1] \in Request /\ c[2] \in 1 .. MaxClaims
    BY ClaimFacts, Zenon
  <2>2. c[2] >= seq[c[1]]
    BY <1>3, <1>6, <1>7, <2>1
  <2>3. task[c] = "none"
    BY <2>2, Zenon DEF Inv, FreshIds
  <2>4. c # MyClaim(q)
    BY <1>1, <1>3, <1>6, <1>7, <2>1
  <2> QED
    BY <1>2, <1>4, <2>3, <2>4, Zenon
<1> QED
  BY <1>5, <1>6, <1>7, Zenon

\* A request's step preserves the invariant.
LEMMA RequestInv ==
  ASSUME Inv, NEW q \in Request, Arrive(q) \/ RequestStep(q) \/ RequestFault(q)
  PROVE  Inv'
<1>1. CASE Arrive(q)
  <2>1. TypeOK'
    BY <1>1, Zenon DEF Arrive, Inv, TypeOK, requestVars, cacheVars
  <2>2. FreshIds'
    BY <1>1, Zenon DEF Arrive, Inv, TypeOK, FreshIds, requestVars, cacheVars
  <2> QED
    BY <2>1, <2>2, Zenon DEF Inv
<1>2. CASE FirstClaimWon(q)
  <2>1. TypeOK'
    BY <1>2, TakeOwnershipType, Zenon DEF FirstClaimWon, TakeOwnership, Inv, TypeOK, requestVars, cacheVars
  <2>2. FreshIds'
    BY <1>2, Zenon DEF FirstClaimWon, TakeOwnership, Inv, TypeOK, FreshIds, requestVars, cacheVars
  <2> QED
    BY <2>1, <2>2, Zenon DEF Inv
<1>3. CASE FirstClaimObserved(q)
  <2>1. TypeOK'
    BY <1>3 DEF FirstClaimObserved, Claimable, Observed, Record, Inv, TypeOK, requestVars, cacheVars
  <2>2. FreshIds'
    BY <1>3 DEF FirstClaimObserved, Claimable, Observed, Record, Inv, TypeOK, FreshIds, requestVars, cacheVars
  <2> QED
    BY <2>1, <2>2, Zenon DEF Inv
<1>4. CASE FirstCheck(q)
  <2>1. TypeOK'
    BY <1>4 DEF FirstCheck, Answer, Inv, TypeOK, requestVars, cacheVars
  <2>2. FreshIds'
    BY <1>4, ZenonT(40) DEF FirstCheck, Answer, Inv, TypeOK, FreshIds, requestVars, cacheVars
  <2> QED
    BY <2>1, <2>2, Zenon DEF Inv
<1>5. CASE FirstClear(q)
  <2>1. TypeOK'
    BY <1>5 DEF FirstClear, Clear, Inv, TypeOK, requestVars, cacheVars
  <2>2. FreshIds'
    BY <1>5, Zenon DEF FirstClear, Clear, Inv, TypeOK, FreshIds, requestVars, cacheVars
  <2> QED
    BY <2>1, <2>2, Zenon DEF Inv
<1>6. CASE Retry(q)
  <2>1. TypeOK'
    BY <1>6, TakeOwnershipType DEF Retry, TakeOwnership, Inv, TypeOK, requestVars, cacheVars
  <2>2. FreshIds'
    BY <1>6, ZenonT(40) DEF Retry, TakeOwnership, Inv, TypeOK, FreshIds, requestVars, cacheVars
  <2> QED
    BY <2>1, <2>2, Zenon DEF Inv
<1>7. CASE EnterWaitLoop(q)
  <2>1. CASE pc[q] = "won"
    <3>1. seq[q] <= MaxClaims /\ StartTask(q)
      BY <1>7, <2>1, Zenon DEF EnterWaitLoop, Inv, FreshIds
    <3>2. TypeOK'
      BY <1>7, <3>1, StartTaskFacts DEF EnterWaitLoop, Subscribe, Inv, TypeOK, requestVars, cacheVars
    <3>3. \A p \in Request : pc'[p] = "won" => pc[p] = "won" /\ p # q
      BY <1>7, Zenon DEF EnterWaitLoop, Inv, TypeOK
    <3>4. FreshIds'
      BY <3>1, <3>3, StartTaskFacts, ZenonT(40) DEF Inv, FreshIds
    <3> QED
      BY <3>2, <3>4, Zenon DEF Inv
  <2>2. CASE pc[q] = "observed"
    <3>1. TypeOK'
      BY <1>7, <2>2, Zenon DEF EnterWaitLoop, Subscribe, Inv, TypeOK, requestVars, cacheVars
    <3>2. FreshIds'
      BY <1>7, <2>2, Zenon DEF EnterWaitLoop, Inv, TypeOK, FreshIds
    <3> QED
      BY <3>1, <3>2, Zenon DEF Inv
  <2> QED
    BY <1>7, <2>1, <2>2, Zenon DEF EnterWaitLoop
<1>8. CASE PollWon(q)
  <2>1. seq[q] <= MaxClaims /\ StartTask(q) /\ TakeOwnership(q)
    BY <1>8, Zenon DEF PollWon, TakeOwnership
  <2>2. TypeOK'
    BY <1>8, <2>1, StartTaskFacts, TakeOwnershipType, Zenon DEF PollWon, Inv, TypeOK, cacheVars
  <2>3. \A p \in Request : pc'[p] = "won" => pc[p] = "won" /\ p # q
    BY <1>8, Zenon DEF PollWon
  <2>4. FreshIds'
    BY <2>1, <2>3, StartTaskFacts, ZenonT(40) DEF Inv, FreshIds
  <2> QED
    BY <2>2, <2>4, Zenon DEF Inv
<1>9. CASE PollObserved(q)
  <2>1. TypeOK'
    <3>1. CASE pc' = [pc EXCEPT ![q] = "recheck"] /\ UNCHANGED told
      BY <1>9, <3>1, Zenon DEF PollObserved, Inv, TypeOK, cacheVars
    <3>2. CASE Answer(q, "ERROR")
      BY <1>9, <3>2, Zenon DEF PollObserved, Answer, Inv, TypeOK, cacheVars
    <3> QED
      BY <1>9, <3>1, <3>2, Zenon DEF PollObserved
  <2>2. FreshIds'
    BY <1>9, ZenonT(40) DEF PollObserved, Answer, Inv, TypeOK, FreshIds, requestVars, cacheVars
  <2> QED
    BY <2>1, <2>2, Zenon DEF Inv
<1>10. CASE Recheck(q)
  <2>1. TypeOK'
    BY <1>10 DEF Recheck, Answer, Inv, TypeOK, requestVars, cacheVars
  <2>2. FreshIds'
    BY <1>10, ZenonT(40) DEF Recheck, Answer, Inv, TypeOK, FreshIds, requestVars, cacheVars
  <2> QED
    BY <2>1, <2>2, Zenon DEF Inv
<1>11. CASE Reclear(q)
  <2>1. TypeOK'
    BY <1>11, Zenon DEF Reclear, Clear, Inv, TypeOK, requestVars, cacheVars
  <2>2. FreshIds'
    BY <1>11, Zenon DEF Reclear, Clear, Inv, TypeOK, FreshIds, requestVars, cacheVars
  <2> QED
    BY <2>1, <2>2, Zenon DEF Inv
<1>12. CASE FirstClearFails(q)
  <2>1. TypeOK'
    BY <1>12, FailType DEF FirstClearFails, ClearFails, Inv, TypeOK, requestVars, cacheVars
  <2>2. FreshIds'
    BY <1>12, Zenon DEF FirstClearFails, ClearFails, Fail, Inv, TypeOK, FreshIds, requestVars, cacheVars
  <2> QED
    BY <2>1, <2>2, Zenon DEF Inv
<1>13. CASE ReclearFails(q)
  <2>1. TypeOK'
    BY <1>13, FailType, Zenon DEF ReclearFails, ClearFails, Answer, Inv, TypeOK, requestVars, cacheVars
  <2>2. FreshIds'
    BY <1>13, Zenon DEF ReclearFails, ClearFails, Fail, Answer, Inv, TypeOK, FreshIds, requestVars, cacheVars
  <2> QED
    BY <2>1, <2>2, Zenon DEF Inv
<1>14. CASE CallFails(q)
  <2>1. TypeOK'
    BY <1>14, TakeOwnershipType, FailType DEF CallFails, Answer, Inv, TypeOK, requestVars, cacheVars
  <2>2. FreshIds'
    BY <1>14, ZenonT(40) DEF CallFails, Fail, Answer, Inv, TypeOK, FreshIds, requestVars, cacheVars
  <2> QED
    BY <2>1, <2>2, Zenon DEF Inv
<1> QED
  BY <1>1, <1>2, <1>3, <1>4, <1>5, <1>6, <1>7, <1>8, <1>9, <1>10, <1>11, <1>12, <1>13, <1>14, Zenon DEF RequestStep, RequestFault

\* A download ends in a status.
LEMMA OutcomeType == \A c \in Claim : Outcome(c) \in Status
BY Zenon DEF Outcome

\* A step of a download task preserves the invariant.
LEMMA TaskInv ==
  ASSUME Inv, NEW c \in Claim, TaskStep(c) \/ FinishFails(c)
  PROVE  Inv'
<1>1. CASE Fetch(c)
  <2>1. TypeOK'
    BY SMTT(30), <1>1, ClaimFacts DEF Fetch, Inv, TypeOK, requestVars, cacheVars
  <2>2. FreshIds'
    BY <1>1, ClaimFacts DEF Fetch, Inv, TypeOK, FreshIds, requestVars, cacheVars
  <2> QED
    BY <2>1, <2>2, Zenon DEF Inv
<1>2. CASE Heartbeat(c)
  <2>1. TypeOK'
    BY <1>2, ClaimedType DEF Heartbeat, Inv, TypeOK, requestVars, cacheVars
  <2>2. FreshIds'
    BY <1>2, ClaimFacts DEF Heartbeat, Inv, TypeOK, FreshIds, requestVars, cacheVars
  <2> QED
    BY <2>1, <2>2, Zenon DEF Inv
<1>3. CASE Finish(c)
  <2>1. TypeOK'
    BY <1>3, ClaimFacts, OutcomeType, FinishedType, SMTT(30) DEF Finish, Notify, Inv, TypeOK, requestVars, cacheVars
  <2>2. FreshIds'
    BY <1>3, ClaimFacts DEF Finish, Notify, Inv, TypeOK, FreshIds, requestVars, cacheVars
  <2> QED
    BY <2>1, <2>2, Zenon DEF Inv
<1>4. CASE FinishFails(c)
  <2>1. TypeOK'
    BY <1>4, ClaimFacts, OutcomeType, FinishedType, FailType, SMTT(30) DEF FinishFails, Inv, TypeOK, requestVars, cacheVars
  <2>2. FreshIds'
    BY <1>4, ClaimFacts DEF FinishFails, Fail, Inv, TypeOK, FreshIds, requestVars, cacheVars
  <2> QED
    BY <2>1, <2>2, Zenon DEF Inv
<1> QED
  BY <1>1, <1>2, <1>3, <1>4, Zenon DEF TaskStep

\* Leases, replicas, operators and evictions preserve the invariant.
LEMMA EnvironmentInv ==
  ASSUME Inv,
         \/ \E r \in Replica : ReplicaFault(r) \/ EvictStep(r)
         \/ \E k \in Cache : LoseFiles(k)
         \/ Lapse \/ LapseEarly
  PROVE  Inv'
<1>1. CASE Lapse \/ LapseEarly
  <2>1. record \in Record /\ record' = [record EXCEPT !.lapsed = TRUE]
    BY <1>1, Zenon DEF Lapse, LapseEarly, Inv, TypeOK
  <2>2. record' \in Record
    BY <2>1, ZenonT(30) DEF Record
  <2>3. TypeOK'
    BY <1>1, <2>2, FailType, ZenonT(40) DEF Lapse, LapseEarly, Inv, TypeOK, requestVars, cacheVars
  <2>4. FreshIds'
    BY <1>1, Zenon DEF Lapse, LapseEarly, Inv, FreshIds, requestVars
  <2> QED
    BY <2>3, <2>4, Zenon DEF Inv
<1>2. CASE \E r \in Replica : Crash(r)
  <2>1. TypeOK'
    BY <1>2, ClaimFacts, FailType DEF Crash, Inv, TypeOK, requestVars, cacheVars
  <2>2. FreshIds'
    BY <1>2, ClaimFacts DEF Crash, Fail, Inv, TypeOK, FreshIds, requestVars, cacheVars
  <2> QED
    BY <2>1, <2>2, Zenon DEF Inv
<1>3. CASE \E r \in Replica : DeleteModel(r)
  <2>1. TypeOK'
    BY <1>3, FailType, ZenonT(40) DEF DeleteModel, Inv, TypeOK, requestVars, cacheVars
  <2>2. FreshIds'
    BY <1>3, ClaimFacts, Zenon DEF DeleteModel, Fail, Inv, TypeOK, FreshIds, requestVars, cacheVars
  <2> QED
    BY <2>1, <2>2, Zenon DEF Inv
<1>4. CASE \E r \in Replica : EvictSelect(r)
  <2>1. TypeOK'
    BY <1>4, FailType DEF EvictSelect, Inv, TypeOK, requestVars, cacheVars
  <2>2. FreshIds'
    BY <1>4, ClaimFacts, Zenon DEF EvictSelect, Fail, Inv, TypeOK, FreshIds, requestVars, cacheVars
  <2> QED
    BY <2>1, <2>2, Zenon DEF Inv
<1>5. CASE \E r \in Replica : EvictFails(r)
  <2>1. TypeOK'
    BY <1>5, FailType DEF EvictFails, Inv, TypeOK, requestVars, cacheVars
  <2>2. FreshIds'
    BY <1>5, ClaimFacts, Zenon DEF EvictFails, Fail, Inv, TypeOK, FreshIds, requestVars, cacheVars
  <2> QED
    BY <2>1, <2>2, Zenon DEF Inv
<1>6. CASE \E r \in Replica : EvictLookup(r)
  <2>1. TypeOK'
    BY <1>6 DEF EvictLookup, Inv, TypeOK, requestVars, cacheVars
  <2>2. FreshIds'
    BY <1>6, ClaimFacts, Zenon DEF EvictLookup, Inv, TypeOK, FreshIds, requestVars, cacheVars
  <2> QED
    BY <2>1, <2>2, Zenon DEF Inv
<1>7. CASE \E r \in Replica : EvictFiles(r)
  <2>1. TypeOK'
    BY <1>7 DEF EvictFiles, Inv, TypeOK, requestVars, cacheVars
  <2>2. FreshIds'
    BY <1>7, ClaimFacts, Zenon DEF EvictFiles, Inv, TypeOK, FreshIds, requestVars, cacheVars
  <2> QED
    BY <2>1, <2>2, Zenon DEF Inv
<1>8. CASE \E r \in Replica : EvictRecord(r)
  <2>1. TypeOK'
    BY <1>8 DEF EvictRecord, Inv, TypeOK, requestVars, cacheVars
  <2>2. FreshIds'
    BY <1>8, ClaimFacts, Zenon DEF EvictRecord, Inv, TypeOK, FreshIds, requestVars, cacheVars
  <2> QED
    BY <2>1, <2>2, Zenon DEF Inv
<1>9. CASE \E k \in Cache : LoseFiles(k)
  <2>1. TypeOK'
    BY <1>9, FailType, ZenonT(40) DEF LoseFiles, Inv, TypeOK, requestVars, cacheVars
  <2>2. FreshIds'
    BY <1>9, ClaimFacts, Zenon DEF LoseFiles, Fail, Inv, TypeOK, FreshIds, requestVars, cacheVars
  <2> QED
    BY <2>1, <2>2, Zenon DEF Inv
<1> QED
  BY <1>1, <1>2, <1>3, <1>4, <1>5, <1>6, <1>7, <1>8, <1>9, Zenon DEF ReplicaFault, EvictStep

\* Every step keeps the invariant.
LEMMA NextInv == Inv /\ [Next]_vars => Inv'
<1> SUFFICES ASSUME Inv, [Next]_vars PROVE Inv'
  BY Zenon
<1>1. CASE UNCHANGED vars
  BY <1>1, Zenon DEF vars, requestVars, cacheVars, Inv, TypeOK, FreshIds
<1> QED
  BY <1>1, RequestInv, TaskInv, EnvironmentInv, Zenon DEF Next

\* The registry's record, the requests, tasks, caches and evictions keep their
\* types in every reachable state.
THEOREM TypeCorrect == Spec => []TypeOK
<1>1. Inv => TypeOK
  BY Zenon DEF Inv
<1> QED
  BY <1>1, InitInv, NextInv, PTL DEF Spec

\* No claim id is ever used by two downloads.
THEOREM ClaimsUsedOnce == Spec => []FreshIds
<1>1. Inv => FreshIds
  BY Zenon DEF Inv
<1> QED
  BY <1>1, InitInv, NextInv, PTL DEF Spec

-----------------------------------------------------------------------------
(* Refinement                                                              *)

Spent == {c \in Claim : task[c] # "none"}

\* The initial state is one of the claim protocol.
LEMMA InitRefines == Init => Entry!Init
BY DEF Init, Entry!Init

\* A step that leaves the record and the started downloads alone is a stutter.
LEMMA Stutter ==
  ASSUME UNCHANGED record, Spent' = Spent
  PROVE  UNCHANGED Entry!vars
BY Zenon DEF Spent, Entry!vars

\* Removing the record forgets the entry.
LEMMA RemovalRefines ==
  ASSUME record' = None, Spent' = Spent
  PROVE  Entry!Next
<1>1. Entry!Forget
  BY Zenon DEF Entry!Forget, Spent
<1> QED
  BY <1>1, Zenon DEF Entry!Next

\* A granted claim acquires the entry.
LEMMA ClaimRefines ==
  ASSUME Inv, NEW q \in Request, TakeOwnership(q),
         Claimable \/ RetryWins,
         Spent' \in {Spent, Spent \cup {MyClaim(q)}}
  PROVE  Entry!Next
<1>1. PICK c \in Claim : c = MyClaim(q) /\ c \notin Spent
  BY MyClaimFacts DEF TakeOwnership, Spent
<1>2. record' = Claimed(c) /\ record' # None
  BY <1>1, ClaimedType, Zenon DEF TakeOwnership
<1>3. Entry!Hold(c)
  BY <1>1, <1>2, ClaimedType, Zenon DEF Entry!Hold, Spent
<1>4. Entry!Free \/ (record # None /\ record.status = "ERROR")
  BY Zenon DEF Claimable, RetryWins, Entry!Free
<1>5. Entry!Acquire(c)
  BY <1>1, <1>3, <1>4, Zenon DEF Entry!Acquire, Spent
<1> QED
  BY <1>5, Zenon DEF Entry!Next

\* Starting a granted download starts it in the protocol.
LEMMA StartRefines ==
  ASSUME NEW c \in Claim, UNCHANGED record, Spent' = Spent \cup {c}
  PROVE  Entry!Next
<1>1. Entry!Start(c)
  BY Zenon DEF Entry!Start, Spent
<1> QED
  BY <1>1, Zenon DEF Entry!Next

\* Starting a task spends its claim and no other.
LEMMA StartSpends ==
  ASSUME Inv, NEW q \in Request, seq[q] <= MaxClaims, StartTask(q)
  PROVE  Spent' = Spent \cup {MyClaim(q)}
BY MyClaimFacts DEF StartTask, Spent, Inv, TypeOK

\* The owner's finish publishes.
LEMMA PublishRefines ==
  ASSUME Inv, NEW c \in Claim, Owns(c), task[c] # "none",
         record' = Finished(Outcome(c)), Spent' = Spent
  PROVE  Entry!Next
<1>1. PICK s \in {"DOWNLOADED", "ERROR"} : s = Outcome(c)
  BY Zenon DEF Outcome
<1>2. record' = Finished(s) /\ record' # None
  BY <1>1, FinishedType, Zenon
<1>3. c \in Spent
  BY Zenon DEF Spent
<1>4. Entry!Publish(c, s)
  BY <1>2, <1>3, FinishedType, Zenon DEF Entry!Publish, Owns, Spent
<1> QED
  BY <1>4, Zenon DEF Entry!Next

\* A task step other than a start spends nothing.
LEMMA TaskMoves ==
  ASSUME Inv, NEW c \in Claim, NEW t, t # "none", task[c] # "none",
         task' = [task EXCEPT ![c] = t]
  PROVE  Spent' = Spent
BY Zenon DEF Inv, TypeOK, Spent

\* A request's step is a claim, a removal or a stutter.
LEMMA RequestRefines ==
  ASSUME Inv, NEW q \in Request, Arrive(q) \/ RequestStep(q) \/ RequestFault(q)
  PROVE  [Entry!Next]_(Entry!vars)
<1>1. CASE Arrive(q) \/ FirstClaimObserved(q) \/ FirstCheck(q) \/ PollObserved(q) \/ Recheck(q)
  <2>1. UNCHANGED record /\ Spent' = Spent
    BY <1>1, Zenon DEF Arrive, FirstClaimObserved, FirstCheck, PollObserved, Recheck, Spent
  <2> QED
    BY <2>1, Stutter, Zenon
<1>2. CASE FirstClear(q) \/ Reclear(q) \/ FirstClearFails(q) \/ ReclearFails(q)
  <2>1. (record' = record \/ record' = None) /\ Spent' = Spent
    BY <1>2, Zenon DEF FirstClear, Reclear, FirstClearFails, ReclearFails, Clear, ClearFails, Spent
  <2> QED
    BY <2>1, Stutter, RemovalRefines, Zenon
<1>3. CASE FirstClaimWon(q)
  <2>1. Claimable /\ TakeOwnership(q) /\ Spent' = Spent
    BY <1>3, Zenon DEF FirstClaimWon, Spent
  <2> QED
    BY <2>1, ClaimRefines, Zenon
<1>4. CASE Retry(q)
  <2>1. Spent' = Spent
    BY <1>4, Zenon DEF Retry, Spent
  <2>2. CASE RetryWins /\ TakeOwnership(q)
    BY <2>1, <2>2, ClaimRefines, Zenon
  <2>3. CASE UNCHANGED record
    BY <2>1, <2>3, Stutter, Zenon
  <2> QED
    BY <1>4, <2>2, <2>3, Zenon DEF Retry
<1>5. CASE CallFails(q)
  <2>1. Spent' = Spent
    BY <1>5, Zenon DEF CallFails, Spent
  <2>2. CASE (RetryWins \/ Claimable) /\ TakeOwnership(q)
    BY <2>1, <2>2, ClaimRefines, Zenon
  <2>3. CASE UNCHANGED record
    BY <2>1, <2>3, Stutter, Zenon
  <2> QED
    BY <1>5, <2>2, <2>3, Zenon DEF CallFails
<1>6. CASE EnterWaitLoop(q)
  <2>1. UNCHANGED record
    BY <1>6, Zenon DEF EnterWaitLoop
  <2>2. CASE pc[q] = "won"
    <3>1. seq[q] <= MaxClaims /\ StartTask(q)
      BY <1>6, <2>2, Zenon DEF EnterWaitLoop, Inv, FreshIds
    <3>2. PICK c \in Claim : c = MyClaim(q)
      BY <3>1, MyClaimFacts, Zenon
    <3>3. Spent' = Spent \cup {c}
      BY <3>1, <3>2, StartSpends, Zenon
    <3> QED
      BY <2>1, <3>3, StartRefines, Zenon
  <2>3. CASE pc[q] = "observed"
    <3>1. Spent' = Spent
      BY <1>6, <2>3, Zenon DEF EnterWaitLoop, Spent
    <3> QED
      BY <2>1, <3>1, Stutter, Zenon
  <2> QED
    BY <1>6, <2>2, <2>3, Zenon DEF EnterWaitLoop
<1>7. CASE PollWon(q)
  <2>1. Claimable /\ TakeOwnership(q) /\ seq[q] <= MaxClaims /\ StartTask(q)
    BY <1>7, Zenon DEF PollWon, TakeOwnership
  <2>2. Spent' = Spent \cup {MyClaim(q)}
    BY <2>1, StartSpends, Zenon
  <2> QED
    BY <2>1, <2>2, ClaimRefines, Zenon
<1> QED
  BY <1>1, <1>2, <1>3, <1>4, <1>5, <1>6, <1>7, Zenon DEF RequestStep, RequestFault

\* A download task renews, publishes as the owner, or changes nothing.
LEMMA TaskRefines ==
  ASSUME Inv, NEW c \in Claim, TaskStep(c) \/ FinishFails(c)
  PROVE  [Entry!Next]_(Entry!vars)
<1>1. CASE Fetch(c)
  <2>1. UNCHANGED record /\ Spent' = Spent
    BY <1>1, TaskMoves, Zenon DEF Fetch
  <2> QED
    BY <2>1, Stutter, Zenon
<1>2. CASE Heartbeat(c)
  <2>1. CASE Owns(c) /\ record' = Claimed(c) /\ UNCHANGED task
    <3>1. Spent' = Spent
      BY <2>1, Zenon DEF Spent
    <3>2. Entry!Renew
      BY <2>1, <3>1, ClaimedType, Zenon DEF Owns, Entry!Renew, Spent
    <3> QED
      BY <3>2, Zenon DEF Entry!Next
  <2>2. CASE task' = [task EXCEPT ![c] = "ended"] /\ UNCHANGED record
    <3>1. Spent' = Spent
      BY <1>2, <2>2, TaskMoves, ZenonT(30) DEF Heartbeat
    <3> QED
      BY <2>2, <3>1, Stutter, Zenon
  <2> QED
    BY <1>2, <2>1, <2>2, Zenon DEF Heartbeat
<1>3. CASE Finish(c) \/ FinishFails(c)
  <2>1. task[c] # "none" /\ Spent' = Spent
    BY <1>3, TaskMoves, Zenon DEF Finish, FinishFails
  <2>2. CASE Owns(c) /\ record' = Finished(Outcome(c))
    BY <2>1, <2>2, PublishRefines, Zenon
  <2>3. CASE UNCHANGED record
    BY <2>1, <2>3, Stutter, Zenon
  <2> QED
    BY <1>3, <2>2, <2>3, Zenon DEF Finish, FinishFails
<1> QED
  BY <1>1, <1>2, <1>3, Zenon DEF TaskStep

\* Evictions, faults and time forget the entry, let it lapse or leave it.
LEMMA EnvironmentRefines ==
  ASSUME Inv,
         \/ \E r \in Replica : ReplicaFault(r) \/ EvictStep(r)
         \/ \E k \in Cache : LoseFiles(k)
         \/ Lapse \/ LapseEarly
  PROVE  [Entry!Next]_(Entry!vars)
<1>1. CASE Lapse \/ LapseEarly
  <2>1. /\ record \in Record /\ record # None /\ record.status = "DOWNLOADING"
        /\ record' = [record EXCEPT !.lapsed = TRUE]
        /\ Spent' = Spent
    BY <1>1, ZenonT(40) DEF Lapse, LapseEarly, Inv, TypeOK, Spent
  <2>2. record' \in Record /\ record'.status = record.status /\ record'.claim = record.claim /\ record'.lapsed
    BY <2>1, ZenonT(30) DEF Record
  <2>3. record' # None
    BY <2>2, Zenon
  <2>4. Entry!Lapse
    BY <2>1, <2>2, <2>3, Zenon DEF Entry!Lapse, Spent
  <2> QED
    BY <2>4, Zenon DEF Entry!Next
<1>2. CASE \E r \in Replica : Crash(r)
  <2>1. UNCHANGED record /\ Spent' = Spent
    BY <1>2, SMTT(30) DEF Crash, Spent, Inv, TypeOK
  <2> QED
    BY <2>1, Stutter, Zenon
<1>3. CASE \/ \E r \in Replica : EvictSelect(r) \/ EvictFails(r) \/ EvictLookup(r) \/ EvictFiles(r)
         \/ \E k \in Cache : LoseFiles(k)
  <2>1. UNCHANGED record /\ Spent' = Spent
    BY <1>3, Zenon DEF EvictSelect, EvictFails, EvictLookup, EvictFiles, LoseFiles, Spent
  <2> QED
    BY <2>1, Stutter, Zenon
<1>4. CASE \E r \in Replica : DeleteModel(r) \/ EvictRecord(r)
  <2>1. (record' = record \/ record' = None) /\ Spent' = Spent
    BY <1>4, ZenonT(30) DEF DeleteModel, EvictRecord, Spent
  <2> QED
    BY <2>1, Stutter, RemovalRefines, Zenon
<1> QED
  BY <1>1, <1>2, <1>3, <1>4, Zenon DEF ReplicaFault, EvictStep

\* Every step is a step of the claim protocol or none.
LEMMA NextRefines == Inv /\ [Next]_vars => [Entry!Next]_(Entry!vars)
<1> SUFFICES ASSUME Inv, [Next]_vars PROVE [Entry!Next]_(Entry!vars)
  BY Zenon
<1>1. CASE UNCHANGED vars
  <2>1. UNCHANGED record /\ Spent' = Spent
    BY <1>1, Zenon DEF vars, Spent
  <2> QED
    BY <2>1, Stutter, Zenon
<1> QED
  BY <1>1, RequestRefines, TaskRefines, EnvironmentRefines, Zenon DEF Next

\* However replicas, requests, downloads, evictions, deletions, crashes and lost
\* replies interleave, the entry follows the fenced claim protocol: only the
\* current owner publishes, and a claim that was used and lost never owns again.
THEOREM ImplementsClaimProtocol == Spec => ClaimProtocol
BY InitInv, NextInv, InitRefines, NextRefines, PTL DEF Spec, ClaimProtocol, Entry!Spec
-----------------------------------------------------------------------------
(* Answers                                                                 *)

\* What makes a DOWNLOADED answer true of the answering replica's cache: files
\* and finished fetches put it on record, and a channel waits at its own replica.
ServedInv ==
  /\ files \subseteq held
  /\ \A c \in Claim : task[c] = "fetched" => CacheOf[ReplicaOf(c)] \in held
  /\ \A r \in Replica : \A q \in waiting[r] : Home[q] = r
  /\ ServedFromCache

\* What most steps do to what ServedInv speaks of: no new files, no new fetched
\* task, channels only at home, and DOWNLOADED only after a look at the cache.
Serves ==
  /\ files' \subseteq files /\ held' = held
  /\ \A c \in Claim : task'[c] = "fetched" => task[c] = "fetched"
  /\ \A r \in Replica : \A q \in waiting'[r] : q \in waiting[r] \/ Home[q] = r
  /\ \A q \in Request : "DOWNLOADED" \in told'[q] =>
                          "DOWNLOADED" \in told[q] \/ CacheAt(q) \in files

\* A step that serves only from its own cache keeps ServedInv.
LEMMA ServesKeeps == ServedInv /\ Serves => ServedInv'
BY Zenon DEF ServedInv, Serves, ServedFromCache, CacheAt

\* The steps of a request.
LEMMA RequestServes ==
  ASSUME Inv, NEW q \in Request, Arrive(q) \/ RequestStep(q) \/ RequestFault(q)
  PROVE  Serves
<1>1. files' = files /\ held' = held
  BY ZenonT(30) DEF Arrive, RequestStep, RequestFault, FirstClaimWon, FirstClaimObserved, FirstCheck,
       FirstClear, Retry, EnterWaitLoop, PollWon, PollObserved, Recheck, Reclear,
       FirstClearFails, ReclearFails, CallFails, cacheVars
<1>2. ASSUME NEW c \in Claim, task'[c] = "fetched"
      PROVE  task[c] = "fetched"
  <2>1. CASE UNCHANGED task
    BY <1>2, <2>1, Zenon
  <2>2. CASE StartTask(q)
    BY <1>2, <2>2, Zenon DEF StartTask, Inv, TypeOK
  <2>3. UNCHANGED task \/ StartTask(q)
    BY ZenonT(30) DEF Arrive, RequestStep, RequestFault, FirstClaimWon, FirstClaimObserved, FirstCheck,
       FirstClear, Retry, EnterWaitLoop, PollWon, PollObserved, Recheck, Reclear,
       FirstClearFails, ReclearFails, CallFails
  <2> QED
    BY <2>1, <2>2, <2>3, Zenon
<1>3. ASSUME NEW r \in Replica, NEW p \in waiting'[r]
      PROVE  p \in waiting[r] \/ Home[p] = r
  <2>1. \/ UNCHANGED waiting
        \/ Subscribe(q)
        \/ waiting' = [waiting EXCEPT ![Home[q]] = {}]
    BY ZenonT(30) DEF Arrive, RequestStep, RequestFault, FirstClaimWon, FirstClaimObserved, FirstCheck,
       FirstClear, Retry, EnterWaitLoop, PollWon, PollObserved, Recheck, Reclear,
       FirstClearFails, ReclearFails, CallFails, Clear, ClearFails
  <2> QED
    BY <1>3, <2>1 DEF Subscribe, Inv, TypeOK
<1>4. ASSUME NEW p \in Request, "DOWNLOADED" \in told'[p]
      PROVE  "DOWNLOADED" \in told[p] \/ CacheAt(p) \in files
  <2>1. \/ UNCHANGED told
        \/ Answer(q, "ERROR")
        \/ FilesPresent(q) /\ Answer(q, "DOWNLOADED")
    BY ZenonT(30) DEF Arrive, RequestStep, RequestFault, FirstClaimWon, FirstClaimObserved, FirstCheck,
       FirstClear, Retry, EnterWaitLoop, PollWon, PollObserved, Recheck, Reclear,
       FirstClearFails, ReclearFails, CallFails
  <2> QED
    BY <1>4, <2>1 DEF Answer, FilesPresent, Inv, TypeOK
<1> QED
  BY <1>1, <1>2, <1>3, <1>4, ZenonT(30) DEF Serves

\* The steps of a download task: a fetch puts the files there before anybody is
\* told, and a notification reaches only the channels of its own replica.
LEMMA TaskServes ==
  ASSUME Inv, ServedInv, NEW c \in Claim, TaskStep(c) \/ FinishFails(c)
  PROVE  ServedInv'
<1>1. CASE Fetch(c)
  <2>1. /\ UNCHANGED <<waiting, told>> /\ held \subseteq held' /\ files' \subseteq held'
        /\ \A d \in Claim : task'[d] = "fetched" =>
             task[d] = "fetched" \/ CacheOf[ReplicaOf(d)] \in held'
    BY <1>1, ZenonT(40) DEF Fetch, requestVars, Inv, TypeOK, ServedInv
  <2> QED
    BY <2>1, Zenon DEF ServedInv, ServedFromCache, CacheAt
<1>2. CASE Heartbeat(c) \/ FinishFails(c) \/ (Finish(c) /\ ~Owns(c))
  <2>1. /\ UNCHANGED <<files, held, waiting, told>>
        /\ UNCHANGED task \/ task' = [task EXCEPT ![c] = "ended"]
    BY <1>2, Zenon DEF Heartbeat, FinishFails, Finish, requestVars, cacheVars
  <2>2. \A d \in Claim : task'[d] = "fetched" => task[d] = "fetched"
    BY <2>1, Zenon DEF Inv, TypeOK
  <2> QED
    BY <2>1, <2>2, ServesKeeps, Zenon DEF Serves
<1>3. CASE Finish(c) /\ Owns(c)
  <2>1. /\ task[c] \in {"fetched", "failed"} /\ UNCHANGED <<files, held>>
        /\ task' = [task EXCEPT ![c] = "ended"]
        /\ Notify(ReplicaOf(c), Outcome(c))
    BY <1>3, Zenon DEF Finish, cacheVars
  <2>2. ReplicaOf(c) \in Replica
    BY ClaimFacts, Zenon
  <2>3. \A r \in Replica : \A q \in waiting'[r] : Home[q] = r
    BY <2>1, <2>2 DEF Notify, ServedInv, Inv, TypeOK
  <2>4. \A d \in Claim : task'[d] = "fetched" => CacheOf[ReplicaOf(d)] \in held'
    BY <2>1, Zenon DEF ServedInv, Inv, TypeOK
  <2>5. ASSUME NEW q \in Request, "DOWNLOADED" \in told'[q], "DOWNLOADED" \notin told[q]
        PROVE  CacheAt(q) \in held
    <3>1. q \in waiting[ReplicaOf(c)] /\ Outcome(c) = "DOWNLOADED"
      BY <2>1, <2>5, Zenon DEF Notify, Inv, TypeOK
    <3>2. Home[q] = ReplicaOf(c) /\ task[c] = "fetched"
      BY <2>2, <3>1, Zenon DEF ServedInv, Outcome
    <3> QED
      BY <3>2, Zenon DEF ServedInv, CacheAt
  <2>6. ServedFromCache'
    BY <2>1, <2>5, Zenon DEF ServedInv, ServedFromCache, CacheAt
  <2> QED
    BY <2>1, <2>3, <2>4, <2>6, Zenon DEF ServedInv
<1> QED
  BY <1>1, <1>2, <1>3, Zenon DEF TaskStep

\* Leases, replicas, operators and evictions.
LEMMA EnvironmentServes ==
  ASSUME Inv,
         \/ \E r \in Replica : ReplicaFault(r) \/ EvictStep(r)
         \/ \E k \in Cache : LoseFiles(k)
         \/ Lapse \/ LapseEarly
  PROVE  Serves
<1>1. files' \subseteq files /\ held' = held /\ told' = told
  BY ZenonT(30) DEF ReplicaFault, EvictStep, Crash, DeleteModel, EvictSelect, EvictFails,
       EvictLookup, EvictFiles, EvictRecord, LoseFiles, Lapse, LapseEarly, requestVars, cacheVars
<1>2. ASSUME NEW c \in Claim, task'[c] = "fetched"
      PROVE  task[c] = "fetched"
  <2>1. \/ UNCHANGED task
        \/ \E r \in Replica : Crash(r)
    BY ZenonT(30) DEF ReplicaFault, EvictStep, DeleteModel, EvictSelect, EvictFails,
         EvictLookup, EvictFiles, EvictRecord, LoseFiles, Lapse, LapseEarly
  <2> QED
    BY <1>2, <2>1, Zenon DEF Crash
<1>3. ASSUME NEW r \in Replica, NEW p \in waiting'[r]
      PROVE  p \in waiting[r]
  <2>1. \/ UNCHANGED waiting
        \/ \E x \in Replica : waiting' = [waiting EXCEPT ![x] = {}]
    BY ZenonT(30) DEF ReplicaFault, EvictStep, Crash, DeleteModel, EvictSelect, EvictFails,
         EvictLookup, EvictFiles, EvictRecord, LoseFiles, Lapse, LapseEarly
  <2> QED
    BY <1>3, <2>1, Zenon DEF Inv, TypeOK
<1> QED
  BY <1>1, <1>2, <1>3, Zenon DEF Serves

\* A stream is told DOWNLOADED only by a replica whose own cache has held the
\* files, whichever replica won the claim and whichever one was notified.
THEOREM AnswersFromOwnCache == Spec => []ServedFromCache
<1>1. Init => ServedInv
  BY Zenon DEF Init, ServedInv, ServedFromCache
<1>2. Inv /\ ServedInv /\ [Next]_vars => ServedInv'
  <2> SUFFICES ASSUME Inv, ServedInv, [Next]_vars PROVE ServedInv'
    BY Zenon
  <2>1. CASE UNCHANGED vars
    <3>1. Serves
      BY <2>1, Zenon DEF vars, requestVars, cacheVars, Serves
    <3> QED
      BY <3>1, ServesKeeps, Zenon
  <2> QED
    BY <2>1, RequestServes, TaskServes, EnvironmentServes, ServesKeeps, Zenon DEF Next
<1>3. ServedInv => ServedFromCache
  BY Zenon DEF ServedInv
<1> QED
  BY <1>1, <1>2, <1>3, InitInv, NextInv, PTL DEF Spec

-----------------------------------------------------------------------------
(* Stale records                                                           *)

\* The files a replica published are in its cache, or are being evicted from it.
Backed(r) ==
  \/ CacheOf[r] \in files
  \/ \E x \in Replica : CacheOf[x] = CacheOf[r] /\ evictor[x] = "deleted"

Undisturbed == Without({"files", "disk", "crash"})

\* StaleOnlyWhileEvicting is inductive once the owner's fetched files are known to
\* be there too: an eviction that took them takes the owner's record with it.
StaleInv ==
  Undisturbed =>
    /\ record # None /\ record.status = "DOWNLOADED" => Backed(publisher)
    /\ \A c \in Claim : Owns(c) /\ task[c] = "fetched" => Backed(ReplicaOf(c))

\* Faults are only ever counted up, and a counted one is remembered.
LEMMA FaultsCounted ==
  ASSUME Inv, NEW k, Fail(k)
  PROVE  /\ Undisturbed' => Undisturbed
         /\ k \in {"files", "disk", "crash"} => ~Undisturbed'
<1>1. k \in Fault /\ faults' = [faults EXCEPT ![k] = faults[k] + 1]
  BY Zenon DEF Fail, CanFail
<1>2. faults \in [Fault -> Nat]
  BY Zenon DEF Inv, TypeOK, FaultCount
<1>3. faults'[k] # 0 /\ \A j \in Fault : j # k => faults'[j] = faults[j]
  BY <1>1, <1>2
<1>4. Undisturbed' => k \notin {"files", "disk", "crash"}
  BY <1>1, <1>3, Zenon DEF Undisturbed, Without
<1>5. Undisturbed' => Undisturbed
  BY <1>1, <1>3, <1>4, Zenon DEF Undisturbed, Without
<1> QED
  BY <1>4, <1>5, Zenon

\* What a step that serves StaleInv does: it takes no files and no eviction back,
\* and removes the record, keeps its status and owner, or hands it to a claim
\* without fetched files.
StaysBacked ==
  /\ files \subseteq files'
  /\ \A x \in Replica : evictor[x] = "deleted" => evictor'[x] = "deleted"
  /\ Undisturbed' => Undisturbed
  /\ \A c \in Claim : task'[c] = "fetched" => task[c] = "fetched"
  /\ \/ record' = None
     \/ /\ record # None /\ publisher' = publisher
        /\ record'.status = record.status /\ record'.claim = record.claim
     \/ /\ record'.status = "DOWNLOADING"
        /\ \A c \in Claim : record'.claim = c => task[c] # "fetched"

\* A step that leaves records backed by files keeps StaleInv.
LEMMA StaysBackedKeeps == StaleInv /\ StaysBacked => StaleInv'
<1> SUFFICES ASSUME StaleInv, StaysBacked, Undisturbed'
             PROVE  /\ record' # None /\ record'.status = "DOWNLOADED" => Backed(publisher)'
                    /\ \A c \in Claim : Owns(c)' /\ task'[c] = "fetched" => Backed(ReplicaOf(c))'
  BY Zenon DEF StaleInv
<1>1. /\ record # None /\ record.status = "DOWNLOADED" => Backed(publisher)
      /\ \A c \in Claim : Owns(c) /\ task[c] = "fetched" => Backed(ReplicaOf(c))
  BY Zenon DEF StaleInv, StaysBacked
<1>2. \A r : Backed(r) => CacheOf[r] \in files' \/ \E x \in Replica : CacheOf[x] = CacheOf[r] /\ evictor'[x] = "deleted"
  BY Zenon DEF Backed, StaysBacked
<1>3. ASSUME record' # None, record'.status = "DOWNLOADED"
      PROVE  Backed(publisher)'
  <2>1. record # None /\ publisher' = publisher /\ record.status = "DOWNLOADED"
    BY <1>3, Zenon DEF StaysBacked
  <2> QED
    BY <1>1, <1>2, <2>1 DEF Backed
<1>4. ASSUME NEW c \in Claim, Owns(c)', task'[c] = "fetched"
      PROVE  Backed(ReplicaOf(c))'
  <2>1. task[c] = "fetched" /\ Owns(c)
    BY <1>4, Zenon DEF StaysBacked, Owns
  <2> QED
    BY <1>1, <1>2, <2>1 DEF Backed, ReplicaOf
<1> QED
  BY <1>3, <1>4, Zenon

\* The steps of a request: what it claims has no task yet.
LEMMA RequestBacked ==
  ASSUME Inv, NEW q \in Request, Arrive(q) \/ RequestStep(q) \/ RequestFault(q)
  PROVE  StaysBacked
<1>1. files' = files /\ evictor' = evictor /\ publisher' = publisher
  BY ZenonT(30) DEF Arrive, RequestStep, RequestFault, FirstClaimWon, FirstClaimObserved, FirstCheck,
       FirstClear, Retry, EnterWaitLoop, PollWon, PollObserved, Recheck, Reclear,
       FirstClearFails, ReclearFails, CallFails, cacheVars
<1>2. \A c \in Claim : task'[c] = "fetched" => task[c] = "fetched"
  BY RequestServes, Zenon DEF Serves
<1>3. Undisturbed' => Undisturbed
  <2>1. UNCHANGED faults \/ \E k \in {"error", "reply"} : Fail(k)
    BY ZenonT(30) DEF Arrive, RequestStep, RequestFault, FirstClaimWon, FirstClaimObserved, FirstCheck,
       FirstClear, Retry, EnterWaitLoop, PollWon, PollObserved, Recheck, Reclear,
       FirstClearFails, ReclearFails, CallFails, ClearFails
  <2>2. CASE UNCHANGED faults
    BY <2>2, Zenon DEF Undisturbed, Without
  <2> QED
    BY <2>1, <2>2, FaultsCounted, Zenon
<1>4. record' = record \/ record' = None \/ TakeOwnership(q)
  BY ZenonT(30) DEF Arrive, RequestStep, RequestFault, FirstClaimWon, FirstClaimObserved, FirstCheck,
       FirstClear, Retry, EnterWaitLoop, PollWon, PollObserved, Recheck, Reclear,
       FirstClearFails, ReclearFails, CallFails, Clear, ClearFails
<1>5. ASSUME TakeOwnership(q)
      PROVE  /\ record'.status = "DOWNLOADING"
             /\ \A c \in Claim : record'.claim = c => task[c] # "fetched"
  BY <1>5, MyClaimFacts, ClaimedType, SMTT(30) DEF TakeOwnership
<1> QED
  BY <1>1, <1>2, <1>3, <1>4, <1>5, Zenon DEF StaysBacked

\* The steps of a download task: it publishes files that are there, or whose
\* eviction is about to remove the record it publishes.
LEMMA TaskBacked ==
  ASSUME Inv, StaleInv, NEW c \in Claim, TaskStep(c) \/ FinishFails(c)
  PROVE  StaleInv'
<1>1. Undisturbed' => Undisturbed
  <2>1. UNCHANGED faults \/ Fail("error")
    BY ZenonT(30) DEF TaskStep, Fetch, Heartbeat, Finish, FinishFails
  <2>2. CASE UNCHANGED faults
    BY <2>2, Zenon DEF Undisturbed, Without
  <2> QED
    BY <2>1, <2>2, FaultsCounted, Zenon
<1>2. CASE Fetch(c)
  <2>1. /\ UNCHANGED <<record, publisher, evictor>> /\ files \subseteq files'
        /\ \A d \in Claim : task'[d] = "fetched" =>
             task[d] = "fetched" \/ CacheOf[ReplicaOf(d)] \in files'
    BY <1>2, ZenonT(40) DEF Fetch, Inv, TypeOK
  <2>2. \A r : Backed(r) => Backed(r)'
    BY <2>1, Zenon DEF Backed
  <2>3. Undisturbed' /\ record' # None /\ record'.status = "DOWNLOADED" => Backed(publisher)'
    BY <1>1, <2>1, Zenon DEF Backed, StaleInv
  <2>4. ASSUME NEW d \in Claim, Undisturbed', Owns(d)', task'[d] = "fetched"
        PROVE  Backed(ReplicaOf(d))'
    <3>1. Owns(d)
      BY <2>1, <2>4, Zenon DEF Owns
    <3>2. CASE task[d] = "fetched"
      BY <1>1, <2>1, <2>4, <3>1, <3>2, Zenon DEF Backed, StaleInv, ReplicaOf
    <3>3. CASE CacheOf[ReplicaOf(d)] \in files'
      BY <3>3, Zenon DEF Backed, ReplicaOf
    <3> QED
      BY <2>1, <2>4, <3>2, <3>3, Zenon
  <2> QED
    BY <2>3, <2>4, ZenonT(30) DEF StaleInv
<1>3. CASE Heartbeat(c) \/ ((Finish(c) \/ FinishFails(c)) /\ UNCHANGED <<record, publisher>>)
  <2>1. /\ UNCHANGED <<files, evictor, publisher>>
        /\ UNCHANGED task \/ task' = [task EXCEPT ![c] = "ended"]
        /\ record' = record \/ (Owns(c) /\ record' = Claimed(c))
    BY <1>3, ZenonT(30) DEF Heartbeat, Finish, FinishFails, cacheVars
  <2>2. \A d \in Claim : task'[d] = "fetched" => task[d] = "fetched"
    BY <2>1, Zenon DEF Inv, TypeOK
  <2>3. record' = None \/ (record # None /\ record'.status = record.status /\ record'.claim = record.claim)
    BY <2>1, ClaimedType DEF Owns
  <2>4. StaysBacked
    BY <1>1, <2>1, <2>2, <2>3, Zenon DEF StaysBacked
  <2> QED
    BY <2>4, StaysBackedKeeps, Zenon
<1>4. ASSUME Finish(c) \/ FinishFails(c), Owns(c), record' = Finished(Outcome(c)),
             publisher' = ReplicaOf(c)
      PROVE  StaleInv'
  <2>1. UNCHANGED <<files, evictor>>
    BY <1>4, Zenon DEF Finish, FinishFails, cacheVars
  <2>2. record' # None /\ record'.status = Outcome(c) /\ record'.claim = None
    BY <1>4, OutcomeType, FinishedType, Zenon
  <2>3. \A d \in Claim : ~Owns(d)'
    BY <2>2, ClaimFacts, Zenon DEF Owns
  <2>4. ASSUME Undisturbed', record'.status = "DOWNLOADED"
        PROVE  Backed(publisher)'
    <3>1. task[c] = "fetched"
      BY <2>2, <2>4, Zenon DEF Outcome
    <3>2. Backed(ReplicaOf(c))
      BY <1>1, <1>4, <2>4, <3>1, Zenon DEF StaleInv
    <3> QED
      BY <1>4, <2>1, <3>2, Zenon DEF Backed
  <2> QED
    BY <2>3, <2>4, Zenon DEF StaleInv
<1> QED
  BY <1>2, <1>3, <1>4, ZenonT(30) DEF TaskStep, Finish, FinishFails

\* Leases, replicas, operators and evictions.
LEMMA EnvironmentBacked ==
  ASSUME Inv, StaleInv,
         \/ \E r \in Replica : ReplicaFault(r) \/ EvictStep(r)
         \/ \E k \in Cache : LoseFiles(k)
         \/ Lapse \/ LapseEarly
  PROVE  StaleInv'
<1>1. \A c \in Claim : task'[c] = "fetched" => task[c] = "fetched"
  BY EnvironmentServes, Zenon DEF Serves
<1>2. CASE Lapse \/ LapseEarly
  <2>1. record \in Record /\ record # None /\ record' = [record EXCEPT !.lapsed = TRUE]
        /\ UNCHANGED <<files, evictor, publisher>> /\ (UNCHANGED faults \/ Fail("late"))
    BY <1>2, Zenon DEF Lapse, LapseEarly, Inv, TypeOK, cacheVars
  <2>2. record'.status = record.status /\ record'.claim = record.claim
    BY <2>1, ZenonT(30) DEF Record
  <2>3. Undisturbed' => Undisturbed
    BY <2>1, FaultsCounted, Zenon DEF Undisturbed, Without
  <2>4. StaysBacked
    BY <1>1, <2>1, <2>2, <2>3, Zenon DEF StaysBacked
  <2> QED
    BY <2>4, StaysBackedKeeps, Zenon
<1>3. CASE \/ \E r \in Replica : Crash(r) \/ EvictFails(r)
           \/ \E k \in Cache : LoseFiles(k)
  <2>1. \E k \in {"files", "disk", "crash"} : Fail(k)
    BY <1>3, Zenon DEF Crash, EvictFails, LoseFiles
  <2> QED
    BY <2>1, FaultsCounted, Zenon DEF StaleInv
<1>4. ASSUME NEW r \in Replica, DeleteModel(r) \/ EvictSelect(r) \/ EvictLookup(r) \/ EvictRecord(r)
      PROVE  StaleInv'
  <2>1. /\ UNCHANGED <<files, publisher>> /\ record' \in {record, None}
        /\ UNCHANGED faults \/ Fail("delete") \/ Fail("evict")
    BY <1>4, Zenon DEF DeleteModel, EvictSelect, EvictLookup, EvictRecord, cacheVars
  <2>2. Undisturbed' => Undisturbed
    BY <2>1, FaultsCounted, Zenon DEF Undisturbed, Without
  <2>3. CASE record' = None
    BY <2>3, Zenon DEF StaleInv, Owns
  <2>4. CASE record' # None
    <3>1. \A x \in Replica : evictor[x] = "deleted" => evictor'[x] = "deleted"
      BY <1>4, <2>4, Zenon DEF DeleteModel, EvictSelect, EvictLookup, EvictRecord, cacheVars, Inv, TypeOK
    <3>2. StaysBacked
      BY <1>1, <2>1, <2>2, <2>4, <3>1, ZenonT(30) DEF StaysBacked
    <3> QED
      BY <3>2, StaysBackedKeeps, Zenon
  <2> QED
    BY <2>3, <2>4, Zenon
<1>5. ASSUME NEW r \in Replica, EvictFiles(r)
      PROVE  StaleInv'
  <2>1. /\ files' = files \ {CacheOf[r]} /\ evictor' = [evictor EXCEPT ![r] = "deleted"]
        /\ UNCHANGED <<record, publisher, task, faults>>
    BY <1>5, Zenon DEF EvictFiles
  <2>2. \A x \in Replica : evictor[x] = "deleted" => evictor'[x] = "deleted"
    BY <2>1, Zenon DEF Inv, TypeOK
  <2>3. evictor'[r] = "deleted"
    BY <2>1, Zenon DEF Inv, TypeOK
  <2>4. \A x : Backed(x) =>
          CacheOf[x] \in files' \/ \E y \in Replica : CacheOf[y] = CacheOf[x] /\ evictor'[y] = "deleted"
    BY <2>1, <2>2, <2>3, Zenon DEF Backed
  <2>5. Undisturbed' => Undisturbed
    BY <2>1, Zenon DEF Undisturbed, Without
  <2>6. Undisturbed' /\ record' # None /\ record'.status = "DOWNLOADED" => Backed(publisher)'
    BY <2>1, <2>4, <2>5 DEF StaleInv, Backed
  <2>7. ASSUME NEW c \in Claim, Undisturbed', Owns(c)', task'[c] = "fetched"
        PROVE  Backed(ReplicaOf(c))'
    <3>1. Backed(ReplicaOf(c))
      BY <2>1, <2>5, <2>7, ZenonT(30) DEF StaleInv, Owns
    <3> QED
      BY <2>4, <3>1, Zenon DEF Backed, ReplicaOf
  <2> QED
    BY <2>6, <2>7, Zenon DEF StaleInv
<1> QED
  BY <1>2, <1>3, <1>4, <1>5, Zenon DEF ReplicaFault, EvictStep

\* Unless files are lost by other means, an eviction fails or its replica crashes,
\* a DOWNLOADED record without its publisher's files exists only while an
\* eviction is between removing the files and removing the record.
THEOREM StaleRecordsAreTransient == Spec => []StaleOnlyWhileEvicting
<1>1. Init => StaleInv
  BY Zenon DEF Init, StaleInv, Owns
<1>2. Inv /\ StaleInv /\ [Next]_vars => StaleInv'
  <2> SUFFICES ASSUME Inv, StaleInv, [Next]_vars PROVE StaleInv'
    BY Zenon
  <2>1. CASE UNCHANGED vars
    BY <2>1, Zenon DEF vars, cacheVars, StaleInv, Undisturbed, Without, Owns, Backed, ReplicaOf
  <2> QED
    BY <2>1, RequestBacked, TaskBacked, EnvironmentBacked, StaysBackedKeeps, ZenonT(30) DEF Next
<1>3. StaleInv => StaleOnlyWhileEvicting
  BY Zenon DEF StaleInv, StaleOnlyWhileEvicting, Undisturbed, Backed
<1> QED
  BY <1>1, <1>2, <1>3, InitInv, NextInv, PTL DEF Spec

-----------------------------------------------------------------------------
(* A client's request: what it reports as installed is installed.          *)

HIDE ConstantAssumption DEF Status

CONSTANTS File, Rev, SizeOf, Pinned, Selector, Shared, Chunk, Capacity, ConnectWait, Parses

VARIABLES
  phase, elapsed, backoff, head, disk, resolved, srv, wire, recv, local, ref, listed, budget

Client == INSTANCE ModelRequest

ReqFiles == [File -> Nat \cup {None}]
ReqChunk ==
  [file : File, len : Nat, offset : Nat, total : Nat, last : BOOLEAN, lastFile : BOOLEAN,
   commit : Rev \cup {None}]
ReqMessage == ReqChunk \cup {Client!Hangup, Client!StreamError}
ReqTask ==
  [rev : Rev \cup {None}, sizes : ReqFiles, todo : SUBSET File, cur : File \cup {None},
   offset : Nat, first : BOOLEAN]
ReqFile ==
  [file : File \cup {None}, expected : Nat, written : Nat, last : BOOLEAN, final : BOOLEAN,
   dir : Rev \cup {None}]

ReqTypes ==
  /\ phase \in {"connect", "direct", "ensure", "open", "stream", "ok", "failed"}
  /\ head \in Rev /\ resolved \in Rev \cup {None} /\ ref \in Rev \cup {None}
  /\ disk \in [Rev -> ReqFiles] /\ local \in [Rev -> ReqFiles] /\ listed \in ReqFiles
  /\ srv \in ReqTask /\ recv \in ReqFile /\ wire \in Seq(ReqMessage)

\* How far a request can be in each of its phases.
ReqPhases ==
  /\ phase \in {"connect", "direct", "ensure", "open"} =>
       /\ srv.rev = None /\ wire = <<>> /\ recv = Client!NoFile /\ listed = Client!NoFiles
       /\ \A r \in Rev : local[r] = Client!NoFiles
  /\ phase \in {"connect", "direct"} => resolved = None
  /\ phase \in {"ensure", "open", "stream"} => Parses
  /\ phase \in {"open", "stream"} => resolved # None /\ ~Shared
  /\ resolved # None /\ Pinned # None => resolved = Pinned
  /\ ref # None => phase = "ok" /\ ref = resolved
  /\ phase = "direct" /\ Parses => elapsed \in {ConnectWait, ConnectWait + 1}

\* The budget of the connection.
ReqBudget ==
  elapsed \in Nat /\ backoff \in Nat /\ (phase = "connect" => elapsed <= ConnectWait)

\* The file being received agrees with what the server listed, the others are whole.
ReqReceived ==
  /\ \A r \in Rev : r # resolved => local[r] = Client!NoFiles
  /\ recv.dir = None =>
       /\ recv.file = None /\ ~recv.final
       /\ phase \in {"stream", "failed"} => \A r \in Rev : local[r] = Client!NoFiles
  /\ recv.dir # None =>
       /\ recv.dir = resolved /\ recv.file \in File /\ phase \in {"stream", "ok", "failed"}
       /\ recv.expected = listed[recv.file] /\ recv.written = local[recv.dir][recv.file]
       /\ recv.last => recv.written = recv.expected
       /\ recv.final => recv.last
       /\ \A f \in File \ {recv.file} : local[recv.dir][f] \in {None, listed[f]}

\* The task streams the listed files of the resolved revision, and so do the chunks.
ReqStreamed ==
  phase = "stream" =>
    /\ srv.rev # None =>
         /\ srv.rev = resolved /\ srv.sizes = listed
         /\ \A f \in srv.todo : listed[f] # None
         /\ srv.cur # None => listed[srv.cur] \in Nat \ {0}
    /\ \A i \in DOMAIN wire : wire[i].file # None =>
         /\ wire[i].file \in File /\ wire[i].total = listed[wire[i].file]
         /\ wire[i].commit \in {None, resolved}

\* Some of file f has arrived, or is among the first n messages.
ReqSent(f, n) ==
  \/ resolved \in Rev /\ local[resolved][f] # None
  \/ \E j \in DOMAIN wire : j <= n /\ wire[j].file = f
  \/ "empty" \in faults

\* A listed file is still to be sent, or some of it is on its way; the last chunk of
\* all comes after a chunk of every file.
ReqCovered ==
  /\ phase = "stream" =>
       /\ srv.rev # None =>
            \A f \in File : listed[f] # None =>
              f \in srv.todo \/ (f = srv.cur /\ srv.offset = 0) \/ ReqSent(f, Len(wire))
       /\ \A i \in DOMAIN wire : wire[i].file # None /\ wire[i].lastFile =>
            \A f \in File : listed[f] # None => ReqSent(f, i)
  /\ recv.final => \A f \in File : listed[f] # None => ReqSent(f, 0)
  /\ phase = "ok" /\ recv.dir # None => recv.final

\* A file listed with a size is empty only if it was emptied since.
ReqEmptied ==
  phase = "stream" =>
    \A f \in File : listed[f] \in Nat \ {0} /\ disk[resolved][f] = 0 => "empty" \in faults

\* Unless the cache was changed, what is listed and served is what the provider has.
ReqSizes ==
  Client!Without({"cache", "empty"}) =>
    /\ phase \in {"open", "stream"} => disk[resolved] = SizeOf[resolved]
    /\ listed # Client!NoFiles => \A f \in Client!Wanted : listed[f] = SizeOf[resolved][f]

\* A request that succeeded without a stream.
ReqOutcome ==
  /\ phase = "ok" => resolved # None
  /\ phase = "ok" /\ recv.dir = None =>
       \/ local[resolved] = SizeOf[resolved]
       \/ /\ Shared /\ Parses /\ local[resolved] = Client!NoFiles
          /\ Client!Without({"cache", "empty"}) => disk[resolved] = SizeOf[resolved]

ReqInv ==
  /\ ReqTypes /\ ReqPhases /\ ReqBudget /\ ReqReceived /\ ReqStreamed /\ ReqCovered
  /\ ReqEmptied /\ ReqSizes /\ ReqOutcome

\* A message is added to what is in flight.
LEMMA ReqAppended ==
  ASSUME NEW S, NEW s \in Seq(S), NEW x \in S, NEW t, t = Append(s, x)
  PROVE  /\ t \in Seq(S) /\ Len(s) \in Nat /\ Len(t) \in DOMAIN t /\ t[Len(t)] = x
         /\ DOMAIN s \subseteq DOMAIN t /\ \A i \in DOMAIN s : t[i] = s[i] /\ i <= Len(s) /\ i <= Len(t)
         /\ \A i \in DOMAIN t : i \in DOMAIN s \/ (i = Len(t) /\ t[i] = x)
OBVIOUS

\* The first message is taken off.
LEMMA ReqTaken ==
  ASSUME NEW S, NEW s \in Seq(S), s # <<>>, NEW t, t = Tail(s)
  PROVE  /\ t \in Seq(S) /\ 1 \in DOMAIN s /\ Head(s) = s[1] /\ Head(s) \in S
         /\ \A i \in DOMAIN t : i + 1 \in DOMAIN s /\ t[i] = s[i + 1] /\ i \in Nat
         /\ \A j \in DOMAIN s : j = 1 \/ (j - 1 \in DOMAIN t /\ t[j - 1] = s[j])
         /\ \A j \in DOMAIN s, i \in DOMAIN t : j <= i + 1 => j - 1 <= i
         /\ \A j \in DOMAIN s : j <= Len(s) => j - 1 <= Len(t)
         /\ Len(s) \in Nat /\ Len(t) \in Nat
BY SMTT(30)

\* The constants, fact by fact.
LEMMA ReqConstants ==
  ASSUME Client!WellFormed
  PROVE  /\ None \notin Rev /\ None \notin File /\ None \notin Nat
         /\ \A r \in Rev : SizeOf[r] \in [File -> Nat] /\ SizeOf[r] \in ReqFiles
         /\ \A r \in Rev, f \in File : SizeOf[r][f] \in Nat
         /\ Client!NoFiles \in ReqFiles /\ \A f \in File : Client!NoFiles[f] = None
         /\ Client!Wanted \subseteq File
<1>1. /\ None \notin Rev /\ None \notin File /\ None \notin Nat
      /\ \A r \in Rev : SizeOf[r] \in [File -> Nat]
      /\ Client!Wanted \subseteq File
  BY Zenon DEF Client!WellFormed, Client!Wanted
<1>2. Client!NoFiles \in ReqFiles /\ \A f \in File : Client!NoFiles[f] = None
  BY Zenon DEF Client!NoFiles, ReqFiles
<1>3. \A r \in Rev : SizeOf[r] \in ReqFiles /\ \A f \in File : SizeOf[r][f] \in Nat
  BY <1>1, SMTT(30) DEF ReqFiles
<1> QED
  BY <1>1, <1>2, <1>3, Zenon

\* The fields of the server's task and of the file being received.
LEMMA ReqFields ==
  ASSUME ReqTypes
  PROVE  /\ srv.rev \in Rev \cup {None} /\ srv.sizes \in ReqFiles /\ srv.todo \subseteq File
         /\ srv.cur \in File \cup {None} /\ srv.offset \in Nat /\ srv.first \in BOOLEAN
         /\ recv.file \in File \cup {None} /\ recv.expected \in Nat /\ recv.written \in Nat
         /\ recv.last \in BOOLEAN /\ recv.final \in BOOLEAN /\ recv.dir \in Rev \cup {None}
         /\ \A f \in File : listed[f] \in Nat \cup {None}
         /\ \A r \in Rev : /\ disk[r] \in ReqFiles /\ local[r] \in ReqFiles
                           /\ \A f \in File : disk[r][f] \in Nat \cup {None} /\ local[r][f] \in Nat \cup {None}
<1>1. srv \in ReqTask /\ recv \in ReqFile
  BY Zenon DEF ReqTypes
<1>2. /\ srv.rev \in Rev \cup {None} /\ srv.sizes \in ReqFiles /\ srv.todo \in SUBSET File
      /\ srv.cur \in File \cup {None} /\ srv.offset \in Nat /\ srv.first \in BOOLEAN
  BY <1>1, Zenon DEF ReqTask
<1>3. /\ recv.file \in File \cup {None} /\ recv.expected \in Nat /\ recv.written \in Nat
      /\ recv.last \in BOOLEAN /\ recv.final \in BOOLEAN /\ recv.dir \in Rev \cup {None}
  BY <1>1, Zenon DEF ReqFile
<1>4. /\ \A f \in File : listed[f] \in Nat \cup {None}
      /\ \A r \in Rev : disk[r] \in ReqFiles /\ local[r] \in ReqFiles
  BY Zenon DEF ReqTypes, ReqFiles
<1>5. \A r \in Rev, f \in File : disk[r][f] \in Nat \cup {None} /\ local[r][f] \in Nat \cup {None}
  BY <1>4, Zenon DEF ReqFiles
<1> QED
  BY <1>2, <1>3, <1>4, <1>5, Zenon

\* An idle task and a file not begun.
LEMMA ReqIdle ==
  ASSUME Client!WellFormed
  PROVE  /\ Client!Idle \in ReqTask /\ Client!Idle.rev = None
         /\ Client!NoFile \in ReqFile /\ Client!NoFile.file = None /\ Client!NoFile.dir = None
         /\ Client!NoFile.final = FALSE /\ Client!NoFile.last = FALSE
         /\ Client!Hangup \in ReqMessage /\ Client!Hangup.file = None
         /\ Client!StreamError \in ReqMessage /\ Client!StreamError.file = None
         /\ Client!StreamError.error = TRUE
<1>1. Client!NoFiles \in ReqFiles /\ 0 \in Nat /\ TRUE \in BOOLEAN /\ FALSE \in BOOLEAN
  BY ReqConstants, SMT
<1>2. Client!Idle \in ReqTask /\ Client!Idle.rev = None
  BY <1>1, Zenon DEF Client!Idle, ReqTask
<1>3. /\ Client!NoFile \in ReqFile /\ Client!NoFile.file = None /\ Client!NoFile.dir = None
      /\ Client!NoFile.final = FALSE /\ Client!NoFile.last = FALSE
  BY <1>1, Zenon DEF Client!NoFile, ReqFile
<1>4. /\ Client!Hangup \in ReqMessage /\ Client!Hangup.file = None
      /\ Client!StreamError \in ReqMessage /\ Client!StreamError.file = None
      /\ Client!StreamError.error = TRUE
  BY Zenon DEF Client!Hangup, Client!StreamError, ReqMessage
<1> QED
  BY <1>2, <1>3, <1>4, Zenon

\* Faults are remembered.
LEMMA ReqFaults ==
  ASSUME Client!Next
  PROVE  faults \subseteq faults'
<1>1. \/ Client!NoFault \/ UNCHANGED faults \/ \E k : Client!Fail(k)
  BY Zenon DEF Client!Next, Client!ClientStep, Client!ServerStep, Client!Connect, Client!ConnectFails,
     Client!DirectDownload, Client!EnsureResolves, Client!EnsureDone, Client!OpenStream,
     Client!Receive, Client!ReceiveEnd, Client!OpenFile, Client!ReadChunk, Client!StreamEnds,
     Client!StreamBreaks, Client!BranchMoves, Client!CacheChanges, Client!OtherDownload
<1> QED
  BY <1>1, Zenon DEF Client!NoFault, Client!Fail

ReqBefore == {"connect", "direct", "ensure", "open"}

\* A step before the stream leaves nothing received.
LEMMA ReqStillBefore ==
  ASSUME Client!WellFormed, ReqInv, phase \in ReqBefore, phase' \in ReqBefore \cup {"failed"},
         UNCHANGED <<srv, wire, recv, local, listed, ref>>
  PROVE  /\ ReqReceived' /\ ReqStreamed' /\ ReqCovered' /\ ReqEmptied' /\ ReqOutcome'
         /\ srv.rev = None /\ wire = <<>> /\ recv = Client!NoFile /\ listed = Client!NoFiles
         /\ ref = None /\ \A r \in Rev : local[r] = Client!NoFiles
<1>1. /\ srv.rev = None /\ wire = <<>> /\ recv = Client!NoFile /\ listed = Client!NoFiles
      /\ ref = None /\ \A r \in Rev : local[r] = Client!NoFiles
  BY Zenon DEF ReqInv, ReqPhases, ReqBefore
<1>2. recv' = Client!NoFile /\ local' = local /\ listed' = listed
  BY <1>1, Zenon
<1>3. recv'.file = None /\ recv'.dir = None /\ ~recv'.final
  BY <1>2, ReqIdle, Zenon
<1>4. phase' # "stream" /\ phase' # "ok"
  BY Zenon DEF ReqBefore
<1>5. ReqReceived'
  BY <1>1, <1>2, <1>3, Zenon DEF ReqReceived
<1>6. ReqStreamed' /\ ReqCovered' /\ ReqEmptied' /\ ReqOutcome'
  BY <1>3, <1>4, Zenon DEF ReqStreamed, ReqCovered, ReqEmptied, ReqOutcome
<1> QED
  BY <1>1, <1>5, <1>6, Zenon

\* The attempts to connect.
LEMMA ReqConnectMoves ==
  ASSUME Client!WellFormed, ReqInv, Client!Connect \/ Client!ConnectFails
  PROVE  ReqInv'
<1>1. /\ phase = "connect" /\ phase' \in {"connect", "direct", "ensure"}
      /\ UNCHANGED <<srv, wire, recv, local, listed, ref, resolved, head, disk, faults>>
      /\ phase' = "ensure" => Parses
  BY Zenon DEF Client!Connect, Client!ConnectFails
<1>2. /\ ReqReceived' /\ ReqStreamed' /\ ReqCovered' /\ ReqEmptied' /\ ReqOutcome'
      /\ srv.rev = None /\ wire = <<>> /\ recv = Client!NoFile /\ listed = Client!NoFiles
      /\ ref = None /\ \A r \in Rev : local[r] = Client!NoFiles
  <2>1. phase \in ReqBefore /\ phase' \in ReqBefore \cup {"failed"}
    BY <1>1, Zenon DEF ReqBefore
  <2> QED
    BY <2>1, <1>1, ReqStillBefore, Zenon
<1>3. ReqTypes'
  BY <1>1, Zenon DEF ReqInv, ReqTypes
<1>4. /\ elapsed' \in Nat /\ backoff' \in Nat
      /\ phase' = "connect" => elapsed' <= ConnectWait
      /\ phase' = "direct" /\ Parses => elapsed' \in {ConnectWait, ConnectWait + 1}
  <2>1. elapsed \in Nat /\ backoff \in Nat /\ elapsed <= ConnectWait /\ ConnectWait \in Nat
    BY <1>1, Zenon DEF ReqInv, ReqBudget, Client!WellFormed
  <2>2. CASE Client!Connect
    BY <2>2, SMTT(30) DEF Client!Connect
  <2>3. CASE Client!ConnectFails
    BY <2>1, <2>3, SMTT(30) DEF Client!ConnectFails, Client!Retry, Client!MinOf
  <2> QED
    BY <2>2, <2>3, Zenon
<1>5. ReqPhases'
  <2>1. resolved' = None
    BY <1>1, Zenon DEF ReqInv, ReqPhases
  <2> QED
    BY <2>1, <1>1, <1>2, <1>4, ZenonT(40) DEF ReqInv, ReqPhases
<1>6. ReqBudget'
  BY <1>4, Zenon DEF ReqBudget
<1>7. ReqSizes'
  BY <1>1, <1>2, Zenon DEF ReqSizes
<1> QED
  BY <1>2, <1>3, <1>5, <1>6, <1>7, ZenonT(40) DEF ReqInv

\* The server resolves the revision and has it downloaded.
LEMMA ReqEnsureMoves ==
  ASSUME Client!WellFormed, ReqInv, faults \subseteq faults',
         Client!EnsureResolves \/ Client!EnsureDone
  PROVE  ReqInv'
<1>1. /\ phase = "ensure" /\ phase' \in {"ensure", "open", "failed", "ok"} /\ Parses
      /\ UNCHANGED <<srv, wire, recv, local, listed, ref, head, elapsed, backoff>>
      /\ srv.rev = None /\ wire = <<>> /\ recv = Client!NoFile /\ listed = Client!NoFiles
      /\ ref = None /\ \A r \in Rev : local[r] = Client!NoFiles
  BY Zenon DEF Client!EnsureResolves, Client!EnsureDone, ReqInv, ReqPhases
<1>2. recv.dir = None /\ recv.file = None /\ ~recv.final
  BY <1>1, ReqIdle, Zenon
<1>3. /\ resolved' \in Rev \cup {None}
      /\ disk' \in [Rev -> ReqFiles]
      /\ resolved' # None /\ Pinned # None => resolved' = Pinned
      /\ phase' \in {"open", "ok"} =>
           resolved' # None /\ disk'[resolved'] = SizeOf[resolved'] /\ (phase' = "open" <=> ~Shared)
  <2>1. CASE Client!EnsureResolves
    <3>1. resolved' \in Rev \cup {None} /\ (resolved' # None /\ Pinned # None => resolved' = Pinned)
      BY <2>1, Zenon DEF Client!EnsureResolves, Client!Resolvable, ReqInv, ReqTypes, ReqPhases, Client!WellFormed
    <3>2. disk' = disk /\ phase' \in {"ensure", "failed"}
      BY <2>1, Zenon DEF Client!EnsureResolves
    <3> QED
      BY <3>1, <3>2, Zenon DEF ReqInv, ReqTypes
  <2>2. CASE Client!EnsureDone
    <3>1. resolved' = resolved /\ resolved # None /\ resolved \in Rev
      BY <2>2, Zenon DEF Client!EnsureDone, ReqInv, ReqTypes
    <3>2. CASE disk' = [disk EXCEPT ![resolved] = SizeOf[resolved]] /\ phase' = IF Shared THEN "ok" ELSE "open"
      <4>1. disk' \in [Rev -> ReqFiles] /\ disk'[resolved] = SizeOf[resolved]
        BY <3>1, <3>2, ReqConstants, Zenon DEF ReqInv, ReqTypes
      <4> QED
        BY <4>1, <3>1, <3>2, ZenonT(40) DEF ReqInv, ReqPhases, Client!WellFormed
    <3>3. CASE disk' = disk /\ phase' = "failed"
      BY <3>1, <3>3, Zenon DEF ReqInv, ReqPhases, ReqTypes
    <3> QED
      BY <2>2, <3>2, <3>3, ZenonT(40) DEF Client!EnsureDone
  <2> QED
    BY <2>1, <2>2, Zenon
<1>4. ReqTypes'
  BY <1>1, <1>3, Zenon DEF ReqInv, ReqTypes
<1>5. ReqPhases'
  BY <1>1, <1>3, Zenon DEF ReqPhases
<1>6. ReqBudget'
  BY <1>1, Zenon DEF ReqInv, ReqBudget
<1>7. ReqReceived'
  BY <1>1, <1>2, Zenon DEF ReqReceived
<1>8. ReqStreamed' /\ ReqCovered' /\ ReqEmptied'
  BY <1>1, <1>2, Zenon DEF ReqStreamed, ReqCovered, ReqEmptied
<1>9. ReqSizes'
  BY <1>1, <1>3, Zenon DEF ReqSizes
<1>10. ReqOutcome'
  <2>1. phase' = "ok" => Shared
    BY <1>3, Zenon
  <2>2. phase' = "ok" => resolved' \in Rev
    BY <1>3, Zenon
  <2> QED
    BY <2>1, <2>2, <1>1, <1>3, Zenon DEF ReqOutcome
<1> QED
  BY <1>4, <1>5, <1>6, <1>7, <1>8, <1>9, <1>10, ZenonT(40) DEF ReqInv

\* The provider download that bypasses the server.
LEMMA ReqDirectMoves ==
  ASSUME Client!WellFormed, ReqInv, Client!DirectDownload
  PROVE  ReqInv'
<1>1. /\ phase = "direct" /\ phase' \in {"ok", "failed"}
      /\ UNCHANGED <<srv, wire, recv, listed, ref, head, disk, elapsed, backoff>>
      /\ srv.rev = None /\ wire = <<>> /\ recv = Client!NoFile /\ listed = Client!NoFiles
      /\ ref = None /\ resolved = None /\ \A r \in Rev : local[r] = Client!NoFiles
  BY Zenon DEF Client!DirectDownload, ReqInv, ReqPhases
<1>2. recv.dir = None /\ recv.file = None /\ ~recv.final
  BY <1>1, ReqIdle, Zenon
<1>3. \/ phase' = "failed" /\ resolved' = resolved /\ local' = local
      \/ /\ phase' = "ok" /\ resolved' \in Rev /\ (Pinned # None => resolved' = Pinned)
         /\ local' \in [Rev -> ReqFiles] /\ local'[resolved'] = SizeOf[resolved']
         /\ \A r \in Rev : r # resolved' => local'[r] = Client!NoFiles
  <2> DEFINE r == IF Pinned = None THEN head ELSE Pinned
  <2>1. r \in Rev /\ (Pinned # None => r = Pinned)
    BY Zenon DEF ReqInv, ReqTypes, Client!WellFormed
  <2>2. \/ phase' = "failed" /\ resolved' = resolved /\ local' = local
        \/ phase' = "ok" /\ resolved' = r /\ local' = [local EXCEPT ![r] = SizeOf[r]]
    BY Zenon DEF Client!DirectDownload
  <2> HIDE DEF r
  <2>3. local \in [Rev -> ReqFiles] /\ SizeOf[r] \in ReqFiles
    BY <2>1, ReqConstants, Zenon DEF ReqInv, ReqTypes
  <2> QED
    BY <2>1, <2>2, <2>3, <1>1, Zenon
<1>4. ReqTypes'
  BY <1>1, <1>3, Zenon DEF ReqInv, ReqTypes
<1>5. ReqPhases'
  BY <1>1, <1>3, Zenon DEF ReqInv, ReqPhases
<1>6. ReqBudget'
  BY <1>1, Zenon DEF ReqInv, ReqBudget
<1>7. ReqReceived'
  BY <1>1, <1>2, <1>3, Zenon DEF ReqReceived
<1>8. ReqStreamed' /\ ReqCovered' /\ ReqEmptied'
  BY <1>1, <1>2, Zenon DEF ReqStreamed, ReqCovered, ReqEmptied
<1>9. ReqSizes'
  BY <1>1, Zenon DEF ReqSizes
<1>10. ReqOutcome'
  BY <1>3, ReqConstants, Zenon DEF ReqOutcome
<1> QED
  BY <1>4, <1>5, <1>6, <1>7, <1>8, <1>9, <1>10, ZenonT(40) DEF ReqInv

\* The stream is opened: the files of the listing are still to be sent.
LEMMA ReqOpenMoves ==
  ASSUME Client!WellFormed, ReqInv, Client!OpenStream
  PROVE  ReqInv'
<1>1. /\ phase = "open" /\ phase' \in {"stream", "failed"} /\ Parses /\ ~Shared
      /\ UNCHANGED <<wire, recv, local, ref, head, disk, resolved, elapsed, backoff, faults>>
      /\ srv.rev = None /\ wire = <<>> /\ recv = Client!NoFile /\ listed = Client!NoFiles
      /\ ref = None /\ resolved \in Rev /\ \A r \in Rev : local[r] = Client!NoFiles
  BY Zenon DEF Client!OpenStream, ReqInv, ReqPhases, ReqTypes
<1>2. recv.dir = None /\ recv.file = None /\ ~recv.final
  BY <1>1, ReqIdle, Zenon
<1>3. ReqBudget'
  BY <1>1, Zenon DEF ReqInv, ReqBudget
<1>4. ReqReceived'
  BY <1>1, <1>2, Zenon DEF ReqReceived
<1>5. CASE phase' = "failed" /\ UNCHANGED <<srv, listed>>
  <2>1. ReqTypes' /\ ReqPhases' /\ ReqSizes'
    BY <1>1, <1>5, Zenon DEF ReqInv, ReqTypes, ReqPhases, ReqSizes
  <2>2. ReqStreamed' /\ ReqCovered' /\ ReqEmptied' /\ ReqOutcome'
    BY <1>1, <1>2, <1>5, Zenon DEF ReqStreamed, ReqCovered, ReqEmptied, ReqOutcome
  <2> QED
    BY <2>1, <2>2, <1>3, <1>4, Zenon DEF ReqInv
<1>6. ASSUME phase' = "stream",
             NEW sizes, sizes = Client!collect_model_files(resolved), listed' = sizes,
             srv' = [Client!Idle EXCEPT !.rev = resolved, !.sizes = sizes,
                                         !.todo = {f \in File : sizes[f] # None}]
      PROVE  ReqInv'
  <2>1. /\ sizes \in ReqFiles
        /\ \A f \in File : sizes[f] \in {None, disk[resolved][f]}
        /\ \A f \in Client!Wanted : sizes[f] = disk[resolved][f]
    <3>1. \A f \in File : disk[resolved][f] \in Nat \cup {None}
      BY <1>1, ReqFields, Zenon DEF ReqInv
    <3>2. sizes = [f \in File |-> IF Selector = None \/ f \in Selector THEN disk[resolved][f] ELSE None]
      BY <1>6, Zenon DEF Client!collect_model_files
    <3>3. \A f \in File : sizes[f] = IF Selector = None \/ f \in Selector THEN disk[resolved][f] ELSE None
      BY <3>2, Zenon
    <3>4. sizes \in ReqFiles
      BY <3>1, <3>2, Zenon DEF ReqFiles
    <3>5. \A f \in Client!Wanted : f \in File /\ (Selector = None \/ f \in Selector)
      BY Zenon DEF Client!Wanted, Client!WellFormed
    <3> QED
      BY <3>3, <3>4, <3>5, Zenon
  <2>2. /\ srv' \in ReqTask /\ srv'.rev = resolved /\ srv'.sizes = sizes
        /\ srv'.todo = {f \in File : sizes[f] # None} /\ srv'.cur = None
    <3>1. 0 \in Nat
      BY SMT
    <3> QED
      BY <3>1, <1>1, <1>6, <2>1, Zenon DEF Client!Idle, ReqTask
  <2>3. ReqTypes' /\ ReqPhases'
    BY <1>1, <1>6, <2>1, <2>2, ReqConstants, ZenonT(40) DEF ReqInv, ReqTypes, ReqPhases
  <2>4. DOMAIN wire' = {}
    BY <1>1, SMTT(30)
  <2>5. ReqStreamed' /\ ReqOutcome'
    BY <1>1, <1>6, <2>2, <2>4, Zenon DEF ReqStreamed, ReqOutcome
  <2>6. ReqCovered'
    BY <1>1, <1>2, <1>6, <2>2, <2>4, ZenonT(40) DEF ReqCovered
  <2>7. ReqEmptied'
    <3> SUFFICES ASSUME NEW f \in File, sizes[f] \in Nat \ {0}, disk[resolved][f] = 0
                 PROVE  FALSE
      BY <1>1, <1>6, Zenon DEF ReqEmptied
    <3> QED
      BY <2>1, ReqConstants, Zenon
  <2>8. ReqSizes'
    <3> SUFFICES ASSUME Client!Without({"cache", "empty"})
                 PROVE  /\ disk[resolved] = SizeOf[resolved]
                        /\ \A f \in Client!Wanted : sizes[f] = SizeOf[resolved][f]
      BY <1>1, <1>6, Zenon DEF ReqSizes, Client!Without
    <3>1. disk[resolved] = SizeOf[resolved]
      BY <1>1, Zenon DEF ReqInv, ReqSizes
    <3> QED
      BY <3>1, <2>1, Zenon
  <2> QED
    BY <2>3, <2>5, <2>6, <2>7, <2>8, <1>3, <1>4, ZenonT(40) DEF ReqInv
<1> QED
  BY <1>5, <1>6, ZenonT(40) DEF Client!OpenStream

\* What has been sent stays sent.
LEMMA ReqSentKept ==
  ASSUME ReqTypes, faults \subseteq faults', local' = local, resolved' = resolved,
         wire' = wire \/ \E m \in ReqMessage : wire' = Append(wire, m),
         NEW f
  PROVE  /\ \A n : ReqSent(f, n) => ReqSent(f, n)'
         /\ ReqSent(f, Len(wire)) => ReqSent(f, Len(wire))'
<1>1. CASE wire' = wire
  BY <1>1, Zenon DEF ReqSent
<1>2. ASSUME NEW m \in ReqMessage, wire' = Append(wire, m)
      PROVE  /\ \A n : ReqSent(f, n) => ReqSent(f, n)'
             /\ ReqSent(f, Len(wire)) => ReqSent(f, Len(wire))'
  <2>1. /\ DOMAIN wire \subseteq DOMAIN wire'
        /\ \A i \in DOMAIN wire : wire'[i] = wire[i] /\ i <= Len(wire')
    <3>1. wire \in Seq(ReqMessage)
      BY Zenon DEF ReqTypes
    <3>2. /\ Len(wire') \in DOMAIN wire' /\ wire'[Len(wire')] = m
          /\ DOMAIN wire \subseteq DOMAIN wire'
          /\ \A i \in DOMAIN wire : wire'[i] = wire[i] /\ i <= Len(wire) /\ i <= Len(wire')
          /\ \A i \in DOMAIN wire' : i \in DOMAIN wire \/ (i = Len(wire') /\ wire'[i] = m)
      BY <3>1, <1>2, ReqAppended, SMTT(30)
    <3> QED
      BY <3>2, Zenon
  <2> QED
    BY <2>1, Zenon DEF ReqSent
<1> QED
  BY <1>1, <1>2, Zenon

\* The parts of the state only the client changes.
ReqClientStill ==
  UNCHANGED <<phase, elapsed, backoff, resolved, recv, local, ref, listed, head, disk>>

\* The task has sent nothing, or a message that agrees with the listing, and still
\* covers every file.
LEMMA ReqServes ==
  ASSUME Client!WellFormed, ReqInv, phase = "stream", srv.rev # None, ReqClientStill,
         faults \subseteq faults', srv' \in ReqTask,
         srv'.rev # None =>
           /\ srv'.rev = srv.rev /\ srv'.sizes = srv.sizes /\ srv'.todo \subseteq srv.todo
           /\ srv'.cur # None => listed[srv'.cur] \in Nat \ {0}
           /\ \A f \in File : listed[f] # None =>
                f \in srv'.todo \/ (f = srv'.cur /\ srv'.offset = 0) \/ ReqSent(f, Len(wire))',
         \/ wire' = wire
         \/ \E m \in ReqMessage :
              /\ wire' = Append(wire, m)
              /\ m.file # None =>
                   /\ m.file \in File /\ m.total = listed[m.file] /\ m.commit \in {None, resolved}
                   /\ m.lastFile => \A f \in File : listed[f] # None => ReqSent(f, Len(wire))'
  PROVE  ReqInv'
<1>1. /\ phase' = phase /\ elapsed' = elapsed /\ backoff' = backoff /\ resolved' = resolved
      /\ recv' = recv /\ local' = local /\ ref' = ref /\ listed' = listed /\ head' = head /\ disk' = disk
  BY Zenon DEF ReqClientStill
<1>2. wire \in Seq(ReqMessage)
  BY Zenon DEF ReqInv, ReqTypes
<1>3. wire' \in Seq(ReqMessage)
  <2>1. ASSUME NEW m \in ReqMessage, wire' = Append(wire, m) PROVE wire' \in Seq(ReqMessage)
    BY <2>1, <1>2, ReqAppended, Zenon
  <2> QED
    BY <2>1, <1>2, Zenon
<1>4. ReqTypes' /\ ReqPhases' /\ ReqBudget' /\ ReqReceived' /\ ReqOutcome'
  BY <1>1, <1>3, Zenon DEF ReqInv, ReqTypes, ReqPhases, ReqBudget, ReqReceived, ReqOutcome
<1>5. ReqEmptied'
  BY <1>1, Zenon DEF ReqInv, ReqEmptied
<1>6. ReqSizes'
  BY <1>1, Zenon DEF ReqInv, ReqSizes, Client!Without
<1>7. \A f : /\ \A n : ReqSent(f, n) => ReqSent(f, n)'
             /\ ReqSent(f, Len(wire)) => ReqSent(f, Len(wire))'
  BY <1>1, ReqSentKept, Zenon DEF ReqInv
<1>8. ASSUME NEW i \in DOMAIN wire', wire'[i].file # None
      PROVE  /\ wire'[i].file \in File /\ wire'[i].total = listed[wire'[i].file]
             /\ wire'[i].commit \in {None, resolved}
             /\ wire'[i].lastFile => \A f \in File : listed[f] # None => ReqSent(f, i)'
  <2>1. CASE i \in DOMAIN wire /\ wire'[i] = wire[i]
    BY <2>1, <1>7, <1>8, Zenon DEF ReqInv, ReqStreamed, ReqCovered
  <2>2. CASE ~(i \in DOMAIN wire /\ wire'[i] = wire[i])
    <3>1. PICK m \in ReqMessage :
              /\ wire' = Append(wire, m)
              /\ m.file # None =>
                   /\ m.file \in File /\ m.total = listed[m.file] /\ m.commit \in {None, resolved}
                   /\ m.lastFile => \A f \in File : listed[f] # None => ReqSent(f, Len(wire))'
      BY <2>2, <1>8, Zenon
    <3>2. i = Len(wire') /\ wire'[i] = m
      <4>1. /\ Len(wire') \in DOMAIN wire' /\ wire'[Len(wire')] = m
            /\ DOMAIN wire \subseteq DOMAIN wire'
            /\ \A k \in DOMAIN wire : wire'[k] = wire[k] /\ k <= Len(wire) /\ k <= Len(wire')
            /\ \A k \in DOMAIN wire' : k \in DOMAIN wire \/ (k = Len(wire') /\ wire'[k] = m)
        BY <3>1, <1>2, ReqAppended, SMTT(30)
      <4> QED
        BY <4>1, <2>2, <1>8, ZenonT(40)
    <3> QED
      BY <3>1, <3>2, <1>8, Zenon
  <2> QED
    BY <2>1, <2>2, Zenon
<1>9. ReqStreamed'
  BY <1>1, <1>8, Zenon DEF ReqInv, ReqStreamed
<1>10. ReqCovered'
  BY <1>1, <1>7, <1>8, Zenon DEF ReqInv, ReqCovered
<1> QED
  BY <1>4, <1>5, <1>6, <1>9, <1>10, ZenonT(40) DEF ReqInv

\* A message on its way counts for its file.
LEMMA ReqLands ==
  ASSUME ReqTypes, NEW m \in ReqMessage, wire' = Append(wire, m)
  PROVE  ReqSent(m.file, Len(wire))'
<1>1. wire \in Seq(ReqMessage)
  BY Zenon DEF ReqTypes
<1>2. Len(wire') \in DOMAIN wire' /\ wire'[Len(wire')] = m /\ Len(wire') <= Len(wire')
  BY <1>1, SMTT(30)
<1> QED
  BY <1>2, Zenon DEF ReqSent

\* The task ends with a message that is no chunk.
LEMMA ReqStops ==
  ASSUME Client!WellFormed, ReqInv, phase = "stream", srv.rev # None, ReqClientStill,
         faults \subseteq faults', srv' = Client!Idle,
         NEW m \in {Client!Hangup, Client!StreamError}, wire' = Append(wire, m)
  PROVE  ReqInv'
<1>1. m \in ReqMessage /\ m.file = None /\ srv' \in ReqTask /\ srv'.rev = None
  BY ReqIdle, Zenon
<1> QED
  BY <1>1, ReqServes, Zenon

\* The task opens the next file.
LEMMA ReqOpenFileMoves ==
  ASSUME Client!WellFormed, ReqInv, NEW f \in File, Client!OpenFile(f)
  PROVE  ReqInv'
<1>1. /\ phase = "stream" /\ srv.rev # None /\ srv.cur = None /\ f \in srv.todo
      /\ ReqClientStill /\ faults' = faults
  BY Zenon DEF Client!OpenFile, Client!Streaming, Client!clientVars, ReqClientStill
<1>2. /\ srv \in ReqTask /\ srv.sizes = listed /\ listed[f] \in Nat /\ srv.rev = resolved
      /\ srv.rev \in Rev /\ srv.todo \subseteq File /\ None \notin File
      /\ \A g \in File : listed[g] # None => g \in srv.todo \/ ReqSent(g, Len(wire))
  <2>1. /\ srv \in ReqTask /\ srv.sizes = listed /\ listed[f] # None /\ srv.rev = resolved
    BY <1>1, Zenon DEF ReqInv, ReqTypes, ReqStreamed
  <2>2. /\ \A g \in File : listed[g] # None => g \in srv.todo \/ ReqSent(g, Len(wire))
    BY <1>1, ReqConstants, Zenon DEF ReqInv, ReqCovered
  <2>3. srv.rev \in Rev /\ srv.todo \subseteq File /\ listed[f] \in Nat
    BY <1>1, <2>1, ReqFields, Zenon DEF ReqInv
  <2> QED
    BY <2>1, <2>2, <2>3, ReqConstants, Zenon
<1>3. CASE Client!Send(Client!StreamError) /\ srv' = Client!Idle
  BY <1>1, <1>3, ReqStops, Zenon DEF Client!Send
<1>4. ASSUME srv.sizes[f] = 0,
             NEW opened, opened = [srv EXCEPT !.todo = @ \ {f}],
             Client!Send([file |-> f, len |-> 0, offset |-> 0, total |-> 0, last |-> TRUE,
                     lastFile |-> opened.todo = {}, commit |-> IF srv.first THEN srv.rev ELSE None]),
             srv' = [opened EXCEPT !.first = FALSE]
      PROVE  ReqInv'
  <2> DEFINE m == [file |-> f, len |-> 0, offset |-> 0, total |-> 0, last |-> TRUE,
                   lastFile |-> opened.todo = {}, commit |-> IF srv.first THEN srv.rev ELSE None]
  <2>1. /\ m \in ReqMessage /\ m.file = f /\ m.total = listed[f] /\ m.commit \in {None, resolved}
        /\ m.lastFile <=> opened.todo = {}
    <3>1. 0 \in Nat /\ (IF srv.first THEN srv.rev ELSE None) \in Rev \cup {None}
      BY <1>2, SMTT(30)
    <3>2. m \in ReqChunk
      BY <3>1, Zenon DEF ReqChunk
    <3> QED
      BY <3>2, <1>2, <1>4, ZenonT(40) DEF ReqMessage
  <2>2. wire' = Append(wire, m)
    BY <1>4, Zenon DEF Client!Send
  <2> HIDE DEF m
  <2>3. opened \in ReqTask /\ opened.todo = srv.todo \ {f} /\ opened.rev = srv.rev /\ opened.sizes = srv.sizes
        /\ opened.cur = srv.cur
    BY <1>2, <1>4, Zenon DEF ReqTask
  <2>4. srv' \in ReqTask /\ srv'.todo = srv.todo \ {f} /\ srv'.rev = srv.rev /\ srv'.sizes = srv.sizes
        /\ srv'.cur = srv.cur
    BY <2>3, <1>4, Zenon DEF ReqTask
  <2>5. \A g \in File : listed[g] # None => g \in srv.todo \ {f} \/ ReqSent(g, Len(wire))'
    <3>1. ReqSent(f, Len(wire))'
      BY <2>1, <2>2, ReqLands, Zenon DEF ReqInv
    <3>2. \A g : ReqSent(g, Len(wire)) => ReqSent(g, Len(wire))'
      BY <1>1, <2>1, <2>2, ReqSentKept, ZenonT(40) DEF ReqInv, ReqClientStill
    <3> QED
      BY <3>1, <3>2, <1>2, ZenonT(40)
  <2> QED
    BY <1>1, <1>2, <2>1, <2>2, <2>3, <2>4, <2>5, ReqServes, ZenonT(40)
<1>5. ASSUME srv.sizes[f] # 0, UNCHANGED wire,
             srv' = [srv EXCEPT !.todo = @ \ {f}, !.cur = f, !.offset = 0]
      PROVE  ReqInv'
  <2>1. /\ srv' \in ReqTask /\ srv'.todo = srv.todo \ {f} /\ srv'.rev = srv.rev /\ srv'.sizes = srv.sizes
        /\ srv'.cur = f /\ srv'.offset = 0
    <3>1. 0 \in Nat
      BY SMT
    <3> QED
      BY <3>1, <1>2, <1>5, Zenon DEF ReqTask
  <2>2. \A g : ReqSent(g, Len(wire)) => ReqSent(g, Len(wire))'
    BY <1>1, <1>5, ReqSentKept, Zenon DEF ReqInv, ReqClientStill
  <2> QED
    BY <1>1, <1>2, <1>5, <2>1, <2>2, ReqServes, ZenonT(40)
<1> QED
  BY <1>3, <1>4, <1>5, Zenon DEF Client!OpenFile

\* The task reads the file it has open.
LEMMA ReqReadMoves ==
  ASSUME Client!WellFormed, ReqInv, faults \subseteq faults', Client!ReadChunk
  PROVE  ReqInv'
<1> SUFFICES ASSUME NEW f, f = srv.cur PROVE ReqInv'
  BY Zenon
<1>1. phase = "stream" /\ srv.rev # None /\ f # None /\ ReqClientStill
  BY Zenon DEF Client!ReadChunk, Client!Streaming, Client!clientVars, ReqClientStill
<1>2. /\ srv \in ReqTask /\ srv.sizes = listed /\ listed[f] \in Nat \ {0} /\ srv.rev = resolved
      /\ srv.rev \in Rev /\ f \in File /\ srv.offset \in Nat /\ srv.first \in BOOLEAN
      /\ \A g \in File : listed[g] # None =>
           g \in srv.todo \/ (g = f /\ srv.offset = 0) \/ ReqSent(g, Len(wire))
  <2>1. /\ srv \in ReqTask /\ srv.sizes = listed /\ listed[f] \in Nat \ {0} /\ srv.rev = resolved
    BY <1>1, Zenon DEF ReqInv, ReqTypes, ReqStreamed
  <2>2. \A g \in File : listed[g] # None =>
          g \in srv.todo \/ (g = f /\ srv.offset = 0) \/ ReqSent(g, Len(wire))
    BY <1>1, Zenon DEF ReqInv, ReqCovered
  <2>3. srv.rev \in Rev /\ f \in File /\ srv.offset \in Nat /\ srv.first \in BOOLEAN
    BY <1>1, ReqFields, Zenon DEF ReqInv
  <2> QED
    BY <2>1, <2>2, <2>3, Zenon
<1>3. CASE Client!Send(Client!StreamError) /\ srv' = Client!Idle
  BY <1>1, <1>3, ReqStops, Zenon DEF Client!Send
<1>4. ASSUME NEW n \in 1 .. Client!MinOf(Chunk, Client!Left(f)), Client!Left(f) > 0,
             Client!Send(Client!ChunkOf(f, n, Client!LastChunk(f, n))),
             srv' = [srv EXCEPT !.offset = @ + n, !.first = FALSE]
      PROVE  ReqInv'
  <2>1. n \in Nat \ {0} /\ srv.offset + n \in Nat \ {0}
    <3>1. n \in Nat \ {0}
      BY <1>4, SMTT(30)
    <3> QED
      BY <3>1, <1>2, SMTT(30)
  <2> DEFINE m == Client!ChunkOf(f, n, Client!LastChunk(f, n))
  <2>2. /\ m \in ReqMessage /\ m.file = f /\ m.total = listed[f] /\ m.commit \in {None, resolved}
        /\ m.lastFile => srv.todo = {}
    <3> DEFINE last == Client!LastChunk(f, n)
    <3>1. last \in BOOLEAN
      BY SMTT(30) DEF Client!LastChunk
    <3> HIDE DEF last
    <3>2. /\ m = [file |-> f, len |-> n, offset |-> srv.offset, total |-> srv.sizes[f], last |-> last,
                  lastFile |-> last /\ srv.todo = {}, commit |-> IF srv.first THEN srv.rev ELSE None]
      BY Zenon DEF Client!ChunkOf, last
    <3>3. (IF srv.first THEN srv.rev ELSE None) \in {None, resolved}
      BY <1>2, Zenon
    <3> DEFINE total == srv.sizes[f]
    <3> DEFINE all == last /\ srv.todo = {}
    <3> DEFINE commit == IF srv.first THEN srv.rev ELSE None
    <3>4. total \in Nat /\ all \in BOOLEAN /\ commit \in Rev \cup {None} /\ n \in Nat
      BY <3>1, <3>3, <1>2, <2>1, ZenonT(40)
    <3>5. m = [file |-> f, len |-> n, offset |-> srv.offset, total |-> total, last |-> last,
               lastFile |-> all, commit |-> commit]
      BY <3>2, ZenonT(40)
    <3>6. total = listed[f] /\ (all => srv.todo = {}) /\ commit \in {None, resolved}
      BY <3>3, <1>2, ZenonT(40)
    <3> HIDE DEF m, total, all, commit
    <3>7. m \in ReqChunk
      BY <3>1, <3>4, <3>5, <1>2, ZenonT(40) DEF ReqChunk
    <3>8. m.file = f /\ m.total = total /\ m.commit = commit /\ m.lastFile = all
      BY <3>5, Zenon
    <3> QED
      BY <3>6, <3>7, <3>8, ZenonT(40) DEF ReqMessage
  <2>3. wire' = Append(wire, m)
    BY <1>4, Zenon DEF Client!Send
  <2> HIDE DEF m
  <2>4. /\ srv' \in ReqTask /\ srv'.todo = srv.todo /\ srv'.rev = srv.rev /\ srv'.sizes = srv.sizes
        /\ srv'.cur = f /\ srv'.offset = srv.offset + n
    BY <1>2, <1>4, <2>1, Zenon DEF ReqTask
  <2>5. \A g \in File : listed[g] # None => g \in srv.todo \/ ReqSent(g, Len(wire))'
    <3>1. ReqSent(f, Len(wire))'
      BY <2>2, <2>3, ReqLands, Zenon DEF ReqInv
    <3>2. \A g : ReqSent(g, Len(wire)) => ReqSent(g, Len(wire))'
      BY <1>1, <2>2, <2>3, ReqSentKept, ZenonT(40) DEF ReqInv, ReqClientStill
    <3> QED
      BY <3>1, <3>2, <1>2, Zenon
  <2> QED
    BY <1>1, <1>2, <2>2, <2>3, <2>4, <2>5, ReqServes, ZenonT(40)
<1>5. ASSUME Client!Left(f) = 0, srv' = [srv EXCEPT !.cur = None], UNCHANGED wire
      PROVE  ReqInv'
  <2>1. /\ srv' \in ReqTask /\ srv'.todo = srv.todo /\ srv'.rev = srv.rev /\ srv'.sizes = srv.sizes
        /\ srv'.cur = None
    BY <1>2, <1>5, Zenon DEF ReqTask
  <2>2. \A g : ReqSent(g, Len(wire)) => ReqSent(g, Len(wire))'
    BY <1>1, <1>5, ReqSentKept, ZenonT(40) DEF ReqInv, ReqClientStill
  <2>3. srv.offset = 0 => "empty" \in faults
    <3> SUFFICES ASSUME srv.offset = 0 PROVE "empty" \in faults
      BY Zenon
    <3>1. disk[resolved][f] \in Nat \cup {None} /\ None \notin Nat
      BY <1>2, ReqFields, ReqConstants, ZenonT(40) DEF ReqInv
    <3>2. disk[resolved][f] = 0
      BY <3>1, <1>2, <1>5, SMTT(30) DEF Client!Left
    <3> QED
      BY <3>2, <1>1, <1>2, ZenonT(40) DEF ReqInv, ReqEmptied
  <2>4. \A g \in File : listed[g] # None => g \in srv.todo \/ ReqSent(g, Len(wire))'
    <3>1. "empty" \in faults => \A g : ReqSent(g, Len(wire))'
      BY Zenon DEF ReqSent
    <3> QED
      BY <3>1, <2>2, <2>3, <1>2, ZenonT(40)
  <2> QED
    BY <1>1, <1>2, <1>5, <2>1, <2>4, ReqServes, ZenonT(40)
<1> QED
  BY <1>3, <1>4, <1>5, Zenon DEF Client!ReadChunk

\* The task ends, or its connection breaks.
LEMMA ReqHangupMoves ==
  ASSUME Client!WellFormed, ReqInv, faults \subseteq faults', Client!StreamEnds \/ Client!StreamBreaks
  PROVE  ReqInv'
<1>1. /\ phase = "stream" /\ srv.rev # None /\ ReqClientStill /\ srv' = Client!Idle
      /\ \E m \in {Client!Hangup, Client!StreamError} : wire' = Append(wire, m)
  BY Zenon DEF Client!StreamEnds, Client!StreamBreaks, Client!Streaming, Client!Send, Client!clientVars, ReqClientStill
<1> QED
  BY <1>1, ReqStops, Zenon

\* The client gives up: what it has received stays as it is.
LEMMA ReqRejects ==
  ASSUME Client!WellFormed, ReqInv, phase = "stream", faults \subseteq faults', phase' = "failed",
         wire' = <<>>, srv' = Client!Idle,
         UNCHANGED <<recv, local, elapsed, backoff, resolved, ref, listed, head, disk>>
  PROVE  ReqInv'
<1>1. srv' \in ReqTask /\ srv'.rev = None /\ wire' \in Seq(ReqMessage)
  <2>1. <<>> \in Seq(ReqMessage)
    BY SMTT(30)
  <2> QED
    BY <2>1, ReqIdle, Zenon
<1>2. ReqTypes' /\ ReqPhases' /\ ReqBudget'
  BY <1>1, Zenon DEF ReqInv, ReqTypes, ReqPhases, ReqBudget
<1>3. ReqReceived' /\ ReqStreamed' /\ ReqEmptied' /\ ReqOutcome'
  BY Zenon DEF ReqInv, ReqReceived, ReqStreamed, ReqEmptied, ReqOutcome
<1>4. ReqSizes'
  BY Zenon DEF ReqInv, ReqSizes, Client!Without
<1>5. ReqCovered'
  <2>1. \A f \in File : ReqSent(f, 0) => ReqSent(f, 0)'
    <3>1. \A j \in DOMAIN wire : ~(j <= 0)
      BY SMT DEF ReqInv, ReqTypes
    <3> QED
      BY <3>1, ZenonT(40) DEF ReqSent
  <2> QED
    BY <2>1, Zenon DEF ReqInv, ReqCovered
<1> QED
  BY <1>2, <1>3, <1>4, <1>5, ZenonT(40) DEF ReqInv

\* The file a chunk belongs to, as it was before the chunk.
ReqCurrent(m, dir) ==
  IF recv.file = m.file THEN recv
  ELSE [Client!NoFile EXCEPT !.file = m.file, !.expected = m.total, !.dir = dir]

\* The client accepts a chunk.
ReqAccepts(m, dir, cur) ==
  /\ dir = (IF recv.dir = None THEN m.commit ELSE recv.dir)
  /\ cur = ReqCurrent(m, dir)
  /\ dir # None
  /\ recv.file # m.file => Client!NextFileOk(m)
  /\ Client!InSequence(m, cur)
  /\ recv' = [cur EXCEPT !.written = @ + m.len, !.last = m.last,
                         !.final = m.lastFile /\ m.last, !.dir = dir]
  /\ local' = [local EXCEPT ![dir][m.file] = cur.written + m.len]
  /\ wire' = Tail(wire) /\ UNCHANGED <<phase, srv>>
  /\ UNCHANGED <<elapsed, backoff, resolved, ref, listed, head, disk>>

\* What has been sent of a file arrives.
LEMMA ReqArrives ==
  ASSUME ReqTypes, wire # <<>>, wire' = Tail(wire), faults \subseteq faults', resolved' = resolved,
         \A f \in File : local[resolved][f] # None => local'[resolved][f] # None,
         resolved \in Rev, local'[resolved][wire[1].file] # None
  PROVE  \A f \in File :
           /\ ReqSent(f, 1) => ReqSent(f, 0)'
           /\ ReqSent(f, Len(wire)) => ReqSent(f, Len(wire))'
           /\ \A i \in DOMAIN wire' : ReqSent(f, i + 1) => ReqSent(f, i)'
<1>1. wire \in Seq(ReqMessage)
  BY Zenon DEF ReqTypes
<1>2. /\ \A j \in DOMAIN wire : j = 1 \/ (j - 1 \in DOMAIN wire' /\ wire'[j - 1] = wire[j])
      /\ \A j \in DOMAIN wire, i \in DOMAIN wire' : j <= i + 1 => j - 1 <= i
      /\ \A j \in DOMAIN wire : j <= Len(wire) => j - 1 <= Len(wire')
  BY <1>1, ReqTaken, SMTT(30)
<1>3. \A j \in DOMAIN wire : j <= 1 => j = 1
  BY <1>1, SMTT(30)
<1>4. ASSUME NEW f \in File PROVE ReqSent(f, 1) => ReqSent(f, 0)'
  BY <1>3, Zenon DEF ReqSent
<1>5. ASSUME NEW f \in File PROVE ReqSent(f, Len(wire)) => ReqSent(f, Len(wire))'
  <2> SUFFICES ASSUME NEW j \in DOMAIN wire, j <= Len(wire), wire[j].file = f
               PROVE  ReqSent(f, Len(wire))'
    BY Zenon DEF ReqSent
  <2>1. CASE j = 1
    BY <2>1, Zenon DEF ReqSent
  <2>2. CASE j # 1
    BY <2>2, <1>2, Zenon DEF ReqSent
  <2> QED
    BY <2>1, <2>2, ZenonT(40)
<1>6. ASSUME NEW f \in File, NEW i \in DOMAIN wire' PROVE ReqSent(f, i + 1) => ReqSent(f, i)'
  <2> SUFFICES ASSUME NEW j \in DOMAIN wire, j <= i + 1, wire[j].file = f
               PROVE  ReqSent(f, i)'
    BY Zenon DEF ReqSent
  <2>1. CASE j = 1
    BY <2>1, Zenon DEF ReqSent
  <2>2. CASE j # 1
    BY <2>2, <1>2, Zenon DEF ReqSent
  <2> QED
    BY <2>1, <2>2, Zenon
<1> QED
  BY <1>4, <1>5, <1>6, Zenon

\* An accepted chunk extends the file being received.
LEMMA ReqChunkAccepted ==
  ASSUME Client!WellFormed, ReqInv, phase = "stream", faults \subseteq faults', wire # <<>>,
         NEW m, m = Head(wire), m.file # None, NEW dir, NEW cur, ReqAccepts(m, dir, cur)
  PROVE  ReqInv'
<1>0. /\ wire \in Seq(ReqMessage) /\ wire' = Tail(wire) /\ phase' = phase /\ srv' = srv
      /\ elapsed' = elapsed /\ backoff' = backoff /\ resolved' = resolved /\ ref' = ref
      /\ listed' = listed /\ head' = head /\ disk' = disk
  BY Zenon DEF ReqInv, ReqTypes, ReqAccepts
<1>1. /\ wire' \in Seq(ReqMessage) /\ 1 \in DOMAIN wire /\ m = wire[1] /\ m \in ReqMessage
      /\ \A i \in DOMAIN wire' : i + 1 \in DOMAIN wire /\ wire'[i] = wire[i + 1]
  BY <1>0, ReqTaken, SMTT(30)
<1>2. m \in ReqChunk
  BY <1>1, ReqIdle, ZenonT(40) DEF ReqMessage
<1>3. /\ m.file \in File /\ m.len \in Nat /\ m.total \in Nat /\ m.last \in BOOLEAN /\ m.lastFile \in BOOLEAN
      /\ m.commit \in Rev \cup {None}
  BY <1>2, Zenon DEF ReqChunk
<1>4. m.total = listed[m.file] /\ m.commit \in {None, resolved}
  BY <1>1, Zenon DEF ReqInv, ReqStreamed
<1>5. dir = resolved /\ dir \in Rev
  <2>1. dir = resolved
    BY <1>4, Zenon DEF ReqAccepts, ReqInv, ReqReceived
  <2> QED
    BY <2>1, Zenon DEF ReqAccepts, ReqInv, ReqTypes
<1>6. /\ cur \in ReqFile /\ cur.file = m.file /\ cur.expected = m.total /\ cur.written \in Nat
  <2>1. m.total = cur.expected /\ cur = ReqCurrent(m, dir)
    BY Zenon DEF ReqAccepts, Client!InSequence
  <2>2. CASE recv.file = m.file
    BY <2>1, <2>2, ReqFields, ZenonT(40) DEF ReqCurrent, ReqInv, ReqTypes
  <2>3. CASE recv.file # m.file
    <3>1. cur = [Client!NoFile EXCEPT !.file = m.file, !.expected = m.total, !.dir = dir]
      BY <2>1, <2>3, ZenonT(40) DEF ReqCurrent
    <3>2. 0 \in Nat
      BY SMT
    <3> QED
      BY <3>1, <3>2, <2>1, <1>3, <1>5, ZenonT(40) DEF Client!NoFile, ReqFile
  <2> QED
    BY <2>2, <2>3, Zenon
<1> DEFINE size == cur.written + m.len
<1>7. size \in Nat /\ (m.last <=> size = cur.expected) /\ size # None
  <2>1. size \in Nat
    BY <1>3, <1>6, SMTT(30)
  <2> QED
    BY <2>1, ReqConstants, ZenonT(40) DEF ReqAccepts, Client!InSequence
<1>8. /\ recv' \in ReqFile /\ recv'.file = m.file /\ recv'.expected = m.total /\ recv'.written = size
      /\ recv'.last = m.last /\ recv'.final = (m.lastFile /\ m.last) /\ recv'.dir = dir
  <2> DEFINE all == m.lastFile /\ m.last
  <2>1. recv' = [cur EXCEPT !.written = size, !.last = m.last, !.final = all, !.dir = dir]
    BY Zenon DEF ReqAccepts
  <2>2. all \in BOOLEAN
    BY <1>3, Zenon
  <2> HIDE DEF all, size
  <2>3. /\ recv' \in ReqFile /\ recv'.file = m.file /\ recv'.expected = m.total /\ recv'.written = size
        /\ recv'.last = m.last /\ recv'.final = all /\ recv'.dir = dir
    BY <2>1, <2>2, <1>3, <1>5, <1>6, <1>7, ZenonT(40) DEF ReqFile
  <2> QED
    BY <2>3, Zenon DEF all
<1>9. /\ local' \in [Rev -> ReqFiles] /\ local'[dir][m.file] = size
      /\ \A r \in Rev : r # dir => local'[r] = local[r]
      /\ \A f \in File : f # m.file => local'[dir][f] = local[dir][f]
  <2>1. local \in [Rev -> ReqFiles] /\ local[dir] \in [File -> Nat \cup {None}]
    BY <1>5, Zenon DEF ReqInv, ReqTypes, ReqFiles
  <2>2. local' = [local EXCEPT ![dir][m.file] = size]
    BY Zenon DEF ReqAccepts
  <2> HIDE DEF size
  <2> DEFINE now == [local[dir] EXCEPT ![m.file] = size]
  <2>3. /\ now \in [File -> Nat \cup {None}] /\ now[m.file] = size
        /\ \A f \in File : f # m.file => now[f] = local[dir][f]
    BY <2>1, <1>3, <1>7, ZenonT(40)
  <2>4. local' = [local EXCEPT ![dir] = now]
    BY <2>2, ZenonT(40)
  <2> HIDE DEF now
  <2> QED
    BY <2>1, <2>3, <2>4, <1>5, ZenonT(40) DEF ReqFiles
<1> HIDE DEF size
<1>10. ReqTypes'
  BY <1>0, <1>1, <1>8, <1>9, ZenonT(40) DEF ReqInv, ReqTypes
<1>11. ReqPhases' /\ ReqBudget'
  BY <1>0, Zenon DEF ReqInv, ReqPhases, ReqBudget
<1>12. ReqReceived'
  <2>1. \A r \in Rev : r # resolved => local'[r] = Client!NoFiles
    BY <1>5, <1>9, ZenonT(40) DEF ReqInv, ReqReceived
  <2>2. ASSUME NEW f \in File \ {m.file} PROVE local'[dir][f] \in {None, listed[f]}
    <3>1. local'[dir][f] = local[dir][f]
      BY <1>9, Zenon
    <3>2. CASE recv.dir = None
      BY <3>1, <3>2, <1>5, ReqConstants, ZenonT(40) DEF ReqInv, ReqReceived
    <3>3. CASE recv.dir # None /\ f # recv.file
      BY <3>1, <3>3, <1>5, ZenonT(40) DEF ReqInv, ReqReceived
    <3>4. CASE recv.dir # None /\ f = recv.file
      <4>1. recv.written = recv.expected
        BY <3>4, ReqConstants, ZenonT(40) DEF ReqAccepts, Client!NextFileOk
      <4> QED
        BY <4>1, <3>1, <3>4, <1>5, ZenonT(40) DEF ReqInv, ReqReceived
    <3> QED
      BY <3>2, <3>3, <3>4, ZenonT(40)
  <2>3. recv'.dir # None
    BY <1>5, <1>8, ReqConstants, ZenonT(40)
  <2>4. /\ recv'.dir = resolved /\ recv'.file \in File
        /\ recv'.expected = listed[recv'.file] /\ recv'.written = local'[recv'.dir][recv'.file]
        /\ recv'.last => recv'.written = recv'.expected
        /\ recv'.final => recv'.last
    BY <1>3, <1>4, <1>5, <1>6, <1>7, <1>8, <1>9, ZenonT(40)
  <2>5. \A f \in File \ {recv'.file} : local'[recv'.dir][f] \in {None, listed[f]}
    BY <2>2, <1>8, Zenon
  <2> QED
    BY <2>1, <2>3, <2>4, <2>5, <1>0, ZenonT(40) DEF ReqReceived
<1>13. ReqStreamed'
  <2>1. ReqStreamed
    BY Zenon DEF ReqInv
  <2>2. \A i \in DOMAIN wire' : wire'[i].file # None =>
         /\ wire'[i].file \in File /\ wire'[i].total = listed[wire'[i].file]
         /\ wire'[i].commit \in {None, resolved}
    <3> SUFFICES ASSUME NEW i \in DOMAIN wire', wire'[i].file # None
                 PROVE  /\ wire'[i].file \in File /\ wire'[i].total = listed[wire'[i].file]
                        /\ wire'[i].commit \in {None, resolved}
      BY Zenon
    <3>1. i + 1 \in DOMAIN wire /\ wire'[i] = wire[i + 1]
      BY <1>1, Zenon
    <3> QED
      BY <3>1, <2>1, ZenonT(40) DEF ReqStreamed
  <2> QED
    BY <2>1, <2>2, <1>0, ZenonT(40) DEF ReqStreamed
<1>14. ReqCovered'
  <2>1. \A f \in File :
           /\ ReqSent(f, 1) => ReqSent(f, 0)'
           /\ ReqSent(f, Len(wire)) => ReqSent(f, Len(wire))'
           /\ \A i \in DOMAIN wire' : ReqSent(f, i + 1) => ReqSent(f, i)'
    <3>1. \A f \in File : local[resolved][f] # None => local'[resolved][f] # None
      BY <1>5, <1>7, <1>9, ZenonT(40)
    <3>2. local'[resolved][wire[1].file] # None
      BY <1>1, <1>5, <1>7, <1>9, ZenonT(40)
    <3> QED
      BY <3>1, <3>2, <1>0, <1>5, ReqArrives, ZenonT(40) DEF ReqInv
  <2>2. recv'.final => \A f \in File : listed[f] # None => ReqSent(f, 0)'
    BY <2>1, <1>1, <1>8, ZenonT(40) DEF ReqInv, ReqCovered
  <2>3. \A i \in DOMAIN wire' : wire'[i].file # None /\ wire'[i].lastFile =>
            \A f \in File : listed[f] # None => ReqSent(f, i)'
    BY <2>1, <1>1, ZenonT(40) DEF ReqInv, ReqCovered
  <2>4. srv.rev # None =>
            \A f \in File : listed[f] # None =>
              f \in srv.todo \/ (f = srv.cur /\ srv.offset = 0) \/ ReqSent(f, Len(wire))'
    BY <2>1, Zenon DEF ReqInv, ReqCovered
  <2> QED
    BY <2>2, <2>3, <2>4, <1>0, ZenonT(40) DEF ReqCovered
<1>15. ReqEmptied'
  BY <1>0, Zenon DEF ReqInv, ReqEmptied
<1>16. ReqSizes'
  BY <1>0, Zenon DEF ReqInv, ReqSizes, Client!Without
<1>17. ReqOutcome'
  BY <1>0, Zenon DEF ReqOutcome
<1> QED
  BY <1>10, <1>11, <1>12, <1>13, <1>14, <1>15, <1>16, <1>17, ZenonT(40) DEF ReqInv

\* The client takes a message off the stream.
LEMMA ReqReceiveMoves ==
  ASSUME Client!WellFormed, ReqInv, faults \subseteq faults', Client!Receive
  PROVE  ReqInv'
<1>1. /\ phase = "stream" /\ wire # <<>> /\ Head(wire).file # None
      /\ UNCHANGED <<elapsed, backoff, resolved, ref, listed, head, disk>>
  BY Zenon DEF Client!Receive
<1>2. CASE Client!Reject
  BY <1>1, <1>2, ReqRejects, ZenonT(40) DEF Client!Reject
<1>3. CASE ~Client!Reject
  <2> DEFINE m == Head(wire)
  <2> DEFINE dir == IF recv.dir = None THEN m.commit ELSE recv.dir
  <2> DEFINE cur == IF recv.file = m.file THEN recv
                    ELSE [Client!NoFile EXCEPT !.file = m.file, !.expected = m.total, !.dir = dir]
  <2>1. /\ dir # None
        /\ recv.file # m.file => Client!NextFileOk(m)
        /\ Client!InSequence(m, cur)
        /\ recv' = [cur EXCEPT !.written = @ + m.len, !.last = m.last,
                               !.final = m.lastFile /\ m.last, !.dir = dir]
        /\ local' = [local EXCEPT ![dir][m.file] = cur.written + m.len]
        /\ wire' = Tail(wire) /\ UNCHANGED <<phase, srv>>
    BY <1>3, Zenon DEF Client!Receive
  <2>2. ReqAccepts(m, dir, cur)
    BY <2>1, <1>1, ZenonT(40) DEF ReqAccepts, ReqCurrent
  <2> HIDE DEF dir, cur
  <2> QED
    BY <2>2, <1>1, ReqChunkAccepted, ZenonT(40)
<1> QED
  BY <1>2, <1>3, ZenonT(40)

\* The stream ends.
LEMMA ReqEndMoves ==
  ASSUME Client!WellFormed, ReqInv, faults \subseteq faults', Client!ReceiveEnd
  PROVE  ReqInv'
<1>1. /\ phase = "stream" /\ phase' \in {"ok", "failed"} /\ wire' = <<>>
      /\ UNCHANGED <<elapsed, backoff, resolved, recv, local, listed, head, disk, srv>>
      /\ phase' = "ok" => recv.final /\ recv.last
      /\ ref' # ref => ref' = resolved /\ phase' = "ok"
  BY Zenon DEF Client!ReceiveEnd
<1>2. /\ ref = None /\ resolved \in Rev /\ Parses /\ ~Shared
  BY <1>1, Zenon DEF ReqInv, ReqTypes, ReqPhases
<1>3. wire' \in Seq(ReqMessage)
  BY <1>1, SMTT(30)
<1>4. ReqTypes'
  BY <1>1, <1>2, <1>3, ZenonT(40) DEF ReqInv, ReqTypes
<1>5. ReqPhases' /\ ReqBudget'
  BY <1>1, <1>2, Zenon DEF ReqInv, ReqPhases, ReqBudget
<1>6. phase' = "ok" => recv.dir # None
  BY <1>1, Zenon DEF ReqInv, ReqReceived
<1>7. ReqReceived' /\ ReqStreamed' /\ ReqEmptied' /\ ReqOutcome'
  BY <1>1, <1>2, <1>6, ReqConstants, ZenonT(40) DEF ReqInv, ReqReceived, ReqStreamed, ReqEmptied, ReqOutcome
<1>8. ReqSizes'
  BY <1>1, Zenon DEF ReqInv, ReqSizes, Client!Without
<1>9. ReqCovered'
  <2>1. \A f \in File : ReqSent(f, 0) => ReqSent(f, 0)'
    <3>1. \A j \in DOMAIN wire : ~(j <= 0)
      BY SMTT(30) DEF ReqInv, ReqTypes
    <3> QED
      BY <3>1, <1>1, ZenonT(40) DEF ReqSent
  <2> QED
    BY <2>1, <1>1, Zenon DEF ReqInv, ReqCovered
<1> QED
  BY <1>4, <1>5, <1>7, <1>8, <1>9, ZenonT(40) DEF ReqInv

\* The branch moves and the server's cache changes.
LEMMA ReqWorldMoves ==
  ASSUME Client!WellFormed, ReqInv, faults \subseteq faults',
         Client!BranchMoves \/ Client!CacheChanges \/ Client!OtherDownload
  PROVE  ReqInv'
<1>1. UNCHANGED <<phase, elapsed, backoff, resolved, recv, local, ref, listed, srv, wire>>
  BY Zenon DEF Client!BranchMoves, Client!CacheChanges, Client!OtherDownload, Client!clientVars
<1>2. /\ head' \in Rev /\ disk' \in [Rev -> ReqFiles]
      /\ \/ disk' = disk
         \/ "empty" \in faults'
         \/ "cache" \in faults' /\ \A r \in Rev, f \in File : disk'[r][f] = 0 => disk[r][f] = 0
         \/ phase = "connect"
  <2>0. disk \in [Rev -> ReqFiles] /\ head \in Rev
    BY Zenon DEF ReqInv, ReqTypes
  <2>1. CASE Client!BranchMoves
    BY <2>0, <2>1, ZenonT(40) DEF Client!BranchMoves
  <2>2. CASE Client!OtherDownload
    <3>1. PICK r \in Rev : phase = "connect" /\ disk' = [disk EXCEPT ![r] = SizeOf[r]] /\ head' = head
      BY <2>2, Zenon DEF Client!OtherDownload
    <3>2. SizeOf[r] \in ReqFiles
      BY ReqConstants, Zenon
    <3> QED
      BY <3>1, <3>2, <2>0, ZenonT(40)
  <2>3. CASE Client!CacheChanges
    <3>1. PICK r \in Rev, f \in File, s \in Nat \cup {None} :
              /\ disk' = [disk EXCEPT ![r][f] = s] /\ head' = head
              /\ "empty" \in faults' \/ ("cache" \in faults' /\ s # 0)
      <4>1. PICK r \in Rev, f \in File :
              /\ head' = head
              /\ \/ Client!Fail("cache") /\ \E s \in {None, 1, SizeOf[r][f] + 1} : disk' = [disk EXCEPT ![r][f] = s]
                 \/ Client!Fail("empty") /\ disk' = [disk EXCEPT ![r][f] = 0]
        BY <2>3, ZenonT(40) DEF Client!CacheChanges
      <4>2. /\ 0 \in Nat /\ 1 \in Nat /\ 1 # 0 /\ None # 0
            /\ SizeOf[r][f] + 1 \in Nat /\ SizeOf[r][f] + 1 # 0
        BY ReqConstants, SMTT(30)
      <4>3. CASE Client!Fail("empty") /\ disk' = [disk EXCEPT ![r][f] = 0]
        BY <4>1, <4>2, <4>3, ZenonT(40) DEF Client!Fail
      <4>4. ASSUME NEW s \in {None, 1, SizeOf[r][f] + 1}, disk' = [disk EXCEPT ![r][f] = s], Client!Fail("cache")
            PROVE  s \in Nat \cup {None} /\ s # 0 /\ "cache" \in faults'
        BY <4>2, <4>4, Zenon DEF Client!Fail
      <4> QED
        BY <4>1, <4>3, <4>4, ZenonT(40)
    <3> DEFINE now == [disk[r] EXCEPT ![f] = s]
    <3>2. disk[r] \in [File -> Nat \cup {None}]
      BY <2>0, Zenon DEF ReqFiles
    <3>3. /\ now \in [File -> Nat \cup {None}] /\ now[f] = s
          /\ \A g \in File : g # f => now[g] = disk[r][g]
      BY <3>2, Zenon
    <3>4. disk' = [disk EXCEPT ![r] = now]
      BY <3>1, Zenon
    <3> HIDE DEF now
    <3>5. disk' \in [Rev -> ReqFiles] /\ disk'[r] = now /\ \A q \in Rev : q # r => disk'[q] = disk[q]
      BY <3>3, <3>4, <2>0, ZenonT(40) DEF ReqFiles
    <3>6. s # 0 => \A q \in Rev, g \in File : disk'[q][g] = 0 => disk[q][g] = 0
      BY <3>3, <3>5, Zenon
    <3> QED
      BY <3>1, <3>5, <3>6, <2>0, ZenonT(40)
  <2> QED
    BY <2>1, <2>2, <2>3, ZenonT(40)
<1>3. ReqTypes' /\ ReqPhases' /\ ReqBudget' /\ ReqReceived' /\ ReqStreamed'
  BY <1>1, <1>2, ZenonT(40) DEF ReqInv, ReqTypes, ReqPhases, ReqBudget, ReqReceived, ReqStreamed
<1>4. ReqCovered'
  <2>1. \A f : \A n : ReqSent(f, n) => ReqSent(f, n)'
    BY <1>1, Zenon DEF ReqSent
  <2>2. \A f : ReqSent(f, Len(wire)) => ReqSent(f, Len(wire))'
    BY <1>1, Zenon DEF ReqSent
  <2> QED
    BY <2>1, <2>2, <1>1, Zenon DEF ReqInv, ReqCovered
<1>5. ReqEmptied'
  <2> SUFFICES ASSUME phase = "stream", NEW f \in File, listed[f] \in Nat \ {0}, disk'[resolved][f] = 0
               PROVE  "empty" \in faults'
    BY <1>1, Zenon DEF ReqEmptied
  <2>1. resolved \in Rev
    BY Zenon DEF ReqInv, ReqPhases, ReqTypes
  <2>2. "empty" \in faults' \/ disk[resolved][f] = 0
    BY <2>1, <1>2, Zenon
  <2> QED
    BY <2>2, Zenon DEF ReqInv, ReqEmptied
<1>6. Client!Without({"cache", "empty"})' => Client!Without({"cache", "empty"})
  BY Zenon DEF Client!Without
<1>7. Client!Without({"cache", "empty"})' => disk' = disk \/ phase = "connect"
  BY <1>2, Zenon DEF Client!Without
<1>8. ReqSizes'
  BY <1>1, <1>6, <1>7, ZenonT(40) DEF ReqInv, ReqSizes
<1>9. ReqOutcome'
  BY <1>1, <1>6, <1>7, ZenonT(40) DEF ReqInv, ReqOutcome
<1> QED
  BY <1>3, <1>4, <1>5, <1>8, <1>9, ZenonT(40) DEF ReqInv

\* Every state of a request has the invariant.
LEMMA ReqInvariance == ASSUME Client!WellFormed PROVE Client!Spec => []ReqInv
<1>1. Client!Init => ReqInv
  <2> SUFFICES ASSUME Client!Init PROVE ReqInv
    BY Zenon
  <2>1. /\ phase = "connect" /\ elapsed = 0 /\ backoff = 1 /\ head \in Rev /\ resolved = None
        /\ disk = [r \in Rev |-> Client!NoFiles] /\ local = [r \in Rev |-> Client!NoFiles]
        /\ srv = Client!Idle /\ wire = <<>> /\ recv = Client!NoFile /\ ref = None
        /\ listed = Client!NoFiles
    BY Zenon DEF Client!Init
  <2>2. <<>> \in Seq(ReqMessage) /\ 0 \in Nat /\ 1 \in Nat /\ 0 <= ConnectWait
    BY SMT DEF Client!WellFormed
  <2>3. ReqTypes
    BY <2>1, <2>2, ReqIdle, ReqConstants, ZenonT(40) DEF ReqTypes
  <2>4. recv.dir = None /\ recv.file = None /\ ~recv.final /\ srv.rev = None
    BY <2>1, ReqIdle, Zenon
  <2>5. \A r \in Rev : local[r] = Client!NoFiles
    BY <2>1, Zenon
  <2>6. ReqPhases /\ ReqBudget
    BY <2>1, <2>2, <2>4, <2>5, ZenonT(40) DEF ReqPhases, ReqBudget
  <2>7. ReqReceived
    BY <2>1, <2>4, <2>5, Zenon DEF ReqReceived
  <2>8. ReqStreamed /\ ReqCovered /\ ReqEmptied /\ ReqSizes /\ ReqOutcome
    BY <2>1, <2>4, Zenon DEF ReqStreamed, ReqCovered, ReqEmptied, ReqSizes, ReqOutcome
  <2> QED
    BY <2>3, <2>6, <2>7, <2>8, ZenonT(40) DEF ReqInv
<1>2. ReqInv /\ [Client!Next]_(Client!vars) => ReqInv'
  <2> SUFFICES ASSUME ReqInv, [Client!Next]_(Client!vars) PROVE ReqInv'
    BY Zenon
  <2>1. CASE Client!Next
    <3>1. faults \subseteq faults'
      BY <2>1, ReqFaults, Zenon
    <3>2. CASE Client!ClientStep
      BY <3>1, <3>2, ReqConnectMoves, ReqDirectMoves, ReqEnsureMoves, ReqOpenMoves, ReqReceiveMoves,
         ReqEndMoves, ZenonT(40) DEF Client!ClientStep
    <3>3. CASE Client!ServerStep \/ Client!StreamBreaks
      BY <3>1, <3>3, ReqOpenFileMoves, ReqReadMoves, ReqHangupMoves, ZenonT(40) DEF Client!ServerStep
    <3>4. CASE Client!BranchMoves \/ Client!CacheChanges \/ Client!OtherDownload
      BY <3>1, <3>4, ReqWorldMoves, ZenonT(40)
    <3> QED
      BY <2>1, <3>2, <3>3, <3>4, ZenonT(40) DEF Client!Next
  <2>2. CASE UNCHANGED Client!vars
    <3>1. UNCHANGED <<phase, elapsed, backoff, resolved, recv, local, ref, listed, head, disk, srv, wire, faults>>
      BY <2>2, Zenon DEF Client!vars, Client!clientVars
    <3>2. ReqTypes' /\ ReqPhases' /\ ReqBudget' /\ ReqReceived' /\ ReqStreamed'
      BY <3>1, ZenonT(40) DEF ReqInv, ReqTypes, ReqPhases, ReqBudget, ReqReceived, ReqStreamed
    <3>3. ReqCovered'
      <4>1. \A f : \A n : ReqSent(f, n) => ReqSent(f, n)'
        BY <3>1, Zenon DEF ReqSent
      <4>2. \A f : ReqSent(f, Len(wire)) => ReqSent(f, Len(wire))'
        BY <3>1, Zenon DEF ReqSent
      <4> QED
        BY <4>1, <4>2, <3>1, Zenon DEF ReqInv, ReqCovered
    <3>4. ReqEmptied' /\ ReqSizes' /\ ReqOutcome'
      BY <3>1, Zenon DEF ReqInv, ReqEmptied, ReqSizes, ReqOutcome, Client!Without
    <3> QED
      BY <3>2, <3>3, <3>4, Zenon DEF ReqInv
  <2> QED
    BY <2>1, <2>2, Zenon
<1> QED
  BY <1>1, <1>2, PTL DEF Client!Spec

\* A request that succeeds has every file it asked for of the revision it returns and
\* nothing under another one, wherever the branch moves between its calls, and the local
\* ref names nothing else (lib.rs, request_model_with_smart_fallback_revision).
THEOREM RequestInstallsResolved == Client!WellFormed /\ Client!Spec => []Client!InstalledAsResolved
<1> SUFFICES ASSUME Client!WellFormed PROVE Client!Spec => []Client!InstalledAsResolved
  BY Zenon
<1>0. Client!Spec => []ReqInv
  BY ReqInvariance, Zenon
<1>1. ReqInv => Client!InstalledAsResolved
  <2> SUFFICES ASSUME ReqInv, phase = "ok"
               PROVE  /\ resolved # None /\ (Pinned # None => resolved = Pinned)
                      /\ \A r \in Rev \ {resolved} : local[r] = Client!NoFiles
                      /\ Client!Without({"cache", "empty"}) =>
                           \A f \in Client!Wanted :
                             (IF Client!Installed THEN local ELSE disk)[resolved][f] = SizeOf[resolved][f]
                      /\ ref \in {None, resolved}
    BY Zenon DEF Client!InstalledAsResolved, ReqInv, ReqPhases
  <2>1. /\ resolved \in Rev /\ resolved # None /\ (Pinned # None => resolved = Pinned)
        /\ \A r \in Rev \ {resolved} : local[r] = Client!NoFiles
        /\ ref \in {None, resolved}
    BY Zenon DEF ReqInv, ReqPhases, ReqOutcome, ReqReceived, ReqTypes
  <2>2. ASSUME Client!Without({"cache", "empty"}), NEW f \in Client!Wanted
        PROVE  (IF Client!Installed THEN local ELSE disk)[resolved][f] = SizeOf[resolved][f]
    <3>1. f \in File /\ SizeOf[resolved][f] \in Nat /\ None \notin Nat /\ Client!NoFiles[f] = None
      BY <2>1, ReqConstants, Zenon
    <3>2. CASE recv.dir # None
      <4>1. /\ recv.dir = resolved /\ recv.file \in File /\ recv.last /\ recv.final
            /\ local[resolved][recv.file] = listed[recv.file]
            /\ \A g \in File \ {recv.file} : local[resolved][g] \in {None, listed[g]}
            /\ listed[recv.file] \in Nat
        BY <3>2, ReqFields, Zenon DEF ReqInv, ReqCovered, ReqReceived
      <4>2. listed # Client!NoFiles /\ local[resolved] # Client!NoFiles
        BY <4>1, ReqConstants, ZenonT(40)
      <4>3. Client!Installed /\ listed[f] = SizeOf[resolved][f]
        BY <4>2, <2>2, Zenon DEF Client!Installed, ReqInv, ReqSizes
      <4>4. local[resolved][f] # None
        <5>1. ReqSent(f, 0) /\ "empty" \notin faults
          BY <4>1, <4>3, <3>1, <2>2, ZenonT(40) DEF ReqInv, ReqCovered, Client!Without
        <5>2. \A j \in DOMAIN wire : ~(j <= 0)
          BY SMTT(30) DEF ReqInv, ReqTypes
        <5> QED
          BY <5>1, <5>2, Zenon DEF ReqSent
      <4> QED
        BY <4>1, <4>3, <4>4, <3>1, ZenonT(40)
    <3>3. CASE recv.dir = None /\ local[resolved] = SizeOf[resolved]
      BY <3>1, <3>3, Zenon DEF Client!Installed
    <3>4. CASE recv.dir = None /\ local[resolved] # SizeOf[resolved]
      BY <3>4, <2>2, ZenonT(40) DEF ReqInv, ReqOutcome, Client!Installed
    <3> QED
      BY <3>2, <3>3, <3>4, Zenon
  <2> QED
    BY <2>1, <2>2, Zenon
<1> QED
  BY <1>0, <1>1, PTL

\* An installed file has the size the server listed, whatever happened to the server's
\* file since; a listed one is missing only if it was emptied before its first byte was
\* read (services.rs, stream_model_files; lib.rs, stream_model_files_from_server).
THEOREM RequestInstallsListed == Client!WellFormed /\ Client!Spec => []Client!InstalledAsListed
<1> SUFFICES ASSUME Client!WellFormed PROVE Client!Spec => []Client!InstalledAsListed
  BY Zenon
<1>0. Client!Spec => []ReqInv
  BY ReqInvariance, Zenon
<1>1. ReqInv => Client!InstalledAsListed
  <2> SUFFICES ASSUME ReqInv, phase = "ok", recv.dir # None, NEW f \in File, listed[f] # None
               PROVE  \/ local[recv.dir][f] = listed[f]
                      \/ local[recv.dir][f] = None /\ "empty" \in faults
    BY Zenon DEF Client!InstalledAsListed
  <2>1. /\ recv.dir = resolved /\ recv.last /\ recv.final
        /\ local[resolved][recv.file] = listed[recv.file]
        /\ \A g \in File \ {recv.file} : local[resolved][g] \in {None, listed[g]}
    BY Zenon DEF ReqInv, ReqCovered, ReqReceived
  <2>2. local[resolved][f] # None \/ "empty" \in faults
    <3>1. ReqSent(f, 0)
      BY <2>1, Zenon DEF ReqInv, ReqCovered
    <3>2. \A j \in DOMAIN wire : ~(j <= 0)
      BY SMTT(30) DEF ReqInv, ReqTypes
    <3> QED
      BY <3>1, <3>2, Zenon DEF ReqSent
  <2> QED
    BY <2>1, <2>2, Zenon
<1> QED
  BY <1>0, <1>1, PTL

\* At every moment, so also when the request fails, every received file but the last one is
\* whole (lib.rs, stream_model_files_from_server).
THEOREM RequestLeavesOneUnfinished == Client!WellFormed /\ Client!Spec => []Client!OneUnfinishedFile
<1> SUFFICES ASSUME Client!WellFormed PROVE Client!Spec => []Client!OneUnfinishedFile
  BY Zenon
<1>0. Client!Spec => []ReqInv
  BY ReqInvariance, Zenon
<1>1. ReqInv => Client!OneUnfinishedFile
  BY ZenonT(40) DEF ReqInv, ReqReceived, Client!OneUnfinishedFile
<1> QED
  BY <1>0, <1>1, PTL

\* The server is bypassed only after the connection budget, within one attempt of it, and
\* never once a request has been sent (lib.rs, connect_with_budget).
THEOREM RequestBypassesUnconnected == Client!WellFormed /\ Client!Spec => []Client!BypassOnlyUnconnected
<1> SUFFICES ASSUME Client!WellFormed PROVE Client!Spec => []Client!BypassOnlyUnconnected
  BY Zenon
<1>0. Client!Spec => []ReqInv
  BY ReqInvariance, Zenon
<1>1. ReqInv => Client!BypassOnlyUnconnected
  BY Zenon DEF ReqInv, ReqPhases, Client!BypassOnlyUnconnected
<1> QED
  BY <1>0, <1>1, PTL
=============================================================================
