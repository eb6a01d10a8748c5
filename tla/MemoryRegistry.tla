---------------------------- MODULE MemoryRegistry ----------------------------
(***************************************************************************)
(* The in-memory model registry (registry/backend/memory.rs), one entry.   *)
(* Every operation runs under one mutex, so each is one step; the record   *)
(* and its lease live in two maps.  The caller of a claim is the tracker   *)
(* of services.rs.                                                         *)
(***************************************************************************)
EXTENDS Naturals

CONSTANTS Claim, None

VARIABLES
  model,   \* the record's status, ABSENT without one
  lease,   \* claim_id and whether expires_at has passed, or None
  spent    \* claims handed to a download

vars == <<model, lease, spent>>

Init == model = "ABSENT" /\ lease = None /\ spent = {}

\* A missing lease counts as expired.
Expired == lease = None \/ lease.passed

Claimed(c) == lease' = [claim |-> c, passed |-> FALSE] /\ spent' = spent \cup {c}

try_claim_for_download(c) ==
  /\ c \notin spent
  /\ model = "ABSENT" \/ (model = "DOWNLOADING" /\ Expired)
  /\ model' = "DOWNLOADING"
  /\ Claimed(c)

try_reset_error_for_retry(c) ==
  /\ c \notin spent
  /\ model = "ERROR"
  /\ model' = "DOWNLOADING"
  /\ Claimed(c)

OwnsClaim(c) == lease # None /\ lease.claim = c /\ model = "DOWNLOADING"

refresh_download_claim(c) ==
  /\ c \in spent /\ OwnsClaim(c)
  /\ lease' = [lease EXCEPT !.passed = FALSE]
  /\ UNCHANGED <<model, spent>>

\* MUTANT of finish_download_claim: the lease stays behind.
FinishKeepingLease(c, s) ==
  /\ c \in spent /\ OwnsClaim(c)
  /\ model' = s
  /\ UNCHANGED <<lease, spent>>

finish_download_claim(c, s) ==
  /\ c \in spent /\ OwnsClaim(c)
  /\ model' = s
  /\ lease' = None
  /\ UNCHANGED spent

delete_model ==
  /\ model # "ABSENT"
  /\ model' = "ABSENT"
  /\ lease' = None
  /\ UNCHANGED spent

\* Time passes the lease's deadline.
Lapse ==
  /\ lease # None /\ ~lease.passed
  /\ lease' = [lease EXCEPT !.passed = TRUE]
  /\ UNCHANGED <<model, spent>>

Next ==
  \/ \E c \in Claim :
       \/ try_claim_for_download(c) \/ try_reset_error_for_retry(c) \/ refresh_download_claim(c)
       \/ \E s \in {"DOWNLOADED", "ERROR"} : finish_download_claim(c, s)
  \/ delete_model \/ Lapse

Spec == Init /\ [][Next]_vars

\* What the constants are: None is no lease.
WellFormed == None \notin [claim : Claim, passed : BOOLEAN]

Entry == INSTANCE DownloadClaim WITH
  status <- model,
  holder <- IF lease = None THEN None ELSE lease.claim,
  lapsed <- model = "DOWNLOADING" /\ Expired
=============================================================================
