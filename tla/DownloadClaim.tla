---------------------------- MODULE DownloadClaim ----------------------------
(***************************************************************************)
(* What a registry backend promises about one entry (registry/backend.rs,  *)
(* the RegistryBackend trait): a lease-fenced claim on a download.         *)
(*                                                                         *)
(* A claim that was handed to a download is spent.  A spent claim that no  *)
(* longer holds the entry never holds it again, so its download cannot     *)
(* publish a result over the one of a later owner.                         *)
(***************************************************************************)
CONSTANTS
  Claim,   \* claim ids
  None     \* no claim

VARIABLES
  status,  \* ABSENT, DOWNLOADING, DOWNLOADED or ERROR
  holder,  \* the claim that owns the entry while it is DOWNLOADING
  lapsed,  \* the holder's lease has run out
  spent    \* the claims handed to a download

vars == <<status, holder, lapsed, spent>>

Init ==
  /\ status = "ABSENT"
  /\ holder = None
  /\ lapsed = FALSE
  /\ spent = {}

\* Claimable entries: no record, or a download whose lease ran out.
Free == status = "ABSENT" \/ (status = "DOWNLOADING" /\ lapsed)

Hold(c) ==
  /\ c \notin spent
  /\ status' = "DOWNLOADING"
  /\ holder' = c
  /\ lapsed' = FALSE

\* try_claim_for_download (Claimed, TookOver) or try_reset_error_for_retry (true);
\* the caller may start its download at once.
Acquire(c) ==
  /\ Free \/ status = "ERROR"
  /\ Hold(c)
  /\ spent' \in {spent, spent \cup {c}}

\* It starts it later, or never.
Start(c) ==
  /\ spent' = spent \cup {c}
  /\ UNCHANGED <<status, holder, lapsed>>

\* refresh_download_claim by the owner.
Renew ==
  /\ status = "DOWNLOADING"
  /\ lapsed' = FALSE
  /\ UNCHANGED <<status, holder, spent>>

Lapse ==
  /\ status = "DOWNLOADING"
  /\ lapsed' = TRUE
  /\ UNCHANGED <<status, holder, spent>>

\* finish_download_claim by the owner.
Publish(c, s) ==
  /\ status = "DOWNLOADING" /\ holder = c
  /\ c \in spent
  /\ s \in {"DOWNLOADED", "ERROR"}
  /\ status' = s
  /\ holder' = None
  /\ lapsed' = FALSE
  /\ UNCHANGED spent

\* delete_model: unconditional.
Forget ==
  /\ status' = "ABSENT"
  /\ holder' = None
  /\ lapsed' = FALSE
  /\ UNCHANGED spent

Next ==
  \/ Renew \/ Lapse \/ Forget
  \/ \E c \in Claim : Acquire(c) \/ Start(c)
  \/ \E c \in Claim, s \in {"DOWNLOADED", "ERROR"} : Publish(c, s)

Spec == Init /\ [][Next]_vars
=============================================================================
