----------------------------- MODULE NgcDownload -----------------------------
(***************************************************************************)
(* Downloads of one NGC artifact (modelexpress_common providers/ngc.rs):   *)
(* a lock file per artifact, the paged file list or the checksum manifest  *)
(* an organisation's access control leaves, and concurrent transfers that  *)
(* share one bearer token.  Deletions take no lock.                        *)
(***************************************************************************)
EXTENDS Naturals, FiniteSets

CONSTANTS
  Page,         \* sequence of the sets of files the pages list
  Weights,
  Concurrency,  \* transfers in flight
  Download, Metadata, Deletion,
  Fault, MaxFaults, None

VARIABLES
  disk, temp,   \* files in the artifact's directory, and unfinished ones
  lock,         \* the download that holds the lock file
  dl,
  fresh,        \* the shared token is younger than the refresh interval
  refreshing,   \* the transfer that holds the token's write lock
  refreshes, expiries,
  removed,
  faults, budget

tokenVars == <<fresh, refreshing, refreshes, expiries>>
vars == <<disk, temp, lock, dl, tokenVars, removed, faults, budget>>

File == UNION {Page[i] : i \in DOMAIN Page}
Pages == Cardinality(DOMAIN Page)

Init ==
  /\ disk = {} /\ temp = {} /\ lock = None
  /\ dl = [d \in Download |-> [pc |-> "start", page |-> 1, listed |-> {}, bearer |-> FALSE,
                               task |-> [f \in File |-> "none"]]]
  /\ fresh = TRUE /\ refreshing = None /\ refreshes = 0 /\ expiries = 0
  /\ removed = [e \in Deletion |-> FALSE]
  /\ faults = {} /\ budget = MaxFaults

Fail(k) == k \in Fault /\ budget > 0 /\ budget' = budget - 1 /\ faults' = faults \cup {k}
NoFault == UNCHANGED <<faults, budget>>

\* MUTANT of End: the lock file stays locked.
EndLocked(d, pc) ==
  /\ dl' = [dl EXCEPT ![d].pc = pc]
  /\ UNCHANGED lock

\* The future ends, and with it the lock.
End(d, pc) ==
  /\ dl' = [dl EXCEPT ![d].pc = pc]
  /\ lock' = IF lock = d THEN None ELSE lock

Goto(d, pc) == dl' = [dl EXCEPT ![d].pc = pc] /\ UNCHANGED lock

-----------------------------------------------------------------------------
(* download_model *)

Acquire(d) ==
  /\ dl[d].pc = "start" /\ lock = None
  /\ lock' = d
  /\ dl' = [dl EXCEPT ![d].pc = "token"]
  /\ UNCHANGED <<disk, temp, tokenVars, removed, faults, budget>>

\* get_ngc_api_key and fetch_token.
fetch_token(d) ==
  /\ dl[d].pc = "token"
  /\ \/ Goto(d, "list") /\ NoFault
     \/ Fail("token") /\ End(d, "failed")
  /\ UNCHANGED <<disk, temp, tokenVars, removed>>

\* MUTANT of LastPage: one page less than announced.
LastPageEarly(i) == i + 1 >= Pages

LastPage(i) == i >= Pages

\* fetch_artifact_files, one page; a refusal discards what the pages gave so far.
fetch_artifact_files(d) == LET i == dl[d].page got == dl[d].listed \cup Page[i] IN
  /\ dl[d].pc = "list"
  /\ \/ /\ IF LastPage(i) /\ got = {} THEN End(d, "failed")
           ELSE /\ dl' = [dl EXCEPT ![d].pc = IF LastPage(i) THEN "plan" ELSE "list",
                                    ![d].page = i + 1, ![d].listed = got]
                /\ UNCHANGED lock
        /\ NoFault
     \/ Fail("refused") /\ Goto(d, "checksums")
     \/ Fail("list") /\ End(d, "failed")
  /\ UNCHANGED <<disk, temp, tokenVars, removed>>

fetch_files_via_checksum_manifest(d) ==
  /\ dl[d].pc = "checksums"
  /\ \/ /\ dl' = [dl EXCEPT ![d].pc = "plan", ![d].listed = File, ![d].bearer = TRUE]
        /\ NoFault /\ UNCHANGED lock
     \/ Fail("list") /\ End(d, "failed")
  /\ UNCHANGED <<disk, temp, tokenVars, removed>>

Wanted(d) == IF d \in Metadata THEN dl[d].listed \ Weights ELSE dl[d].listed

\* download_files: what is cached is left alone, the rest is queued;
\* the age of the shared token counts from here.
PlanFiles(d) ==
  /\ dl[d].pc = "plan"
  /\ fresh' = TRUE
  /\ IF Wanted(d) = {} THEN End(d, "failed")
     ELSE /\ dl' = [dl EXCEPT ![d].pc = "transfer",
               ![d].task = [f \in File |-> IF f \notin Wanted(d) THEN "none"
                                           ELSE IF f \in disk THEN "done" ELSE "todo"]]
          /\ UNCHANGED lock
  /\ UNCHANGED <<disk, temp, refreshing, refreshes, expiries, removed, faults, budget>>

InFlight(d) == {f \in File : dl[d].task[f] \in {"stale", "get", "body"}}
SetTask(d, f, s) == dl' = [dl EXCEPT ![d].task[f] = s] /\ UNCHANGED lock

\* The first half of SharedToken::get: under the read lock.
StartTransfer(d, f) ==
  /\ dl[d].pc = "transfer" /\ dl[d].task[f] = "todo"
  /\ Cardinality(InFlight(d)) < Concurrency
  /\ refreshing = None
  /\ SetTask(d, f, IF dl[d].bearer /\ ~fresh THEN "stale" ELSE "get")
  /\ UNCHANGED <<disk, temp, tokenVars, removed, faults, budget>>

\* MUTANT of StillStale: the age is not looked at again under the write lock.
StillStaleAssumed == TRUE

StillStale == ~fresh

\* The second half, under the write lock.
BeginRefresh(d, f) ==
  /\ dl[d].pc = "transfer" /\ dl[d].task[f] = "stale" /\ refreshing = None
  /\ IF StillStale THEN refreshing' = <<d, f>> /\ refreshes' = refreshes + 1 /\ UNCHANGED <<dl, lock>>
     ELSE SetTask(d, f, "get") /\ UNCHANGED <<refreshing, refreshes>>
  /\ UNCHANGED <<disk, temp, fresh, expiries, removed, faults, budget>>

EndRefresh(d, f) ==
  /\ refreshing = <<d, f>>
  /\ refreshing' = None
  /\ \/ fresh' = TRUE /\ SetTask(d, f, "get") /\ NoFault
     \/ Fail("token") /\ SetTask(d, f, "error") /\ UNCHANGED fresh
  /\ UNCHANGED <<disk, temp, refreshes, expiries, removed>>

\* download_one_file: to a temporary name, then renamed.
OpenTransfer(d, f) ==
  /\ dl[d].pc = "transfer" /\ dl[d].task[f] = "get"
  /\ \/ temp' = temp \cup {f} /\ SetTask(d, f, "body") /\ NoFault
     \/ Fail("transfer") /\ SetTask(d, f, "error") /\ UNCHANGED temp
  /\ UNCHANGED <<disk, tokenVars, removed>>

EndTransfer(d, f) ==
  /\ dl[d].pc = "transfer" /\ dl[d].task[f] = "body"
  /\ \/ /\ f \in temp
        /\ temp' = temp \ {f} /\ disk' = disk \cup {f} /\ SetTask(d, f, "done") /\ NoFault
     \/ f \notin temp /\ SetTask(d, f, "error") /\ NoFault /\ UNCHANGED <<disk, temp>>
     \/ Fail("transfer") /\ SetTask(d, f, "error") /\ UNCHANGED <<disk, temp>>
  /\ UNCHANGED <<tokenVars, removed>>

\* All transfers are awaited before any error is reported.
FinishDownload(d) ==
  /\ dl[d].pc = "transfer"
  /\ \A f \in File : dl[d].task[f] \in {"none", "done", "error"}
  /\ End(d, IF \E f \in File : dl[d].task[f] = "error" THEN "failed" ELSE "ok")
  /\ UNCHANGED <<disk, temp, tokenVars, removed, faults, budget>>

\* The process dies: the system releases its lock, temporary files stay.
Crash(d) ==
  /\ lock = d /\ Fail("crash")
  /\ End(d, "failed")
  /\ refreshing' = None
  /\ UNCHANGED <<disk, temp, fresh, refreshes, expiries, removed>>

-----------------------------------------------------------------------------
DeleteModel(e) ==
  /\ ~removed[e]
  /\ removed' = [removed EXCEPT ![e] = TRUE]
  /\ disk' = {} /\ temp' = {}
  /\ UNCHANGED <<lock, dl, tokenVars, faults, budget>>

TokenExpires ==
  /\ fresh /\ \E d \in Download : dl[d].pc = "transfer" /\ dl[d].bearer
  /\ Fail("expiry")
  /\ fresh' = FALSE /\ expiries' = expiries + 1
  /\ UNCHANGED <<disk, temp, lock, dl, refreshing, refreshes, removed>>

DownloadStep(d) ==
  \/ Acquire(d) \/ fetch_token(d) \/ fetch_artifact_files(d) \/ fetch_files_via_checksum_manifest(d)
  \/ PlanFiles(d) \/ FinishDownload(d)
  \/ \E f \in File : \/ StartTransfer(d, f) \/ BeginRefresh(d, f) \/ EndRefresh(d, f)
                     \/ OpenTransfer(d, f) \/ EndTransfer(d, f)

Next ==
  \/ \E d \in Download : DownloadStep(d)
  \/ \E e \in Deletion : DeleteModel(e)
  \/ \E d \in Download : Crash(d)
  \/ TokenExpires

Spec == Init /\ [][Next]_vars /\ \A d \in Download : WF_vars(DownloadStep(d))

\* What the constants are: the service announces at least one page.
WellFormed ==
  /\ Pages \in Nat \ {0} /\ DOMAIN Page = 1..Pages
  /\ None \notin Download /\ \A d \in Download, f \in File : <<d, f>> # None

-----------------------------------------------------------------------------
\* A directory with any entry, a temporary file included, counts as the model.
get_model_path == disk \cup temp # {}

\* Unless it was deleted, the artifact of a download that succeeded has every
\* file the service lists on any page, although an earlier attempt broke off; and the path
\* get_model_path gives, while no download runs and none failed, has them.
InstalledWhole ==
  (\A e \in Deletion : ~removed[e]) =>
    /\ \A d \in Download :
         dl[d].pc = "ok" => (IF d \in Metadata THEN File \ Weights ELSE File) \subseteq disk
    /\ get_model_path /\ (\A d \in Download : dl[d].pc \in {"start", "ok"}) =>
         temp = {} /\ File \ Weights \subseteq disk

\* Transfers that find the token stale together exchange it once per expiry
\* (a refresh that fails is tried again by the next of them).
RefreshedOnce == "token" \notin faults => refreshes <= expiries

\* Every download ends: nobody waits for ever for the lock or the token.
Ended(d) == dl[d].pc \in {"ok", "failed"}
=============================================================================
