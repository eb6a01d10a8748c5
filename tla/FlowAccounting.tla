--------------------------- MODULE FlowAccounting ---------------------------
(***************************************************************************)
(* The transition counters of the download lifecycle in one process        *)
(* (metrics/registry.rs), booked by the instrumented registry backend      *)
(* around claims, retries and completions, and by the deletion of a        *)
(* model's entries (services.rs), which lists the records first and        *)
(* deletes them one by one.                                                *)
(***************************************************************************)
EXTENDS Naturals, Integers, FiniteSets

CONSTANTS
  Key,        \* registry entries of one model
  Fallback,   \* the unpinned full-weight entry
  Task,       \* downloads; a task's id is its claim id
  Deleter,    \* DeleteModel calls
  Reader,     \* requests that may clear a stale record
  MaxFaults,  \* bound: failed backend calls
  None

VARIABLES
  record,       \* the registry: status and claim of each entry
  task,         \* the entry each task downloads; "ended" when it is over
  deleter,      \* the records a deletion has listed and not yet deleted
  reader,       \* the entry whose DOWNLOADED record a reader has found stale
  transitions,  \* mx_registry_status_transitions_total
  faults,
  missed        \* history: how often a record changed without its transition, or the
                \* other way round

vars == <<record, task, deleter, reader, transitions, faults, missed>>

Absent == "absent"
Status(k) == IF record[k] = None THEN Absent ELSE record[k].status

REACHABLE_TRANSITIONS ==
  {<<"absent", "downloading">>, <<"downloading", "downloading">>, <<"error", "downloading">>,
   <<"downloading", "downloaded">>, <<"downloading", "error">>, <<"downloading", "absent">>}

\* Every transition's counter is created at zero.
Init ==
  /\ record = [k \in Key |-> None]
  /\ task = [t \in Task |-> None]
  /\ deleter = [d \in Deleter |-> None]
  /\ reader = [r \in Reader |-> None]
  /\ transitions = [x \in REACHABLE_TRANSITIONS |-> 0]
  /\ faults = 0
  /\ missed = 0

Fault == faults < MaxFaults /\ faults' = faults + 1

Missed(wrong) == missed' = IF wrong THEN missed + 1 ELSE missed

record_transition(from, to) == transitions' = [transitions EXCEPT ![<<from, to>>] = @ + 1]

\* MUTANT of record_claim: a takeover is an arrival like a first claim.
record_claim_always(result) ==
  IF result \in {"claimed", "takeover"} THEN record_transition("absent", "downloading")
  ELSE UNCHANGED transitions

record_claim(result) ==
  CASE result = "claimed" -> record_transition("absent", "downloading")
    [] result = "takeover" -> record_transition("downloading", "downloading")
    [] OTHER -> UNCHANGED transitions

Held(t) == [status |-> "downloading", claim |-> t]

\* try_claim_for_download: a first claim, or an expired one taken over.
try_claim_for_download(t, k) ==
  /\ task[t] = None
  /\ \/ /\ Status(k) = Absent
        /\ record_claim("claimed")
     \/ /\ Status(k) = "downloading"
        /\ record_claim("takeover")
  /\ record' = [record EXCEPT ![k] = Held(t)]
  /\ task' = [task EXCEPT ![t] = k]
  /\ UNCHANGED <<deleter, reader, faults, missed>>

\* Someone else's entry, or one that is settled: the caller waits.
AlreadyExists(t, k) ==
  /\ task[t] = None /\ record[k] # None
  /\ record_claim("already_exists")
  /\ task' = [task EXCEPT ![t] = "ended"]
  /\ UNCHANGED <<record, deleter, reader, faults, missed>>

\* A claim or a reset fails, before or after the store applied it.
ClaimError(t, k) ==
  /\ task[t] = None /\ Fault
  /\ record_claim("error")
  /\ \/ UNCHANGED <<record, missed>>
     \/ /\ Status(k) \in {Absent, "downloading", "error"}
        /\ record' = [record EXCEPT ![k] = Held(t)]
        /\ Missed(Status(k) # "downloading")
  /\ task' = [task EXCEPT ![t] = "ended"]
  /\ UNCHANGED <<deleter, reader>>

try_reset_error_for_retry(t, k) ==
  /\ task[t] = None /\ Status(k) = "error"
  /\ record_transition("error", "downloading")
  /\ record' = [record EXCEPT ![k] = Held(t)]
  /\ task' = [task EXCEPT ![t] = k]
  /\ UNCHANGED <<deleter, reader, faults, missed>>

Downloads(t) == task[t] \in Key
Owns(t) == record[task[t]] = Held(t)

\* A heartbeat that finds the lease lost ends the task; a renewal, and a failed call, change
\* no status.
refresh_download_claim(t) ==
  /\ Downloads(t) /\ ~Owns(t)
  /\ task' = [task EXCEPT ![t] = "ended"]
  /\ UNCHANGED <<record, deleter, reader, transitions, faults, missed>>

\* MUTANT of finish_download_claim: a fenced completion is booked as well.
finish_unfenced(t, status) ==
  /\ Downloads(t)
  /\ record_transition("downloading", status)
  /\ record' = IF Owns(t) THEN [record EXCEPT ![task[t]] = [status |-> status, claim |-> None]]
               ELSE record
  /\ task' = [task EXCEPT ![t] = "ended"]
  /\ UNCHANGED <<deleter, reader, faults, missed>>

\* A completion counts only when the claim still fences the record.
finish_download_claim(t, status) ==
  /\ Downloads(t)
  /\ IF Owns(t)
     THEN /\ record' = [record EXCEPT ![task[t]] = [status |-> status, claim |-> None]]
          /\ record_transition("downloading", status)
     ELSE UNCHANGED <<record, transitions>>
  /\ task' = [task EXCEPT ![t] = "ended"]
  /\ UNCHANGED <<deleter, reader, faults, missed>>

FinishError(t, status) ==
  /\ Downloads(t) /\ Fault
  /\ \/ UNCHANGED <<record, missed>>
     \/ /\ Owns(t)
        /\ record' = [record EXCEPT ![task[t]] = [status |-> status, claim |-> None]]
        /\ Missed(TRUE)
  /\ task' = [task EXCEPT ![t] = "ended"]
  /\ UNCHANGED <<deleter, reader, transitions>>

-----------------------------------------------------------------------------
(* delete_model_entries                                                    *)

DeleteList(d) ==
  /\ deleter[d] = None
  /\ deleter' = [deleter EXCEPT ![d] = [k \in {k \in Key : record[k] # None} |-> Status(k)]]
  /\ UNCHANGED <<record, task, reader, transitions, faults, missed>>

\* The listing fails: the fallback key is deleted unseen.
DeleteFallback(d) ==
  /\ deleter[d] = None /\ Fault
  /\ record' = [record EXCEPT ![Fallback] = None]
  /\ Missed(Status(Fallback) = "downloading")
  /\ deleter' = [deleter EXCEPT ![d] = [k \in {} |-> Absent]]
  /\ UNCHANGED <<task, reader, transitions>>

Listed(d, k) == deleter[d] # None /\ k \in DOMAIN deleter[d]
Rest(d, k) == deleter' = [deleter EXCEPT ![d] = [j \in DOMAIN @ \ {k} |-> @[j]]]

\* MUTANT of Books: every deletion is booked.
BooksAlways(d, k) == TRUE

\* The status of the listing decides, not the one the record has when it goes.
Books(d, k) == deleter[d][k] = "downloading"

DeleteOne(d, k) ==
  /\ Listed(d, k)
  /\ record' = [record EXCEPT ![k] = None]
  /\ IF Books(d, k) THEN record_transition("downloading", "absent") ELSE UNCHANGED transitions
  /\ Missed((deleter[d][k] = "downloading") # (Status(k) = "downloading"))
  /\ Rest(d, k)
  /\ UNCHANGED <<task, reader, faults>>

\* delete_status reports the failure and nothing is booked, whether or not the store applied it.
DeleteOneError(d, k) ==
  /\ Listed(d, k) /\ Fault
  /\ \/ UNCHANGED <<record, missed>>
     \/ /\ record' = [record EXCEPT ![k] = None]
        /\ Missed(Status(k) = "downloading")
  /\ Rest(d, k)
  /\ UNCHANGED <<task, reader, transitions>>

-----------------------------------------------------------------------------
(* clear_stale_record: a DOWNLOADED record whose files are missing         *)

FindStale(r, k) ==
  /\ reader[r] = None /\ Status(k) = "downloaded"
  /\ reader' = [reader EXCEPT ![r] = k]
  /\ UNCHANGED <<record, task, deleter, transitions, faults, missed>>

clear_stale_record(r) ==
  /\ reader[r] \in Key
  /\ record' = [record EXCEPT ![reader[r]] = None]
  /\ Missed(Status(reader[r]) = "downloading")
  /\ reader' = [reader EXCEPT ![r] = "ended"]
  /\ UNCHANGED <<task, deleter, transitions, faults>>

Next ==
  \/ \E t \in Task, k \in Key :
       \/ try_claim_for_download(t, k) \/ AlreadyExists(t, k) \/ ClaimError(t, k)
       \/ try_reset_error_for_retry(t, k)
  \/ \E t \in Task : refresh_download_claim(t)
  \/ \E t \in Task, s \in {"downloaded", "error"} :
       finish_download_claim(t, s) \/ FinishError(t, s)
  \/ \E d \in Deleter : DeleteList(d) \/ DeleteFallback(d)
  \/ \E d \in Deleter, k \in Key : DeleteOne(d, k) \/ DeleteOneError(d, k)
  \/ \E r \in Reader, k \in Key : FindStale(r, k)
  \/ \E r \in Reader : clear_stale_record(r)

Spec == Init /\ [][Next]_vars

-----------------------------------------------------------------------------

Sum(X) ==
  LET F[S \in SUBSET X] ==
        IF S = {} THEN 0 ELSE LET x == CHOOSE x \in S : TRUE IN transitions[x] + F[S \ {x}]
  IN F[X]
Arrivals == Sum({x \in REACHABLE_TRANSITIONS : x[2] = "downloading"})
Departures == Sum({x \in REACHABLE_TRANSITIONS : x[1] = "downloading"})

\* Within a process, arrivals in DOWNLOADING and departures from it differ by the number of
\* records that are DOWNLOADING, across takeovers, retries, fenced completions and
\* deletions. What makes them drift is a call that fails after it was applied, a stale
\* record cleared under a new claim, and a deletion whose record moved since it was listed;
\* each of these costs one count and no more.
FlowBalances ==
  LET drift == Arrivals - Departures - Cardinality({k \in Key : Status(k) = "downloading"})
  IN  drift \in -missed .. missed
=============================================================================
