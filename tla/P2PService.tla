----------------------------- MODULE P2PService -----------------------------
(***************************************************************************)
(* The P2P metadata service (p2p/service.rs) over the in-memory backend    *)
(* (p2p/backend/memory.rs): publications and status updates of the workers *)
(* of one source, scoped to the caller's namespace when tenant isolation   *)
(* is on, and the listings and lookups computed from them. A scoped write  *)
(* looks the owner up first and writes in a second backend call.           *)
(***************************************************************************)
EXTENDS Naturals, Sequences, FiniteSets, SequencesExt

CONSTANTS
  Worker,     \* worker ids
  Rank,       \* worker ranks, naturals
  Namespace,  \* verified callers' namespaces
  Call,       \* concurrent calls
  Isolation,  \* tenant_isolation
  Timeout,    \* the heartbeat timeout, in ticks
  MaxTime,    \* bound: the clock
  None

VARIABLES
  entry,  \* the source's workers: WorkerEntry or None
  call,   \* a call between its owner lookup and its write
  now,
  raced   \* history: an entry changed hands between a call's lookup and its write

vars == <<entry, call, now, raced>>

Ready == "ready"
Status == {Ready, "stale"}

Init ==
  /\ entry = [w \in Worker |-> None]
  /\ call = [c \in Call |-> None]
  /\ now = 1
  /\ raced = FALSE

\* The namespace a request is scoped to.
scope_namespace(ns) == IF Isolation THEN ns ELSE None

owner_in_scope(scope, owner) == scope = None \/ owner = scope

Owner(w) == IF entry[w] = None THEN None ELSE entry[w].owner

\* MUTANT of PublishAllowed: an existing record's owner is not looked at.
PublishAllowedAlways(scope, w) == TRUE

PublishAllowed(scope, w) == scope = None \/ entry[w] = None \/ owner_in_scope(scope, Owner(w))

\* MUTANT of UpdateAllowed: an entry without an owner check passes.
UpdateAllowedAlways(scope, w) == TRUE

UpdateAllowed(scope, w) == scope = None \/ (entry[w] # None /\ owner_in_scope(scope, Owner(w)))

\* publish_metadata up to the backend's write; a denied call ends here.
publish_metadata(c, ns, w, r) ==
  /\ call[c] = None
  /\ PublishAllowed(scope_namespace(ns), w)
  /\ call' = [call EXCEPT ![c] = [op |-> "publish", ns |-> ns, worker |-> w, rank |-> r,
                                 seen |-> Owner(w)]]
  /\ UNCHANGED <<entry, now, raced>>

update_status(c, ns, w, r, s) ==
  /\ call[c] = None
  /\ UpdateAllowed(scope_namespace(ns), w)
  /\ call' = [call EXCEPT ![c] = [op |-> s, ns |-> ns, worker |-> w, rank |-> r,
                                 seen |-> Owner(w)]]
  /\ UNCHANGED <<entry, now, raced>>

Foreign(x) == Isolation /\ entry[x.worker] # None /\ Owner(x.worker) \notin {x.ns, x.seen}

\* InMemoryMetadataBackend::publish_metadata: status and time are the publisher's, which may
\* leave the time unset. The rank is replaced, the other ranks stay, the
\* entry's owner is the caller's. `by', the namespace of a
\* record's last write, is a history field.
WritePublication(c) ==
  /\ call[c] # None /\ call[c].op = "publish"
  /\ \E s \in Status, u \in {0, now} :
     LET x == call[c]
         record == [status |-> s, updated_at |-> u, by |-> x.ns]
         ranks == IF entry[x.worker] = None THEN {} ELSE DOMAIN entry[x.worker].ranks
     IN /\ entry' = [entry EXCEPT ![x.worker] =
              [ranks |-> [r \in ranks \cup {x.rank} |->
                           IF r = x.rank THEN record ELSE entry[x.worker].ranks[r]],
               index_rank |-> x.rank,
               owner |-> scope_namespace(x.ns)]]
        /\ raced' = (raced \/ Foreign(x))
  /\ call' = [call EXCEPT ![c] = None]
  /\ UNCHANGED now

\* InMemoryMetadataBackend::update_status; an unknown rank is an error.
WriteStatus(c) ==
  /\ call[c] # None /\ call[c].op \in Status
  /\ LET x == call[c]
     IN IF entry[x.worker] # None /\ x.rank \in DOMAIN entry[x.worker].ranks
        THEN /\ entry' = [entry EXCEPT ![x.worker].ranks[x.rank] =
                   [@ EXCEPT !.status = x.op, !.updated_at = now, !.by = x.ns]]
             /\ raced' = (raced \/ Foreign(x))
        ELSE UNCHANGED <<entry, raced>>
  /\ call' = [call EXCEPT ![c] = None]
  /\ UNCHANGED now

\* A backend failure, or a client that goes away.
CallFails(c) ==
  /\ call[c] # None
  /\ call' = [call EXCEPT ![c] = None]
  /\ UNCHANGED <<entry, now, raced>>

\* remove_worker, by the reaper.
remove_worker(w) ==
  /\ entry[w] # None
  /\ entry' = [entry EXCEPT ![w] = None]
  /\ UNCHANGED <<call, now, raced>>

remove_metadata ==
  /\ \E w \in Worker : entry[w] # None
  /\ entry' = [w \in Worker |-> None]
  /\ UNCHANGED <<call, now, raced>>

Tick == now < MaxTime /\ now' = now + 1 /\ UNCHANGED <<entry, call, raced>>

Next ==
  \/ \E c \in Call, ns \in Namespace, w \in Worker, r \in Rank :
       \/ publish_metadata(c, ns, w, r)
       \/ \E s \in Status : update_status(c, ns, w, r, s)
  \/ \E c \in Call : WritePublication(c) \/ WriteStatus(c) \/ CallFails(c)
  \/ \E w \in Worker : remove_worker(w)
  \/ remove_metadata
  \/ Tick

Spec == Init /\ [][Next]_vars

-----------------------------------------------------------------------------
(* Listings and lookups                                                    *)

Info(w) ==
  LET e == entry[w]
  IN [worker |-> w, rank |-> e.index_rank, owner |-> e.owner,
      updated_at |-> e.ranks[e.index_rank].updated_at]

\* A worker is listed under a status when any of its ranks has it.
list_workers(status) ==
  {Info(w) : w \in {w \in Worker :
     entry[w] # None /\ (status = None \/ \E r \in DOMAIN entry[w].ranks :
                                            entry[w].ranks[r].status = status)}}

Truncate(seq, limit) == IF limit = 0 \/ limit >= Len(seq) THEN seq ELSE SubSeq(seq, 1, limit)

Newest(S) == SetToSortSeq(S, LAMBDA a, b : a.updated_at > b.updated_at)

list_workers_filtered(status, rank, since, limit) ==
  Truncate(Newest({i \in list_workers(status) :
                     (rank = None \/ i.rank = rank) /\ i.updated_at >= since}), limit)

ready_source_is_fresh(i) == i.updated_at > 0 /\ now - i.updated_at <= Timeout

\* MUTANT of BackendLimit: the backend truncates before the scope is applied.
BackendLimitScoped(scope, limit) == limit

BackendLimit(scope, limit) == IF scope # None THEN 0 ELSE limit

list_sources(ns, status, rank, since, limit) ==
  LET scope == scope_namespace(ns)
      workers == list_workers_filtered(status, rank, since, BackendLimit(scope, limit))
      fresh == IF status = Ready THEN SelectSeq(workers, ready_source_is_fresh) ELSE workers
      Visible(i) == owner_in_scope(scope, i.owner)
  IN Truncate(SelectSeq(fresh, Visible), limit)

\* The lowest rank's record answers a lookup.
get_metadata(ns, w) ==
  IF entry[w] # None /\ owner_in_scope(scope_namespace(ns), Owner(w))
  THEN entry[w].ranks[CHOOSE r \in DOMAIN entry[w].ranks :
                        \A q \in DOMAIN entry[w].ranks : r <= q]
  ELSE None

-----------------------------------------------------------------------------

Listable(ns, status, rank, since) ==
  {i \in list_workers(status) :
     /\ rank = None \/ i.rank = rank
     /\ i.updated_at >= since
     /\ status = Ready => ready_source_is_fresh(i)
     /\ owner_in_scope(scope_namespace(ns), i.owner)}

\* ListSources with a limit answers with the most recently updated of the instances the caller
\* may see and asked for, all of them when they fit, newest first: neither the freshness filter
\* nor the scope, applied after the backend's truncation, costs the caller an instance.
ListingIsComplete ==
  \A ns \in Namespace, status \in Status \cup {None}, rank \in Rank \cup {None},
     since \in {0, now}, limit \in 0..1 :
    LET listed == list_sources(ns, status, rank, since, limit)
        S == Listable(ns, status, rank, since)
    IN /\ ToSet(listed) \subseteq S
       /\ Len(listed) = IF limit > 0 /\ limit < Cardinality(S) THEN limit ELSE Cardinality(S)
       /\ \A i \in DOMAIN listed : \A x \in S \ {listed[j] : j \in 1..i} :
            x.updated_at <= listed[i].updated_at

\* Under isolation a caller's lookups and listings return only what callers of its namespace
\* published or updated, over every interleaving of scoped writes, unless an entry changed hands between
\* the owner lookup of a write and the write.
ScopeHolds ==
  (Isolation /\ ~raced) =>
    \A ns \in Namespace, w \in Worker :
      /\ get_metadata(ns, w) # None => get_metadata(ns, w).by = ns
      /\ \A i \in ToSet(list_sources(ns, None, None, 0, 0)) :
           \A r \in DOMAIN entry[i.worker].ranks : entry[i.worker].ranks[r].by = ns
=============================================================================
