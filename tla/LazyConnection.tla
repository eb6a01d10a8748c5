--------------------------- MODULE LazyConnection ---------------------------
(***************************************************************************)
(* The connection of a state manager to its backend (p2p/state.rs,         *)
(* registry/state.rs): made at startup by connect, and by the first caller *)
(* that finds none, under a read-write lock whose guard is held across the *)
(* attempt. A caller may be dropped at any await.                          *)
(***************************************************************************)
EXTENDS Naturals

CONSTANTS
  Caller,      \* requests and background tasks
  Starter,     \* the callers of connect
  Recheck,     \* connect looks again under the write lock (the registry's; not the P2P one's)
  MaxFailures, \* bound: attempts that fail
  None

VARIABLES
  backend,  \* the connected backend, a number
  lock,     \* who holds the write guard
  pc,       \* where each caller is
  got,      \* the backend a caller was handed
  built,    \* backends connected so far
  failures

vars == <<backend, lock, pc, got, built, failures>>

Actor == Caller \cup Starter

Init ==
  /\ backend = None /\ lock = None
  /\ pc = [a \in Actor |-> "start"]
  /\ got = [a \in Actor |-> None]
  /\ built = 0 /\ failures = 0

Goto(a, label) == pc' = [pc EXCEPT ![a] = label]
Return(a, b) == got' = [got EXCEPT ![a] = b] /\ Goto(a, "done")

\* The P2P manager's connect builds first and locks afterwards.
Eager(a) == a \in Starter /\ ~Recheck

\* The read guard.
TryRead(a) ==
  /\ pc[a] = "start" /\ ~Eager(a) /\ lock = None
  /\ IF backend # None THEN Return(a, backend) ELSE Goto(a, "write") /\ UNCHANGED got
  /\ UNCHANGED <<backend, lock, built, failures>>

Acquire(a) ==
  /\ pc[a] = "write" /\ lock = None
  /\ lock' = a /\ Goto(a, "check")
  /\ UNCHANGED <<backend, got, built, failures>>

\* MUTANT of CheckAgain: the guard is taken for proof that nobody connected.
CheckNever(a) ==
  /\ pc[a] = "check"
  /\ Goto(a, "build") /\ UNCHANGED <<lock, got>>
  /\ UNCHANGED <<backend, built, failures>>

\* Someone may have connected between the two guards.
CheckAgain(a) ==
  /\ pc[a] = "check"
  /\ IF backend # None THEN Return(a, backend) /\ lock' = None
     ELSE Goto(a, "build") /\ UNCHANGED <<lock, got>>
  /\ UNCHANGED <<backend, built, failures>>

\* build_backend under the guard.
Build(a) ==
  /\ pc[a] = "build" /\ lock = a
  /\ built' = built + 1 /\ backend' = built'
  /\ Return(a, built') /\ lock' = None
  /\ UNCHANGED failures

BuildFails(a) ==
  /\ pc[a] = "build" /\ failures < MaxFailures
  /\ failures' = failures + 1
  /\ Goto(a, "failed") /\ lock' = IF lock = a THEN None ELSE lock
  /\ UNCHANGED <<backend, got, built>>

\* P2pStateManager::connect: built without the guard, then put in place whatever is there.
BuildEager(a) ==
  /\ pc[a] = "start" /\ Eager(a)
  /\ \/ built' = built + 1 /\ got' = [got EXCEPT ![a] = built'] /\ Goto(a, "put")
        /\ UNCHANGED failures
     \/ failures < MaxFailures /\ failures' = failures + 1 /\ Goto(a, "failed")
        /\ UNCHANGED <<got, built>>
  /\ UNCHANGED <<backend, lock>>

PutEager(a) ==
  /\ pc[a] = "put" /\ lock = None
  /\ backend' = got[a] /\ Goto(a, "done")
  /\ UNCHANGED <<lock, got, built, failures>>

\* A dropped caller drops its guard.
Cancel(a) ==
  /\ a \in Caller /\ pc[a] \in {"start", "write", "check", "build"}
  /\ Goto(a, "cancelled") /\ lock' = IF lock = a THEN None ELSE lock
  /\ UNCHANGED <<backend, got, built, failures>>

\* run_server connects before it serves, and goes no further when that fails.
Served(a) == a \in Starter \/ \A s \in Starter : pc[s] = "done"

Step(a) ==
  \/ TryRead(a) \/ Acquire(a) \/ CheckAgain(a) \/ Build(a) \/ BuildFails(a)
  \/ BuildEager(a) \/ PutEager(a)

FairStep(a) == a \in Actor /\ Served(a) /\ Step(a)

Next == \E a \in Actor : FairStep(a) \/ (Served(a) /\ Cancel(a))

\* Everyone takes the write guard at most once, so that weak fairness is enough to get it.
Fairness == \A a \in Actor : WF_vars(FairStep(a))

Spec == Init /\ [][Next]_vars /\ Fairness

\* What the constants are: run_server calls the P2P manager's connect once.
WellFormed ==
  /\ None \notin Actor /\ None \notin Nat /\ Caller \cap Starter = {}
  /\ Recheck \/ \A s, t \in Starter : s = t

-----------------------------------------------------------------------------

\* Every caller of a state manager works on the same backend, and no second connection is made
\* beside it: for the in-memory backend a second one would be a second, empty store.
OneBackend ==
  /\ \A a, b \in Actor : got[a] # None /\ got[b] # None => got[a] = got[b]
  /\ built <= 1

\* No caller waits for ever, whoever fails or is dropped while holding the guard.
Settled(a) == pc[a] \in {"done", "failed", "cancelled"}
=============================================================================
