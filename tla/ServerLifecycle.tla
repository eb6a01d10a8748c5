--------------------------- MODULE ServerLifecycle ---------------------------
(***************************************************************************)
(* One call of run_server (server.rs): the steps of the startup, any of    *)
(* which may fail, the background tasks, the gRPC server and the metrics   *)
(* listener, and how each of them is stopped on every way out.             *)
(***************************************************************************)
EXTENDS Naturals, Sequences, FiniteSets

CONSTANTS
  Eviction,  \* config.cache.eviction.enabled
  Metrics    \* a metrics address is configured

VARIABLES
  main,      \* where run_server is: a step of Startup, or a later phase
  failed,    \* it is returning an error
  ready,     \* the steps done
  task,      \* the background tasks
  sender,    \* the shutdown channel of each task
  late,      \* a task began a cycle after its signal
  shutdown,  \* the caller's trigger has fired
  calls,     \* gRPC calls are in progress
  listener,  \* the metrics listener
  stuck      \* a scraper holds a half-written request open

vars == <<main, failed, ready, task, sender, late, shutdown, calls, listener, stuck>>

\* The steps of run_server in order; the metrics listener is spawned before them.
Startup == <<"tls", "registry", "cache", "refit", "collective", "p2p", "reaper", "stats", "auth", "bind">>
Task == {"cache", "reaper", "stats"}
Phase == {"serving", "draining", "joining", "metrics", "returned"}

Position == CHOOSE i \in DOMAIN Startup : Startup[i] = main
Following == IF Position = Len(Startup) THEN "serving" ELSE Startup[Position + 1]

Init ==
  /\ main = Startup[1] /\ failed = FALSE /\ ready = {}
  /\ task = [t \in Task |-> "off"]
  /\ sender = [t \in Task |-> "held"]
  /\ late = [t \in Task |-> FALSE]
  /\ shutdown = FALSE /\ calls = FALSE /\ stuck = FALSE
  /\ listener \in IF Metrics THEN {"up", "unbound"} ELSE {"off"}

Starts(t) == t # "cache" \/ Eviction

\* A step succeeds. A spawned task runs from here on.
StartStep ==
  /\ main \notin Phase
  /\ ready' = ready \cup {main}
  /\ task' = IF main \in Task /\ Starts(main) THEN [task EXCEPT ![main] = "idle"] ELSE task
  /\ main' = Following
  /\ UNCHANGED <<failed, sender, late, shutdown, calls, listener, stuck>>

\* Dropping a sender resolves its receiver as a signal does.
DropSenders == sender' = [t \in Task |-> "gone"]

\* MUTANT of ServeFails: the senders outlive the shutdown future.
ServeFailsHolding ==
  /\ main = "bind"
  /\ failed' = TRUE /\ main' = "joining"
  /\ UNCHANGED <<ready, task, sender, late, shutdown, calls, listener, stuck>>

\* serve cannot bind: the shutdown future is dropped with it, and the tasks are joined.
ServeFails ==
  /\ main = "bind"
  /\ failed' = TRUE /\ main' = "joining"
  /\ DropSenders
  /\ UNCHANGED <<ready, task, late, shutdown, calls, listener, stuck>>

\* An earlier step fails or times out: run_server returns, dropping the senders, detaching the
\* tasks and aborting the listener (MetricsListener::drop).
StartFails ==
  /\ main \in {"tls", "registry", "refit", "collective", "p2p", "auth"}
  /\ failed' = TRUE /\ main' = "returned"
  /\ DropSenders
  /\ listener' = IF listener = "up" THEN "stopped" ELSE listener
  /\ UNCHANGED <<ready, task, late, shutdown, calls, stuck>>

Trigger == ~shutdown /\ shutdown' = TRUE
  /\ UNCHANGED <<main, failed, ready, task, sender, late, calls, listener, stuck>>

Call == main = "serving" /\ calls' = TRUE
  /\ UNCHANGED <<main, failed, ready, task, sender, late, shutdown, listener, stuck>>
CallEnds == calls /\ calls' = FALSE
  /\ UNCHANGED <<main, failed, ready, task, sender, late, shutdown, listener, stuck>>

\* MUTANT of shutdown_signal: the listener is signalled with the tasks.
shutdown_signal_all ==
  /\ main = "serving" /\ shutdown
  /\ DropSenders /\ main' = "draining"
  /\ listener' = IF listener = "up" THEN "stopping" ELSE listener
  /\ UNCHANGED <<failed, ready, task, late, shutdown, calls, stuck>>

shutdown_signal ==
  /\ main = "serving" /\ shutdown
  /\ DropSenders /\ main' = "draining"
  /\ UNCHANGED <<failed, ready, task, late, shutdown, calls, listener, stuck>>

Drained ==
  /\ main = "draining" /\ ~calls
  /\ main' = "joining"
  /\ UNCHANGED <<failed, ready, task, sender, late, shutdown, calls, listener, stuck>>

\* Every task is awaited, then the listener is told to stop.
Joined ==
  /\ main = "joining" /\ \A t \in Task : task[t] \in {"off", "ended"}
  /\ main' = "metrics"
  /\ listener' = IF listener = "up" THEN "stopping" ELSE listener
  /\ UNCHANGED <<failed, ready, task, sender, late, shutdown, calls, stuck>>

\* The listener drains, or is aborted at METRICS_DRAIN_TIMEOUT.
ListenerStops ==
  /\ main = "metrics"
  /\ listener' = IF listener = "stopping" THEN "stopped" ELSE listener
  /\ stuck' = FALSE /\ main' = "returned"
  /\ UNCHANGED <<failed, ready, task, sender, late, shutdown, calls>>

Scrape ==
  /\ listener \in {"up", "stopping"} /\ ~stuck /\ main \notin {"metrics", "returned"}
  /\ stuck' = TRUE
  /\ UNCHANGED <<main, failed, ready, task, sender, late, shutdown, calls, listener>>

\* A tick of the interval. With a signal waiting as well, select! picks either; `late' bounds
\* how often it picks the tick.
CycleBegins(t) ==
  /\ task[t] = "idle" /\ ~late[t]
  /\ task' = [task EXCEPT ![t] = "busy"]
  /\ late' = [late EXCEPT ![t] = sender[t] = "gone"]
  /\ UNCHANGED <<main, failed, ready, sender, shutdown, calls, listener, stuck>>

\* A failed cycle is logged and the loop goes on.
CycleEnds(t) ==
  /\ task[t] = "busy" /\ task' = [task EXCEPT ![t] = "idle"]
  /\ UNCHANGED <<main, failed, ready, sender, late, shutdown, calls, listener, stuck>>

TaskStops(t) ==
  /\ task[t] = "idle" /\ sender[t] = "gone"
  /\ task' = [task EXCEPT ![t] = "ended"]
  /\ UNCHANGED <<main, failed, ready, sender, late, shutdown, calls, listener, stuck>>

MainStep ==
  \/ StartStep \/ ServeFails \/ StartFails \/ shutdown_signal \/ Drained \/ Joined
  \/ ListenerStops \/ (main = "draining" /\ CallEnds)
TaskStep(t) == CycleEnds(t) \/ TaskStops(t)

Next == MainStep \/ Trigger \/ Call \/ CallEnds \/ Scrape
        \/ \E t \in Task : CycleBegins(t) \/ TaskStep(t)

\* A call that is in progress when the drain begins comes to its end.
Spec == Init /\ [][Next]_vars /\ WF_vars(MainStep) /\ \A t \in Task : WF_vars(TaskStep(t))

-----------------------------------------------------------------------------

\* Calls are served only with every backend connected, every task running and the caller
\* check built, whatever the order of failures; the drain and the joins are scrapeable: the
\* listener that came up stays up until both are over; and no listener outlives run_server.
ServedInOrder ==
  /\ main = "serving" \/ calls => ready = {Startup[i] : i \in DOMAIN Startup}
  /\ main \in {"serving", "draining", "joining"} => listener \in {"up", "unbound", "off"}
  /\ main = "returned" => listener \notin {"up", "stopping"} /\ ~calls

\* run_server returns once its trigger fired, and no task it started keeps running after it,
\* whichever step failed.
ShutDown == shutdown
Returned == main = "returned"
TasksEnded == \A t \in Task : task[t] \in {"off", "ended"}
=============================================================================
