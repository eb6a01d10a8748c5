----------------------------- MODULE TlsListener -----------------------------
(***************************************************************************)
(* The TLS listener (tls.rs): an accept loop that takes a permit for each  *)
(* connection, a task per handshake that hands the negotiated connection   *)
(* to the server through a bounded channel, and the rate-limited reports   *)
(* of failed handshakes.                                                   *)
(***************************************************************************)
EXTENDS Naturals, Sequences, FiniteSets, SequencesExt

CONSTANTS
  Conn,                      \* connections of clients
  MAX_CONCURRENT_HANDSHAKES, \* permits
  ACCEPT_BACKLOG,            \* the channel's capacity
  MaxReports,                \* bound: intervals in which a failure is logged
  None

VARIABLES
  loop,       \* the accept loop: "accept", "permit" or "ended"
  held,       \* the connection accepted and waiting for a permit
  conn,       \* what has become of each connection
  channel,    \* negotiated connections for the server
  open,       \* the server still takes connections
  window,     \* FailureWindow
  logged      \* failures reported so far

vars == <<loop, held, conn, channel, open, window, logged>>

Init ==
  /\ loop = "accept" /\ held = None
  /\ conn = [c \in Conn |-> "new"]
  /\ channel = <<>> /\ open = TRUE
  /\ window = [recent |-> FALSE, suppressed |-> 0, reports |-> 0]
  /\ logged = 0

Becomes(c, what) == conn' = [conn EXCEPT ![c] = what]
Permits == MAX_CONCURRENT_HANDSHAKES - Cardinality({c \in Conn : conn[c] \in {"handshake", "send"}})

Accept(c) ==
  /\ loop = "accept" /\ conn[c] = "new"
  /\ held' = c /\ loop' = "permit" /\ Becomes(c, "held")
  /\ UNCHANGED <<channel, open, window, logged>>

\* A permit is held to the end of the handshake's task.
SpawnHandshake ==
  /\ loop = "permit" /\ Permits > 0
  /\ Becomes(held, "handshake")
  /\ loop' = "accept" /\ held' = None
  /\ UNCHANGED <<channel, open, window, logged>>

\* The loop waits for the channel to be closed only beside accept.
LoopEnds ==
  /\ loop = "accept" /\ ~open
  /\ loop' = "ended"
  /\ UNCHANGED <<held, conn, channel, open, window, logged>>

Negotiated(c) ==
  /\ conn[c] = "handshake"
  /\ Becomes(c, "send")
  /\ UNCHANGED <<loop, held, channel, open, window, logged>>

\* A probe that closes before it sends anything is no failure.
Probe(c) ==
  /\ conn[c] = "handshake"
  /\ Becomes(c, "closed")
  /\ UNCHANGED <<loop, held, channel, open, window, logged>>

\* MUTANT of admit: a report forgets to say what it stands for.
admit_dropping ==
  IF window.recent
  THEN window' = [window EXCEPT !.suppressed = @ + 1] /\ UNCHANGED logged
  ELSE /\ window.reports < MaxReports
       /\ window' = [recent |-> TRUE, suppressed |-> 0, reports |-> window.reports + 1]
       /\ logged' = logged + 1

\* HandshakeFailures::admit: one report per interval, with the count in between.
admit ==
  IF window.recent
  THEN window' = [window EXCEPT !.suppressed = @ + 1] /\ UNCHANGED logged
  ELSE /\ window.reports < MaxReports
       /\ window' = [recent |-> TRUE, suppressed |-> 0, reports |-> window.reports + 1]
       /\ logged' = logged + 1 + window.suppressed

\* A handshake fails, or reaches HANDSHAKE_TIMEOUT.
HandshakeFails(c) ==
  /\ conn[c] = "handshake"
  /\ Becomes(c, "failed")
  /\ admit
  /\ UNCHANGED <<loop, held, channel, open>>

\* HANDSHAKE_FAILURE_LOG_INTERVAL passes.
IntervalPasses ==
  /\ window.recent /\ window.reports < MaxReports
  /\ window' = [window EXCEPT !.recent = FALSE]
  /\ UNCHANGED <<loop, held, conn, channel, open, logged>>

\* MUTANT of Send: the server's end of the channel is not looked at.
SendBlind(c) ==
  /\ conn[c] = "send" /\ Len(channel) < ACCEPT_BACKLOG
  /\ channel' = Append(channel, c) /\ Becomes(c, "queued")
  /\ UNCHANGED <<loop, held, open, window, logged>>

\* The channel takes the connection, or refuses it when the server is gone.
Send(c) ==
  /\ conn[c] = "send"
  /\ IF ~open THEN Becomes(c, "closed") /\ UNCHANGED channel
     ELSE /\ Len(channel) < ACCEPT_BACKLOG
          /\ channel' = Append(channel, c) /\ Becomes(c, "queued")
  /\ UNCHANGED <<loop, held, open, window, logged>>

\* External: tonic takes the next connection, and drops the stream when it shuts down.
ServerTakes ==
  /\ open /\ channel # <<>>
  /\ Becomes(Head(channel), "served") /\ channel' = Tail(channel)
  /\ UNCHANGED <<loop, held, open, window, logged>>
ServerStops ==
  /\ open /\ open' = FALSE
  /\ conn' = [c \in Conn |-> IF conn[c] = "queued" THEN "closed" ELSE conn[c]]
  /\ channel' = <<>>
  /\ UNCHANGED <<loop, held, window, logged>>

\* The handshake's own end: it is bounded by the timeout.
HandshakeStep(c) == Negotiated(c) \/ Probe(c) \/ HandshakeFails(c) \/ Send(c)
LoopStep == SpawnHandshake \/ LoopEnds \/ \E c \in Conn : Accept(c)

Next ==
  \/ LoopStep \/ IntervalPasses \/ ServerTakes \/ ServerStops
  \/ \E c \in Conn : HandshakeStep(c)

\* A server that is up takes its connections.
Spec == Init /\ [][Next]_vars /\ WF_vars(LoopStep) /\ WF_vars(ServerTakes)
        /\ \A c \in Conn : WF_vars(HandshakeStep(c))

-----------------------------------------------------------------------------

\* Every failed handshake is in a report or in the count of the next one; no more connections
\* than permits are between acceptance and the server; and none is lost on the way: a
\* connection the server did not get is closed, failed or still on its way.
FailuresAreReported ==
  /\ logged + window.suppressed = Cardinality({c \in Conn : conn[c] = "failed"})
  /\ Permits >= 0 /\ Len(channel) <= ACCEPT_BACKLOG
  /\ ToSet(channel) = {c \in Conn : conn[c] = "queued"}

\* Once the server stops, the accept loop and every handshake end, even when the loop was
\* waiting for a permit and the permits for room in the channel; before that, every accepted
\* connection is served or closed.
Stopped == ~open
LoopEnded == loop = "ended"
Accepted(c) == conn[c] = "held"
Over(c) == conn[c] \in {"served", "closed", "failed"}
=============================================================================
