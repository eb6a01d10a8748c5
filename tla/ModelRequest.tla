----------------------------- MODULE ModelRequest -----------------------------
(***************************************************************************)
(* One model request of a client, from end to end                          *)
(* (request_model_with_smart_fallback_revision in modelexpress_client      *)
(* lib.rs, stream_model_files in the server's services.rs): connect within *)
(* a budget or download directly, follow the status stream, receive the    *)
(* files of the resolved revision chunk by chunk and install them.  On the *)
(* server the branch moves and files of the cache change, shrink or vanish *)
(* meanwhile.  What the download itself does is DownloadRegistry.          *)
(***************************************************************************)
EXTENDS Naturals, Sequences, FiniteSets

CONSTANTS
  File, Rev,
  SizeOf,      \* sizes of the files of each revision, in units of a chunk read
  Pinned,      \* the revision asked for, or None for the branch
  Selector,    \* the files a file_selector asks for, or None for all
  Shared,      \* shared_storage: the client reads the server's cache
  Chunk,       \* most units one read returns
  Capacity,    \* chunks on their way between server and client
  ConnectWait, \* connect_wait, in units of the first backoff
  Parses,      \* the endpoint parses
  Fault, MaxFaults,
  None

VARIABLES
  phase, elapsed, backoff, \* the client's progress and its connection budget
  head,      \* the revision the branch names at the provider
  disk,      \* the server's cache: sizes of the files of each revision
  resolved,  \* the revision the server reported
  srv,       \* the server's streaming task
  wire,      \* messages in flight
  recv,      \* the file being received
  local,     \* the client's cache
  ref,       \* the revision the client's cache knows the branch by
  listed,    \* history: the sizes the server listed when it opened the stream
  faults, budget

clientVars == <<phase, elapsed, backoff, resolved, recv, local, ref, listed>>
vars == <<clientVars, head, disk, srv, wire, faults, budget>>

WellFormed ==
  /\ None \notin Rev /\ None \notin File /\ None \notin Nat
  /\ SizeOf \in [Rev -> [File -> Nat]]
  /\ Pinned \in Rev \cup {None}
  /\ Selector = None \/ Selector \subseteq File
  /\ ConnectWait \in Nat /\ Chunk \in Nat \ {0}
  /\ Parses \in BOOLEAN /\ Shared \in BOOLEAN

NoFiles == [f \in File |-> None]
Idle == [rev |-> None, sizes |-> NoFiles, todo |-> {}, cur |-> None, offset |-> 0, first |-> TRUE]
NoFile == [file |-> None, expected |-> 0, written |-> 0, last |-> FALSE, final |-> FALSE, dir |-> None]
MinOf(a, b) == IF a < b THEN a ELSE b

Init ==
  /\ phase = "connect" /\ elapsed = 0 /\ backoff = 1
  /\ head \in Rev
  /\ disk = [r \in Rev |-> NoFiles]
  /\ resolved = None
  /\ srv = Idle /\ wire = <<>> /\ recv = NoFile
  /\ local = [r \in Rev |-> NoFiles] /\ ref = None /\ listed = NoFiles
  /\ faults = {} /\ budget = MaxFaults

Fail(k) == k \in Fault /\ budget > 0 /\ budget' = budget - 1 /\ faults' = faults \cup {k}
NoFault == UNCHANGED <<faults, budget>>
Without(K) == faults \cap K = {}

-----------------------------------------------------------------------------
(* The initial connection *)

Connect ==
  /\ phase = "connect" /\ Parses
  /\ phase' = "ensure" /\ elapsed' = 0 /\ backoff' = 1
  /\ UNCHANGED <<resolved, recv, local, ref, listed, head, disk, srv, wire, faults, budget>>

\* MUTANT of Retry: one failed attempt is enough.
RetryNever(now) == FALSE

\* A transport error is tried again while some of the budget is left.
Retry(now) == Parses /\ now < ConnectWait

\* A failed attempt takes no or one unit of time.  The sleep doubles up to two
\* seconds and never exceeds what is left of the budget.
ConnectFails == \E now \in {elapsed, elapsed + 1} :
  /\ phase = "connect"
  /\ IF Retry(now)
       THEN /\ elapsed' = now + MinOf(backoff, ConnectWait - now)
            /\ backoff' = MinOf(2 * backoff, 8)
            /\ UNCHANGED phase
       ELSE phase' = "direct" /\ elapsed' = now /\ UNCHANGED backoff
  /\ UNCHANGED <<resolved, recv, local, ref, listed, head, disk, srv, wire, faults, budget>>

\* The provider download that bypasses the server honours the revision.
DirectDownload ==
  /\ phase = "direct"
  /\ \/ LET r == IF Pinned = None THEN head ELSE Pinned IN
        /\ local' = [local EXCEPT ![r] = SizeOf[r]]
        /\ resolved' = r
        /\ phase' = "ok" /\ NoFault
     \/ Fail("provider") /\ phase' = "failed" /\ UNCHANGED <<local, resolved>>
  /\ UNCHANGED <<elapsed, backoff, recv, ref, listed, head, disk, srv, wire>>

(* request_model_on_server_revision: updates until a terminal one.         *)

\* MUTANT of Resolvable: a pinned request follows the branch.
ResolvableHead == {head}

\* resolve_target_revision: a pin stands for itself, the branch for its head, or
\* for some cached snapshot when the provider does not answer.
Resolvable == IF Pinned # None THEN {Pinned} ELSE {head}
Cached(r) == \E f \in File : disk[r][f] # None

EnsureResolves ==
  /\ phase = "ensure" /\ resolved = None
  /\ \/ \E r \in Resolvable : resolved' = r /\ UNCHANGED phase /\ NoFault
     \/ /\ Fail("provider")
        /\ \/ Pinned = None /\ \E r \in Rev : Cached(r) /\ resolved' = r /\ UNCHANGED phase
           \/ /\ Pinned # None \/ \A r \in Rev : ~Cached(r)
              /\ phase' = "failed" /\ UNCHANGED resolved
  /\ UNCHANGED <<elapsed, backoff, recv, local, ref, listed, head, disk, srv, wire>>

\* DOWNLOADED: the files of the resolved revision are in the server's cache.
EnsureDone ==
  /\ phase = "ensure" /\ resolved # None
  /\ \/ /\ disk' = [disk EXCEPT ![resolved] = SizeOf[resolved]]
        /\ phase' = (IF Shared THEN "ok" ELSE "open") /\ NoFault
     \/ Fail("ensure") /\ phase' = "failed" /\ UNCHANGED disk
  /\ UNCHANGED <<elapsed, backoff, resolved, recv, local, ref, listed, head, srv, wire>>

(* stream_model_files: the handler lists the files with their sizes, then a *)
(* task reads them.                                                         *)

\* collect_model_files: what is there now and selected.
collect_model_files(r) ==
  [f \in File |-> IF Selector = None \/ f \in Selector THEN disk[r][f] ELSE None]
ensure_selected_files_exist(sizes) == Selector # None => \A f \in Selector : sizes[f] # None

OpenStream == LET sizes == collect_model_files(resolved) IN
  /\ phase = "open"
  /\ IF Cached(resolved) /\ ensure_selected_files_exist(sizes) /\ sizes # NoFiles
       THEN /\ srv' = [Idle EXCEPT !.rev = resolved, !.sizes = sizes,
                                   !.todo = {f \in File : sizes[f] # None}]
            /\ phase' = "stream" /\ listed' = sizes
       ELSE phase' = "failed" /\ UNCHANGED <<srv, listed>>
  /\ UNCHANGED <<elapsed, backoff, resolved, recv, local, ref, head, disk, wire, faults, budget>>

Streaming == phase = "stream" /\ srv.rev # None
\* MUTANT of Send: the channel is unbounded.
SendUnbounded(m) == wire' = Append(wire, m)

Send(m) == Len(wire) < Capacity /\ wire' = Append(wire, m)
\* What a chunk of file f carries.
ChunkOf(f, n, last) ==
  [file |-> f, len |-> n, offset |-> srv.offset, total |-> srv.sizes[f], last |-> last,
   lastFile |-> last /\ srv.todo = {}, commit |-> IF srv.first THEN srv.rev ELSE None]
\* The task ends and its channel closes.
Hangup == [file |-> None, error |-> FALSE]
StreamError == [file |-> None, error |-> TRUE]

\* The next file of the listing is opened; an empty one is one chunk.
OpenFile(f) ==
  /\ Streaming /\ srv.cur = None /\ f \in srv.todo
  /\ IF disk[srv.rev][f] = None
       THEN Send(StreamError) /\ srv' = Idle
       ELSE IF srv.sizes[f] = 0
       THEN LET opened == [srv EXCEPT !.todo = @ \ {f}] IN
            /\ Send([file |-> f, len |-> 0, offset |-> 0, total |-> 0, last |-> TRUE,
                     lastFile |-> opened.todo = {}, commit |-> IF srv.first THEN srv.rev ELSE None])
            /\ srv' = [opened EXCEPT !.first = FALSE]
       ELSE srv' = [srv EXCEPT !.todo = @ \ {f}, !.cur = f, !.offset = 0] /\ UNCHANGED wire
  /\ UNCHANGED <<clientVars, head, disk, faults, budget>>

\* Units left to read of the open file; a deleted file stays readable.
Left(f) == LET size == IF disk[srv.rev][f] = None THEN srv.sizes[f] ELSE disk[srv.rev][f]
           IN  IF size > srv.offset THEN size - srv.offset ELSE 0

LastChunk(f, n) == srv.offset + n >= srv.sizes[f]

ReadChunk == LET f == srv.cur IN
  /\ Streaming /\ f # None
  /\ \/ /\ Left(f) > 0
        /\ \E n \in 1..MinOf(Chunk, Left(f)) :
             /\ Send(ChunkOf(f, n, LastChunk(f, n)))
             /\ srv' = [srv EXCEPT !.offset = @ + n, !.first = FALSE]
        /\ NoFault
     \/ Left(f) = 0 /\ srv' = [srv EXCEPT !.cur = None] /\ UNCHANGED wire /\ NoFault
     \/ Fail("read") /\ Send(StreamError) /\ srv' = Idle
  /\ UNCHANGED <<clientVars, head, disk>>

\* MUTANT of StreamEnds: the channel stays open after the last file.
StreamEndsOpen ==
  /\ Streaming /\ srv.cur = None /\ srv.todo = {}
  /\ srv' = Idle
  /\ UNCHANGED <<clientVars, wire, head, disk, faults, budget>>

StreamEnds ==
  /\ Streaming /\ srv.cur = None /\ srv.todo = {}
  /\ Send(Hangup) /\ srv' = Idle
  /\ UNCHANGED <<clientVars, head, disk, faults, budget>>

\* The connection or the server breaks: the stream ends with an error.
StreamBreaks ==
  /\ Streaming /\ Fail("break")
  /\ wire' = Append(wire, StreamError) /\ srv' = Idle
  /\ UNCHANGED <<clientVars, head, disk>>

(* stream_model_files_from_server: every chunk is checked before it counts. *)

Reject == phase' = "failed" /\ wire' = <<>> /\ srv' = Idle /\ UNCHANGED <<recv, local>>

\* MUTANT of NextFileOk: a file is closed whatever was received of it.
NextFileAnytime(m) == m.offset = 0

\* The previous file must be complete before another one starts, at offset 0.
NextFileOk(m) == (recv.file = None \/ (recv.last /\ recv.written = recv.expected)) /\ m.offset = 0

\* Offset and total continue what was written; last chunk and full size agree.
InSequence(m, cur) ==
  /\ ~cur.last /\ m.total = cur.expected
  /\ m.offset = cur.written /\ cur.written + m.len <= cur.expected
  /\ m.last <=> cur.written + m.len = cur.expected

Receive ==
  LET m == Head(wire)
      dir == IF recv.dir = None THEN m.commit ELSE recv.dir
      cur == IF recv.file = m.file THEN recv
             ELSE [NoFile EXCEPT !.file = m.file, !.expected = m.total, !.dir = dir]
  IN
  /\ phase = "stream" /\ wire # <<>> /\ m.file # None
  /\ \/ /\ recv.final \/ dir = None \/ m.offset > m.total
           \/ (recv.file # m.file /\ ~NextFileOk(m)) \/ ~InSequence(m, cur)
        /\ Reject /\ NoFault
     \/ /\ ~recv.final /\ dir # None /\ m.offset <= m.total
        /\ (recv.file # m.file => NextFileOk(m)) /\ InSequence(m, cur)
        /\ recv' = [cur EXCEPT !.written = @ + m.len, !.last = m.last,
                               !.final = m.lastFile /\ m.last, !.dir = dir]
        /\ local' = [local EXCEPT ![dir][m.file] = cur.written + m.len]
        /\ wire' = Tail(wire) /\ UNCHANGED <<phase, srv>> /\ NoFault
     \/ Fail("write") /\ Reject
  /\ UNCHANGED <<elapsed, backoff, resolved, ref, listed, head, disk>>

\* The end of the stream: the final marker must have been seen.  The branch's
\* ref is then recorded (finish_streamed_install), as best it can.
ReceiveEnd == LET done == ~Head(wire).error /\ recv.final /\ recv.last IN
  /\ phase = "stream" /\ wire # <<>> /\ Head(wire).file = None
  /\ phase' = IF done THEN "ok" ELSE "failed"
  /\ \/ ref' = (IF done /\ Pinned = None THEN resolved ELSE ref) /\ NoFault
     \/ done /\ Pinned = None /\ Fail("ref") /\ UNCHANGED ref
  /\ wire' = <<>>
  /\ UNCHANGED <<elapsed, backoff, resolved, recv, local, listed, head, disk, srv>>

-----------------------------------------------------------------------------
(* The provider and the server's cache move on. *)

BranchMoves == \E r \in Rev \ {head} :
  /\ Fail("branch") /\ head' = r
  /\ UNCHANGED <<clientVars, disk, srv, wire>>

\* Another download or a repair rewrites, empties or removes a cached file.
CacheChanges == \E r \in Rev, f \in File :
  /\ disk[r][f] # None
  /\ \/ Fail("cache") /\ \E s \in {None, 1, SizeOf[r][f] + 1} : disk' = [disk EXCEPT ![r][f] = s]
     \/ Fail("empty") /\ disk' = [disk EXCEPT ![r][f] = 0]
  /\ UNCHANGED <<clientVars, head, srv, wire>>

\* Another request downloads a revision into the server's cache.
OtherDownload == \E r \in Rev :
  /\ ~Cached(r) /\ phase = "connect" /\ Fail("other")
  /\ disk' = [disk EXCEPT ![r] = SizeOf[r]]
  /\ UNCHANGED <<clientVars, head, srv, wire>>

ClientStep ==
  \/ Connect \/ ConnectFails \/ DirectDownload \/ EnsureResolves \/ EnsureDone \/ OpenStream
  \/ Receive \/ ReceiveEnd
ServerStep == (\E f \in File : OpenFile(f)) \/ ReadChunk \/ StreamEnds

Next == ClientStep \/ ServerStep \/ StreamBreaks \/ BranchMoves \/ CacheChanges \/ OtherDownload

Spec == Init /\ [][Next]_vars

-----------------------------------------------------------------------------
TypeOK ==
  /\ phase \in {"connect", "direct", "ensure", "open", "stream", "ok", "failed"}
  /\ resolved \in Rev \cup {None}
  /\ srv.todo \subseteq File
  /\ Len(wire) <= Capacity + 1
  /\ \A r \in Rev, f \in File : local[r][f] = None \/ local[r][f] \in Nat

Wanted == IF Selector = None THEN File ELSE Selector

\* The files are in the client's own cache, not in the one it shares.
Installed == ~Shared \/ ~Parses \/ local[resolved] # NoFiles

\* A request that succeeds has installed every file it asked for of the revision
\* it returns, and nothing under another one: not where the branch has moved to
\* between the two calls, and not where it was when the request is pinned.  The
\* local ref names nothing that is not installed.
InstalledAsResolved ==
  /\ ref # None => phase = "ok"
  /\ phase = "ok" =>
    /\ resolved # None /\ (Pinned # None => resolved = Pinned)
    /\ \A r \in Rev \ {resolved} : local[r] = NoFiles
    /\ Without({"cache", "empty"}) =>
         \A f \in Wanted : (IF Installed THEN local ELSE disk)[resolved][f] = SizeOf[resolved][f]
    /\ ref \in {None, resolved}

\* Whatever happens to the server's files between the listing, the opening and
\* the reading, an installed file has the size that was listed: one that shrank,
\* grew or vanished never passes for a whole one.  A listed file is missing only
\* when it was emptied before its first byte was read: it then has no chunk, and
\* no marker is missing unless it is the last.
InstalledAsListed ==
  phase = "ok" /\ recv.dir # None =>
    \A f \in File : listed[f] # None =>
      \/ local[recv.dir][f] = listed[f]
      \/ local[recv.dir][f] = None /\ "empty" \in faults

\* Every file but the one being received is whole, so a request that fails
\* leaves at most one damaged file behind.
OneUnfinishedFile ==
  recv.dir # None =>
    \A f \in File \ {recv.file} : local[recv.dir][f] \in {None, listed[f]}

\* The server is bypassed only after the whole connection budget, within one
\* attempt of it, and never once a request has been sent to it.
BypassOnlyUnconnected ==
  phase = "direct" => /\ Parses => elapsed \in {ConnectWait, ConnectWait + 1}
                      /\ resolved = None /\ listed = NoFiles

\* The request ends: the stream neither blocks on its bounded channel nor waits
\* for a marker that cannot come.
Ended == phase \in {"ok", "failed"}
=============================================================================
