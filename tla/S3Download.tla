------------------------------ MODULE S3Download ------------------------------
(***************************************************************************)
(* Metadata downloads from S3 (modelexpress_common providers/s3.rs): the   *)
(* objects below a prefix are written in place one after the other, and an *)
(* empty marker file tells a finished model from an unfinished one.        *)
(* Nothing locks the directory, and the listing is recursive: the objects  *)
(* of a model are also objects of every model above it.                    *)
(***************************************************************************)
EXTENDS Naturals, Sequences

CONSTANTS
  Model, Below,     \* models, and pairs <<a, b>>: b's prefix lies below a's
  File, Object,     \* files, and the objects below each prefix, in listing order
  Size, Download, ModelOf, Deletion, Removes,
  Fault, MaxFaults, None

VARIABLES
  data,     \* the units of each file that have been written, or None
  marker,   \* models with a marker
  dirs,     \* models whose directory exists
  dl,       \* with the history "torn": since it began, another download opened or a
            \* deletion removed a file of its model
  removed, faults, budget

vars == <<data, marker, dirs, dl, removed, faults, budget>>

Key(m) == {Object[m][i] : i \in DOMAIN Object[m]}
Holding(f) == {m \in Model : f \in Key(m)}

Init ==
  /\ data = [f \in File |-> None]
  /\ marker = {} /\ dirs = {}
  /\ dl = [d \in Download |-> [pc |-> "list", next |-> 1, at |-> 0, open |-> FALSE, torn |-> FALSE]]
  /\ removed = [e \in Deletion |-> FALSE]
  /\ faults = {} /\ budget = MaxFaults

Fail(k) == k \in Fault /\ budget > 0 /\ budget' = budget - 1 /\ faults' = faults \cup {k}
NoFault == UNCHANGED <<faults, budget>>
Failed(d) == dl' = [dl EXCEPT ![d].pc = "failed"]
Begun(d) == dl[d].pc # "list" \/ dl[d].next > 1

\* download_object: the directories are made, and the file is truncated before
\* its first unit arrives, whichever model it was downloaded for before.
OpenObject(d) == LET f == Object[ModelOf[d]][dl[d].next] IN
  /\ dl[d].pc = "list" /\ dl[d].next <= Len(Object[ModelOf[d]])
  /\ \/ /\ data' = [data EXCEPT ![f] = {}]
        /\ dirs' = dirs \cup Holding(f)
        /\ dl' = [x \in Download |->
             IF x = d THEN [dl[d] EXCEPT !.pc = "write", !.at = 0, !.open = TRUE]
             ELSE [dl[x] EXCEPT !.torn = @ \/ (Begun(x) /\ ModelOf[x] \in Holding(f))]]
        /\ NoFault
     \/ Fail("network") /\ Failed(d) /\ dirs' \in {dirs, dirs \cup Holding(f)} /\ UNCHANGED data
  /\ UNCHANGED <<marker, removed>>

WriteUnit(d) == LET f == Object[ModelOf[d]][dl[d].next] IN
  /\ dl[d].pc = "write"
  /\ \/ /\ dl[d].at < Size
        /\ data' = [data EXCEPT ![f] = IF dl[d].open THEN @ \cup {dl[d].at + 1} ELSE @]
        /\ dl' = [dl EXCEPT ![d].at = @ + 1]
        /\ NoFault
     \/ /\ dl[d].at = Size
        /\ dl' = [dl EXCEPT ![d].pc = "list", ![d].next = @ + 1, ![d].open = FALSE]
        /\ NoFault /\ UNCHANGED data
     \/ Fail("network") /\ Failed(d) /\ UNCHANGED data
  /\ UNCHANGED <<marker, dirs, removed>>

\* MUTANT of WriteMarker: the marker is written with the first object.
WriteMarkerEarly(d) ==
  /\ dl[d].pc = "list" /\ dl[d].next > 1
  /\ marker' = marker \cup {ModelOf[d]}
  /\ dl' = [dl EXCEPT ![d].pc = "ok"]
  /\ UNCHANGED <<data, dirs, removed, faults, budget>>

\* The listing is exhausted.  A model without objects is an error, and so is
\* a marker for a directory that was deleted meanwhile.
WriteMarker(d) == LET m == ModelOf[d] IN
  /\ dl[d].pc = "list" /\ dl[d].next > Len(Object[m])
  /\ IF Len(Object[m]) = 0 \/ m \notin dirs THEN Failed(d) /\ UNCHANGED marker
     ELSE marker' = marker \cup {m} /\ dl' = [dl EXCEPT ![d].pc = "ok"]
  /\ UNCHANGED <<data, dirs, removed, faults, budget>>

\* delete_model and clear_model: the directory with everything below it.  A
\* file being written keeps its writer but has lost its name.
DeleteModel(e) == LET m == Removes[e] gone == {n \in Model : n = m \/ <<m, n>> \in Below} IN
  /\ ~removed[e]
  /\ removed' = [removed EXCEPT ![e] = TRUE]
  /\ data' = [f \in File |-> IF f \in Key(m) THEN None ELSE data[f]]
  /\ marker' = marker \ gone
  /\ dirs' = dirs \ gone
  /\ dl' = [d \in Download |->
       [dl[d] EXCEPT !.open = @ /\ Object[ModelOf[d]][dl[d].next] \notin Key(m),
                     !.torn = @ \/ (Begun(d) /\ Key(ModelOf[d]) \cap Key(m) # {})]]
  /\ UNCHANGED <<faults, budget>>

DownloadStep(d) == OpenObject(d) \/ WriteUnit(d) \/ WriteMarker(d)

Next ==
  \/ \E d \in Download : DownloadStep(d)
  \/ \E e \in Deletion : DeleteModel(e)

Spec == Init /\ [][Next]_vars

\* What the constants are: the keys below a prefix are distinct, those below a
\* lower prefix are among them, and every download and deletion is of a model.
WellFormed ==
  /\ Size \in Nat
  /\ ModelOf \in [Download -> Model] /\ Removes \in [Deletion -> Model]
  /\ \A m \in Model : /\ Object[m] \in Seq(File)
                       /\ \A i, j \in DOMAIN Object[m] : Object[m][i] = Object[m][j] => i = j
  /\ \A p \in Below : Key(p[2]) \subseteq Key(p[1])

-----------------------------------------------------------------------------
\* get_model_path and list_models go by the marker.  The one that a successful
\* download has set stands for a whole model, as long as no other download, of
\* the same model or of one above or below it, has opened a file of it since the
\* first one began, and no deletion has removed one.  Broken-off downloads that
\* came before, and their files, do not matter.
InstalledWhole ==
  \A d \in Download : dl[d].pc = "ok" /\ ~dl[d].torn =>
    ModelOf[d] \in marker /\ \A f \in Key(ModelOf[d]) : data[f] = 1..Size
=============================================================================
