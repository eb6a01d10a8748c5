------------------------- MODULE MCHuggingFaceCache -------------------------
(***************************************************************************)
(* Instances of HuggingFaceCache for TLC.                                  *)
(***************************************************************************)
EXTENDS HuggingFaceCache

CONSTANTS c1, c2, main, d1, d2, e1, x, y, z

\* Both commits share one file, and the other differs.
Blobs == [c \in Commit |-> [f \in File |-> IF f = "config" THEN x ELSE IF c = c1 THEN y ELSE z]]
BranchAndPin == [d \in Download |-> IF d = d1 THEN main ELSE c2]
Older == [e \in Deletion |-> c1]
=============================================================================
