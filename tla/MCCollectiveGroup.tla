-------------------------- MODULE MCCollectiveGroup --------------------------
(* Small instances of CollectiveGroup for TLC.                             *)
EXTENDS CollectiveGroup, TLC

CONSTANTS a1, a2, b1, b2,   \* two process generations each of a trainer and a generator
          t0, g0, l1, l2, d1, d2, i1, i2, o1, o2, k1, k2

Trainer0 == [role |-> "TRAINER", index |-> 0]
Generator(n) == [role |-> "GENERATOR", index |-> n]

Join(s, w, r, d, p) == [slot |-> s, worker |-> w, rank |-> r, digest |-> d, source |-> p]

\* Every process asks for the slot and rank it was configured with.
CorrectJoins ==
  {j \in {Join(t0, a1, Trainer0, d1, TRUE), Join(t0, a2, Trainer0, d1, FALSE),
          Join(g0, b1, Generator(0), d1, FALSE), Join(g0, b2, Generator(0), d1, FALSE)} :
     j.worker \in Worker}
ReplaceSymmetry == Permutations({b1, b2}) \cup Permutations({o1, o2})

\* The replacement b2 may be configured with a rank its slot does not have.
MisassignedJoins == CorrectJoins \cup {Join(g0, b2, Generator(1), d1, FALSE)}

\* A trainer whose plan changes and who then no longer serves it, and a generator
\* that asks for one rank and then for another.
PlanJoins == {Join(t0, a1, Trainer0, d1, TRUE), Join(t0, a1, Trainer0, d2, FALSE),
              Join(g0, b1, Generator(0), d1, FALSE), Join(g0, b1, Generator(1), d1, FALSE)}
ConflictSymmetry == Permutations({o1, o2})

\* One lane led by the trainer.
OneLane == [l \in Lane |-> t0]
=============================================================================
