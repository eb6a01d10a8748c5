--------------------------- MODULE SourceIdentity ---------------------------
(***************************************************************************)
(* How an mx_source_id is computed from a source's identity                *)
(* (p2p/source_identity.rs). The extra parameters come out of a hash map   *)
(* in any order. A string is a pair of its lower-case letters and its      *)
(* case, the letters a natural in alphabetical order with 0 for the empty  *)
(* string; byte order puts upper case first. Of the identity's fields that *)
(* are only folded, one that is always in the payload would be an optional *)
(* one that is always set, and the numeric ones are copied.                *)
(***************************************************************************)
EXTENDS Naturals, Sequences, FiniteSets, Functions, SequencesExt

CONSTANTS
  Key, Value, \* of extra parameters
  Version,    \* values of an optional field, the empty string among them
  MaxExtra    \* bound: extra parameters

VARIABLES one, other  \* two identities, each with the order its parameters are visited in

vars == <<one, other>>

lower(s) == <<s[1], "lower">>

\* Byte order on one-letter strings.
Before(s, t) == (s[2] = "upper" /\ t[2] = "lower") \/ (s[2] = t[2] /\ s[1] < t[1])

Params == UNION {[K -> Value] : K \in {K \in SUBSET Key : Cardinality(K) <= MaxExtra}}

Identity == [torch_version : Version, extra : Params]

\* A visit of a map: its keys in some order.
Visits(id) == {[id |-> id, order |-> o] : o \in SetToSeqs(DOMAIN id.extra)}

Init == \E a, b \in Identity : one \in Visits(a) /\ other \in Visits(b)

Next == UNCHANGED vars

Spec == Init /\ [][Next]_vars

\* MUTANT of VisitOrder: the map's own order.
VisitOrderUnsorted(v) == v.order

VisitOrder(v) == SetToSortSeq(DOMAIN v.id.extra, Before)

\* The first value seen of keys that differ in case only.
sorted_extra(v) ==
  LET items == VisitOrder(v)
      Keys == {lower(k) : k \in DOMAIN v.id.extra}
      First(l) == items[CHOOSE i \in DOMAIN items :
                          lower(items[i]) = l /\ \A j \in 1..(i - 1) : lower(items[j]) # l]
  IN [l \in Keys |-> lower(v.id.extra[First(l)])]

\* An optional field is in the payload only when it is set.
insert_non_empty_lowercase(value) == IF value[1] = 0 THEN {} ELSE {lower(value)}

canonical_json(v) ==
  [extra_parameters |-> sorted_extra(v),
   torch_version |-> insert_non_empty_lowercase(v.id.torch_version)]

\* SHA-256 is taken as injective.
compute_mx_source_id(v) == canonical_json(v)

\* What the publishers of one source must agree on.
Folded(id) ==
  [torch |-> id.torch_version[1],
   extra |-> {<<k[1], id.extra[k][1]>> : k \in DOMAIN id.extra}]
NoCollision(id) == \A k, l \in DOMAIN id.extra : k[1] = l[1] => k = l

\* Two publishers get the same id exactly when their identities agree up to case, and one
\* identity has one id whatever order its parameters are visited in, keys that collide when
\* folded included.
SameSourceSameId ==
  /\ one.id = other.id => compute_mx_source_id(one) = compute_mx_source_id(other)
  /\ NoCollision(one.id) /\ NoCollision(other.id) =>
       (compute_mx_source_id(one) = compute_mx_source_id(other) <=> Folded(one.id) = Folded(other.id))
=============================================================================
