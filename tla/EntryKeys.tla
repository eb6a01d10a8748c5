------------------------------ MODULE EntryKeys ------------------------------
(***************************************************************************)
(* The registry keys of modelexpress_server/src/registry/entry_key.rs: how  *)
(* a tenant, a model, a revision and a weight mode are written as one       *)
(* string and read back, and the registry that is keyed by them.            *)
(*                                                                         *)
(* A string is the sequence of its fields between colons, so that strip_    *)
(* prefix("mx1:") asks for a first field "mx1" with another one after it,   *)
(* splitn(n, ':') leaves the fields from the n-th on together, and joining  *)
(* is concatenation.                                                        *)
(***************************************************************************)
EXTENDS Naturals, Sequences, FiniteSets

CONSTANTS
  None,
  Name,       \* model names, sequences of fields
  Label,      \* the fields that are DNS-1123 labels
  Tenant,     \* tenants, fields of Label
  Revision,   \* revisions that passed validate_revision: one field, no colon
  MaxRecords  \* bound on the records at one time

VARIABLES
  registry,   \* the keys of the registry
  entries     \* the entries that were written and not cleared

vars == <<registry, entries>>

EntryKey ==
  [tenant : Tenant \cup {None}, model_name : Name, revision : Revision \cup {None},
   metadata_only : BOOLEAN]

New(name, revision, metadata) ==
  [tenant |-> None, model_name |-> name, revision |-> revision, metadata_only |-> metadata]

HasPrefix(s, p) == Len(s) > 1 /\ s[1] = p

\* MUTANT of needs_structured_form: a name that looks like a key is written as it is.
NeedsWithoutPrefixes(k) == k.revision # None \/ k.metadata_only

needs_structured_form(k) ==
  \/ k.revision # None
  \/ k.metadata_only
  \/ HasPrefix(k.model_name, "mx1")
  \/ HasPrefix(k.model_name, "mxt1")

RevisionField(k) == IF k.revision = None THEN "" ELSE k.revision
Flags(k) == IF k.metadata_only THEN "m" ELSE "-"

\* Display for EntryKey.
Encode(k) ==
  IF k.tenant # None
  THEN <<"mxt1", k.tenant, RevisionField(k), Flags(k)>> \o k.model_name
  ELSE IF needs_structured_form(k)
  THEN <<"mx1", RevisionField(k), Flags(k)>> \o k.model_name
  ELSE k.model_name

\* EntryKey::parse; a key of neither form is a plain model name.
parse(key) ==
  LET Read(fields) ==  \* revision, flags, and the name with its own colons
        New(SubSeq(fields, 3, Len(fields)), IF fields[1] = "" THEN None ELSE fields[1],
            fields[2] = "m") IN
  CASE HasPrefix(key, "mxt1") ->
         IF Len(key) >= 5 /\ key[2] \in Label
         THEN [Read(SubSeq(key, 3, Len(key))) EXCEPT !.tenant = key[2]]
         ELSE New(key, None, FALSE)
    [] HasPrefix(key, "mx1") /\ Len(key) >= 4 -> Read(Tail(key))
    [] OTHER -> New(key, None, FALSE)

\* MUTANT of belongs_to: an entry of any partition answers to the name.
BelongsToAnyTenant(k, tenant, name) == k.model_name = name

belongs_to(k, tenant, name) == k.tenant = tenant /\ k.model_name = name

-----------------------------------------------------------------------------
Init == registry = {} /\ entries = {}

\* A request for an entry that has no record writes one.
Write(k) ==
  /\ Encode(k) \notin registry
  /\ registry' = registry \cup {Encode(k)}
  /\ entries' = entries \cup {k}

\* delete_model_entries: every record whose key reads as the model's.
Clear(tenant, name) ==
  /\ registry # {}
  /\ registry' = {s \in registry : ~belongs_to(parse(s), tenant, name)}
  /\ entries' = {k \in entries : ~(k.tenant = tenant /\ k.model_name = name)}

Next ==
  \/ Cardinality(registry) < MaxRecords /\ \E k \in EntryKey : Write(k)
  \/ \E k \in entries : Clear(k.tenant, k.model_name) \/ Clear(None, k.model_name)

Spec == Init /\ [][Next]_vars

-----------------------------------------------------------------------------
\* The registry stands for exactly the entries written: every key reads back as
\* the entry it was written for, whatever its name looks like, no two entries
\* share a key, and clearing a model in one partition clears its entries only.
KeysStandForEntries ==
  /\ {parse(s) : s \in registry} = entries
  /\ Cardinality(registry) = Cardinality(entries)
=============================================================================
