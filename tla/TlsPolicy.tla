------------------------------ MODULE TlsPolicy ------------------------------
(***************************************************************************)
(* What the gRPC listener negotiates for a TLS configuration, with the two *)
(* backends it can be built with (tls/backend_openssl.rs,                  *)
(* tls/backend_rustls.rs): settings come in OpenSSL spelling, names a      *)
(* backend does not know are dropped, and an unset list means the          *)
(* backend's defaults. What OpenSSL knows is up to the library it is       *)
(* linked with; rustls has a fixed table.                                  *)
(***************************************************************************)
EXTENDS Naturals, Sequences, SequencesExt

CONSTANTS
  Name12, Name13,        \* cipher names, of TLS 1.2 and 1.3 by their spelling
  OpenSsl12, OpenSsl13,  \* those that the linked OpenSSL accepts
  Rustls12, Rustls13,    \* those of the table of rustls
  Default12, Default13,  \* what OpenSSL offers when no list is given
  Operator,          \* a cipher-string operator that removes no listed name (`!aNULL')
  Blank,             \* a name that is empty when trimmed
  OpenSslGroup, RustlsGroup,  \* [group name -> group]: names and aliases each one knows
  DefaultGroups,     \* what OpenSSL offers when no groups are given
  UnknownGroup,
  MaxNames,          \* bound: the length of a list
  None

VARIABLES min, suites, groups  \* TlsConfig

vars == <<min, suites, groups>>

SuiteName == Name12 \cup Name13 \cup {Operator, Blank}
GroupName == DOMAIN OpenSslGroup \cup DOMAIN RustlsGroup \cup {UnknownGroup, Blank}
Groups(table, names) == {table[n] : n \in names}

Init ==
  /\ min \in {None, 10, 11, 12, 13}
  /\ suites \in BoundedSeq(SuiteName, MaxNames)
  /\ groups \in BoundedSeq(GroupName, MaxNames)

Next == UNCHANGED vars

Spec == Init /\ [][Next]_vars

NonBlank(s) == SelectSeq(s, LAMBDA n : n # Blank)

\* split_cipher_suites: TLS 1.3 names start with TLS_ and have no _WITH_.
Tls13Names == SelectSeq(NonBlank(suites), LAMBDA n : n \in Name13)
Tls12Names == SelectSeq(NonBlank(suites), LAMBDA n : n \notin Name13)

Error == None

-----------------------------------------------------------------------------
(* OpenSSL                                                                 *)

\* MUTANT of supported_names: a list that names nothing known is an empty one.
supported_names_lenient(names, known) ==
  SelectSeq(NonBlank(names), LAMBDA n : n = Operator \/ n \in known)

supported_names(names, known) ==
  IF NonBlank(names) # <<>> /\ ToSet(names) \cap known = {} THEN Error
  ELSE SelectSeq(NonBlank(names), LAMBDA n : n = Operator \/ n \in known)

Floor(v) == IF v = None \/ v < 12 THEN 12 ELSE v

\* An empty list leaves OpenSSL's defaults; an operator narrows what the names select.
OrDefault(names, default) == IF names = <<>> THEN default ELSE ToSet(names) \ {Operator}

OpenSsl ==
  LET s12 == supported_names(Tls12Names, OpenSsl12)
      s13 == supported_names(Tls13Names, OpenSsl13)
      g == supported_names(groups, DOMAIN OpenSslGroup)
  IN IF Error \in {s12, s13, g} THEN Error
     ELSE [min |-> Floor(min),
           suites12 |-> OrDefault(s12, Default12), suites13 |-> OrDefault(s13, Default13),
           groups |-> IF g = <<>> THEN DefaultGroups ELSE Groups(OpenSslGroup, ToSet(g))]

-----------------------------------------------------------------------------
(* rustls                                                                  *)

\* select_cipher_suites for one version.
select_cipher_suites(names, available) ==
  IF names = <<>> THEN available
  ELSE IF ToSet(names) \cap available = {} THEN Error
  ELSE ToSet(names) \cap available

\* MUTANT of select_kx_groups: no known group means every group.
select_kx_groups_lenient(names) ==
  LET known == ToSet(names) \cap DOMAIN RustlsGroup
  IN  Groups(RustlsGroup, IF known = {} THEN DOMAIN RustlsGroup ELSE known)

select_kx_groups(names) ==
  LET known == ToSet(names) \cap DOMAIN RustlsGroup
  IN  IF NonBlank(names) = <<>> THEN Groups(RustlsGroup, DOMAIN RustlsGroup)
      ELSE IF known = {} THEN Error
      ELSE Groups(RustlsGroup, known)

\* The TLS 1.2 list is read only when TLS 1.2 can be negotiated.
Rustls ==
  LET s13 == select_cipher_suites(Tls13Names, Rustls13)
      s12 == IF min = 13 THEN {} ELSE select_cipher_suites(Tls12Names, Rustls12)
      g == select_kx_groups(groups)
  IN IF Error \in {s12, s13, g} THEN Error
     ELSE [min |-> Floor(min), suites12 |-> s12, suites13 |-> s13, groups |-> g]

-----------------------------------------------------------------------------

\* A listener never offers a suite, a group or a version that a non-empty list or a minimum of
\* the configuration leaves out, and never one without a suite for the versions it offers.
Within(p, table) ==
  /\ p.min >= 12 /\ (min # None => p.min >= min)
  /\ Tls13Names # <<>> => p.suites13 \subseteq ToSet(suites) \cap Name13
  /\ Tls12Names # <<>> => p.suites12 \subseteq ToSet(suites) \cap Name12
  /\ NonBlank(groups) # <<>> => p.groups \subseteq Groups(table, ToSet(groups) \cap DOMAIN table)
  /\ p.suites13 # {} /\ p.groups # {} /\ (p.min = 12 => p.suites12 # {})

\* No name of the lists is known to one backend only.
NothingForeign ==
  /\ ToSet(suites) \cap (OpenSsl12 \cup OpenSsl13) = ToSet(suites) \cap (Rustls12 \cup Rustls13)
  /\ ToSet(groups) \cap DOMAIN OpenSslGroup = ToSet(groups) \cap DOMAIN RustlsGroup

\* A configuration is never widened by either backend. Where TLS 1.2 may be negotiated and the
\* lists name nothing that only one of them knows, the two refuse the same configurations, and
\* of the others they offer the same versions and the same of every list that is given.
PolicyIsKept ==
  /\ OpenSsl # Error => Within(OpenSsl, OpenSslGroup)
  /\ Rustls # Error => Within(Rustls, RustlsGroup)
  /\ min # 13 /\ NothingForeign =>
       /\ OpenSsl = Error <=> Rustls = Error
       /\ OpenSsl # Error =>
            /\ OpenSsl.min = Rustls.min
            /\ Tls12Names # <<>> => OpenSsl.suites12 = Rustls.suites12
            /\ Tls13Names # <<>> => OpenSsl.suites13 = Rustls.suites13
            /\ NonBlank(groups) # <<>> => OpenSsl.groups = Rustls.groups
=============================================================================
