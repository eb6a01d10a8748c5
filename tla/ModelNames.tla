----------------------------- MODULE ModelNames -----------------------------
(***************************************************************************)
(* Model names and cache directories (modelexpress_common/src/providers):   *)
(* how each provider reads the name of a request, the directory it uses,    *)
(* and the name its cache listing gives that directory back.                *)
(*                                                                         *)
(* A name is the sequence of its segments between slashes, without the      *)
(* scheme; a directory is the sequence of its components under the cache    *)
(* root. A Hugging Face segment is the sequence of its pieces between       *)
(* double hyphens, and a segment name:version of NGC a pair.                *)
(***************************************************************************)
EXTENDS Naturals, Sequences, SequencesExt, FiniteSets

CONSTANTS
  None,
  HubName,     \* Hugging Face names: sequences of sequences of pieces
  UrlName,     \* names of the object stores: sequences of segments
  NgcName,     \* NGC names: sequences of segments, the last one maybe a pair
  MaxModels    \* bound on the models on disk

VARIABLES
  disk         \* the models on disk: the provider, what the name was read as,
               \* the directory, whether all files lie in a subdirectory, and
               \* whether the name is one of those kept apart

vars == <<disk>>

Dots == {".", ".."}

\* repo_root of Hugging Face: one component models--, every slash a double
\* hyphen; it is written here as its pieces.
HubDir(name) == <<"models">> \o FlattenSeq(name)
\* folder_name_to_model_id, every double hyphen a slash.
HubListed(dir) == [i \in 1..(Len(dir) - 1) |-> <<dir[i + 1]>>]

\* trim_end_matches('/').
TrimEnd(s) == SubSeq(s, 1, Max({0} \cup {i \in DOMAIN s : s[i] # ""}))

\* MUTANT of Portable: dot segments are accepted.
PortableDots(s) == s # <<>> /\ "" \notin Range(s)

Portable(s) == s # <<>> /\ Range(s) \cap ({""} \cup Dots) = {}

\* A bucket of Google Cloud Storage is one normal path component.
BucketName(b) == b \notin {""} \cup Dots

\* The file system follows the components "." and "..".
Path(root, components) ==
  FoldLeft(LAMBDA path, c : IF c = "." THEN path ELSE IF c = ".." THEN Front(path) ELSE Append(path, c),
           <<root>>, components)

\* gs://: ModelName::parse, then model_dir.
GcsDir(name) ==
  LET prefix == TrimEnd(Tail(name)) IN
  IF Len(name) > 1 /\ BucketName(name[1]) /\ Portable(prefix)
  THEN Path("gcs", <<name[1]>> \o prefix) ELSE None

\* s3://: S3ModelName::parse, then model_dir; the bucket only has to be there.
S3Dir(name) ==
  LET prefix == TrimEnd(Tail(name)) IN
  IF Len(name) > 1 /\ name[1] # "" /\ Portable(prefix)
  THEN Path("s3", <<name[1]>> \o prefix) ELSE None

\* ModelDir::model_name, and the name collect_cached_models builds for S3: the
\* components below the provider's root, a bucket and at least one more.
BucketListed(dir) == IF Len(dir) > 2 THEN Tail(dir) ELSE None

\* parse_model_name of NGC.
parse_model_name(name) ==
  LET id(org, team, type, model, version) ==
        [org |-> org, team |-> team, type |-> type, name |-> model, version |-> version]
      last == name[Len(name)] IN
  CASE \E i \in DOMAIN name : name[i].version = None /\ name[i].name \in Dots -> None
    [] Len(name) = 3 /\ last.version # None ->
         id(name[1].name, name[2].name, "models", last.name, last.version)
    [] Len(name) = 3 -> id(name[1].name, None, "models", name[2].name, last.name)
    [] Len(name) = 4 -> id(name[1].name, name[2].name, "models", name[3].name, last.name)
    [] Len(name) = 5 -> id(name[1].name, name[2].name, name[3].name, name[4].name, last.name)
    [] OTHER -> None

\* MUTANT of model_dir: a team artifact is filed under its organisation.
ModelDirWithoutTeam(id) == <<"ngc", id.org, id.type, id.name, id.version>>

model_dir(id) ==
  <<"ngc", id.org>> \o (IF id.team = None THEN <<>> ELSE <<id.team>>)
    \o <<id.type, id.name, id.version>>

NgcDir(name) == LET id == parse_model_name(name) IN IF id = None THEN None ELSE model_dir(id)

\* collect_ngc_models: the type of an artifact without a team is dropped.
NgcListed(dir) ==
  LET seg(s) == [name |-> s, version |-> None]
      parts == Tail(dir) IN
  IF Len(parts) = 4 THEN <<seg(parts[1]), seg(parts[3]), seg(parts[4])>>
  ELSE [i \in DOMAIN parts |-> seg(parts[i])]

-----------------------------------------------------------------------------
Dir(provider, name) ==
  CASE provider = "hf" -> HubDir(name)
    [] provider = "gcs" -> GcsDir(name)
    [] provider = "s3" -> S3Dir(name)
    [] provider = "ngc" -> NgcDir(name)

\* What two names must agree on to be the same model.
Identity(provider, name) ==
  CASE provider = "hf" -> FlattenSeq([i \in DOMAIN name |-> name[i] \o <<"/">>])
    [] provider = "ngc" -> LET id == parse_model_name(name) IN
         <<id.org, IF id.team = None THEN "" ELSE id.team, id.type, id.name, id.version>>
    [] OTHER -> <<name[1]>> \o TrimEnd(Tail(name))

\* The names whose directories are their own. Nothing validates the others: a
\* Hugging Face segment with a double hyphen, and a bucket of S3 that is a dot.
KeptApart(provider, name) ==
  CASE provider = "hf" -> \A i \in DOMAIN name : Len(name[i]) = 1
    [] provider = "s3" -> name[1] \notin Dots
    [] OTHER -> TRUE

\* The directory that holds the model's files.
FilesDir(m) == IF m.nested THEN m.dir \o <<"sub">> ELSE m.dir

Under(d, e) == IsPrefix(e, d) /\ d # e

Listing(name, path) == [name |-> name, path |-> path]
Mine(provider) == {m \in disk : m.provider = provider}

\* Every directory models--*.
HubModels == {Listing(HubListed(m.dir), m.dir) : m \in Mine("hf")}

\* Every directory with a manifest; the search does not go below one.
GcsModels ==
  {Listing(BucketListed(m.dir), m.dir) :
     m \in {m \in Mine("gcs") : \A k \in Mine("gcs") : ~Under(m.dir, k.dir)}}

\* Every directory with a marker whose path from s3/ names a bucket and a prefix.
S3Models ==
  {Listing(BucketListed(m.dir), m.dir) :
     m \in {m \in Mine("s3") : IsPrefix(<<"s3">>, m.dir) /\ BucketListed(m.dir) # None}}

\* Every directory with files; the search does not go below one.
NgcModels ==
  {Listing(NgcListed(FilesDir(m)), FilesDir(m)) :
     m \in {m \in Mine("ngc") : \A k \in Mine("ngc") : ~Under(FilesDir(m), FilesDir(k))}}

list_models(provider) ==
  CASE provider = "hf" -> HubModels
    [] provider = "gcs" -> GcsModels
    [] provider = "s3" -> S3Models
    [] provider = "ngc" -> NgcModels

Names(provider) ==
  CASE provider = "hf" -> HubName [] provider = "ngc" -> NgcName [] OTHER -> UrlName

Init == disk = {}

\* download_model; Google Cloud Storage refuses overlapping models.
Download(provider, name, nested) ==
  LET dir == Dir(provider, name) IN
  /\ dir # None
  /\ Cardinality(disk) < MaxModels
  /\ provider = "gcs" => \A m \in disk : ~Under(m.dir, dir) /\ ~Under(dir, m.dir)
  /\ disk' = disk \cup {[provider |-> provider, id |-> Identity(provider, name), dir |-> dir,
                         nested |-> nested, apart |-> KeptApart(provider, name)]}

\* clear_model by a listed name: the directory and what is below it.
Clear(provider, name) ==
  /\ Dir(provider, name) # None
  /\ disk' = {m \in disk : ~IsPrefix(Dir(provider, name), FilesDir(m))}

Next ==
  \E provider \in {"hf", "gcs", "s3", "ngc"} :
    \/ \E name \in Names(provider), nested \in BOOLEAN :
         (nested => provider = "ngc") /\ Download(provider, name, nested)
    \/ \E l \in list_models(provider) : Clear(provider, l.name)

Spec == Init /\ [][Next]_vars

-----------------------------------------------------------------------------
\* Two names that are read as different models share no directory, unless one is
\* a Hugging Face name with a double hyphen (o/x--y and o--x/y are one directory)
\* or names a bucket "." or ".." of S3 (s3://./a/b is s3://a/b).
DirectoriesApart ==
  \A m, k \in disk : m.apart /\ k.apart /\ m.dir = k.dir => m.id = k.id /\ m.provider = k.provider

\* A name the listing gives is read back as the directory it was listed for, so
\* that clearing it clears that model. The exception is a team artifact of NGC
\* whose files all lie in subdirectories: its listed name has too many segments.
ListedNamesResolve ==
  \A provider \in {"hf", "gcs", "s3", "ngc"} : \A l \in list_models(provider) :
    \/ Dir(provider, l.name) = l.path
    \/ provider = "ngc" /\ Len(l.path) > 6

\* Every model on disk is listed, unless NGC files it below another one or its
\* bucket is "." or ".." of S3.
EveryModelListed ==
  \A m \in disk :
    \/ \E l \in list_models(m.provider) : l.path = FilesDir(m)
    \/ m.provider = "s3" /\ ~m.apart
    \/ m.provider = "ngc" /\ \E k \in disk : k.provider = "ngc" /\ Under(FilesDir(m), FilesDir(k))
=============================================================================
