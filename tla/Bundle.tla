------------------------------- MODULE Bundle -------------------------------
(***************************************************************************)
(* load_bundle (mib/loader.py) and the normalisation of module JSON        *)
(* (mib/registry.py, mib/models.py): from the files of a bundle directory  *)
(* to the module records a MibRegistry is made of, or the error raised.    *)
(*                                                                         *)
(* A file is abstract: its nodes, imports and types, and whether the       *)
(* fields nobody tells apart here have the form the validator asks for.    *)
(***************************************************************************)
EXTENDS Oids, SequencesExt

CONSTANTS
    Missing,     \* no such file, field or node
    Malformed,   \* a file or field that is there and is not of its form
    Unreadable   \* a file that is no UTF-8 text, or may not be read

Directory  == 0                          \* load_bundle(path of the directory)
Validation == "BundleValidationError"
InvalidOid == "InvalidOidError"
ReadError  == "UnicodeDecodeError"       \* or an OSError: _read_json lets both pass
NoError    == "none"

FirstError(errors) ==
    LET i == SelectInSeq(errors, LAMBDA e : e # NoError) IN
    IF i = 0 THEN NoError ELSE errors[i]

------------------------------------------------------------------------------
(* One module file.  A raw node has name, oid_path, oid, kind, syntax and   *)
(* enum (the labels its constraints give to integers); "fields" says that   *)
(* the rest is as it should be.                                             *)

\* parse_oid of an OID that is text or a sequence of integers
ParseError(oid) ==
    IF oid \in {Malformed, <<>>} \/ \E i \in DOMAIN oid : oid[i] < 0
    THEN InvalidOid ELSE NoError

\* mutant: oid_path is believed though oid says otherwise
OidErrorOfPath(raw) ==
    IF raw.oid_path = Malformed THEN Validation
    ELSE IF raw.oid_path = Missing /\ raw.oid = Missing THEN Validation
    ELSE IF raw.oid_path = Missing THEN ParseError(raw.oid)
    ELSE NoError

\* _normalize_node_oid: the two forms must agree; an empty oid_path passes
OidError(raw) ==
    IF raw.oid_path = Malformed THEN Validation
    ELSE IF raw.oid = Missing
    THEN IF raw.oid_path = Missing THEN Validation ELSE NoError
    ELSE IF ParseError(raw.oid) # NoError THEN ParseError(raw.oid)
    ELSE IF raw.oid_path \notin {Missing, raw.oid} THEN Validation
    ELSE NoError

\* _require_string, _optional_string, _normalize_member_refs, index, constraints
FieldsError(raw) == IF raw.fields THEN NoError ELSE Validation

NodeError(raw) == FirstError(<<OidError(raw), FieldsError(raw)>>)

NodeOf(module, raw) ==
    [module |-> module, name |-> raw.name, kind |-> raw.kind,
     oid |-> IF raw.oid_path # Missing THEN raw.oid_path ELSE raw.oid,
     syntax |-> raw.syntax, enum |-> raw.enum]

\* normalize_node_map: a section that is no object, else node by node
SectionErrors(nodes) ==
    IF nodes = Malformed THEN <<Validation>> ELSE [i \in DOMAIN nodes |-> NodeError(nodes[i])]

\* normalize_imports
ImportsError(json) == IF json.imports = Malformed THEN Validation ELSE NoError

\* normalize_type_map
TypesError(json) == IF json.types = Malformed THEN Validation ELSE NoError

\* validate_module_record
ProducerError(json) == IF json.generated_by # "trishul-smi" THEN Validation ELSE NoError

\* normalize_module_payload, in the order of its checks
ModuleError(json) ==
    IF json = Unreadable THEN ReadError
    ELSE IF json = Malformed \/ Missing \in {json.module, json.generated_by}
    THEN Validation
    ELSE FirstError(<<ImportsError(json)>>
                    \o SectionErrors(json.objects)
                    \o SectionErrors(json.notifications)
                    \o <<TypesError(json), ProducerError(json)>>)

ModuleOf(json) ==
    [module        |-> json.module,
     imports       |-> json.imports,      \* <<module, names>>, in their order
     objects       |-> [i \in DOMAIN json.objects |-> NodeOf(json.module, json.objects[i])],
     notifications |-> [i \in DOMAIN json.notifications |->
                           NodeOf(json.module, json.notifications[i])],
     types         |-> json.types]        \* names to the labels of their constraints

------------------------------------------------------------------------------
(* The directory: module files by number (the order of their names), the    *)
(* manifest's entries and the OID index.                                    *)

\* _module_paths_from_manifest: an entry that is no file name, leaves the
\* directory or names a file that is not there is no member of DOMAIN files
ManifestError(disk) ==
    IF disk.manifest = Unreadable THEN ReadError
    ELSE IF \/ disk.manifest = Malformed
            \/ disk.manifest = <<>>
            \/ \E i \in DOMAIN disk.manifest : disk.manifest[i] \notin DOMAIN disk.files
    THEN Validation ELSE NoError

AddNew(seen, f) == IF Contains(seen, f) THEN seen ELSE Append(seen, f)

\* a file listed twice is taken once
WithoutRepeats(entries) ==
    LET seen[n \in 0 .. Len(entries)] ==
            IF n = 0 THEN <<>> ELSE AddNew(seen[n - 1], entries[n])
    IN  seen[Len(entries)]

\* s lists the numbers of the set files, in their order
Lists(s, files) == ToSet(s) = files /\ \A i, j \in DOMAIN s : i < j => s[i] < s[j]

SortedFiles(files) == CHOOSE s \in [1 .. Cardinality(files) -> files] : Lists(s, files)

ModulePaths(disk) ==
    IF disk.manifest = Missing
    THEN SortedFiles(DOMAIN disk.files)
    ELSE WithoutRepeats(disk.manifest)

\* _load_oid_index: OIDs to <<module, symbol>>
OidIndex(disk) == IF disk.index = Missing THEN [o \in {} |-> <<>>] ELSE disk.index

OidIndexError(disk) ==
    IF disk.index = Unreadable THEN ReadError
    ELSE IF disk.index = Malformed THEN Validation
    ELSE IF \E o \in DOMAIN OidIndex(disk) : ParseError(o) # NoError THEN InvalidOid
    ELSE NoError

\* _discover_directory: the sidecar is read before the modules are
DiscoverError(disk) ==
    IF disk.manifest # Missing /\ ManifestError(disk) # NoError THEN ManifestError(disk)
    ELSE IF ModulePaths(disk) = <<>> THEN Validation
    ELSE OidIndexError(disk)

\* dict[m.module] = m
Put(dict, m) ==
    LET i == SelectInSeq(dict, LAMBDA d : d.module = m.module) IN
    IF i = 0 THEN Append(dict, m) ELSE ReplaceAt(dict, i, m)

\* {module.module: module for module in modules}: of two modules of one name
\* the later one takes the earlier one's place
ByName(records) ==
    LET dict[n \in 0 .. Len(records)] ==
            IF n = 0 THEN <<>> ELSE Put(dict[n - 1], records[n])
    IN  dict[Len(records)]

Paths(disk, path) == IF path = Directory THEN ModulePaths(disk) ELSE <<path>>

\* load_bundle of the directory or of one module file
LoadError(disk, path) ==
    IF path = Directory /\ DiscoverError(disk) # NoError THEN DiscoverError(disk)
    ELSE IF path # Directory /\ path \notin DOMAIN disk.files THEN Validation
    ELSE FirstError([i \in DOMAIN Paths(disk, path) |->
                        ModuleError(disk.files[Paths(disk, path)[i]])])

LoadedModules(disk, path) ==
    ByName([i \in DOMAIN Paths(disk, path) |-> ModuleOf(disk.files[Paths(disk, path)[i]])])

LoadedIndex(disk, path) == IF path = Directory THEN OidIndex(disk) ELSE [o \in {} |-> <<>>]
==============================================================================
