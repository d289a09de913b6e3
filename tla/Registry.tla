------------------------------- MODULE Registry -------------------------------
(***************************************************************************)
(* MibBundle and MibRegistry (mib/bundle.py, mib/registry.py) over a       *)
(* bundle directory, and the rendering of varbinds (mib/render.py):        *)
(* numeric OIDs to symbols and back, names and values to what is shown.    *)
(* A bundle is loaded once and never changes; each further step is one     *)
(* call on it.                                                             *)
(***************************************************************************)
EXTENDS Bundle

CONSTANTS
    Disks,       \* the directories a bundle may be loaded from
    Files,       \* the module files there may be, numbered in the order of their names
    Oid,         \* the OIDs asked for
    Integer      \* the integers a varbind may hold

RawNodes(json) == json.objects \o json.notifications

NoSyntax == ""

IsArray(s) == s \in Seq(ToSet(s))

\* an oid or oid_path as it may stand in a file
RawOid == {Missing, Malformed} \union Seq(Int)

\* descriptors are unique within a module and only objects have a syntax, as
\* SMI has it
JsonAssumption(json) ==
    /\ IsArray(json.objects) /\ IsArray(json.notifications)
    /\ json.imports # Malformed => IsArray(json.imports)
    /\ LET raw == RawNodes(json) IN
       \A i, j \in DOMAIN raw :
           /\ {raw[i].oid, raw[i].oid_path} \subseteq RawOid
           /\ raw[i].name = raw[j].name => i = j
           /\ raw[i].kind = "OBJECT IDENTIFIER" => raw[i].enum = <<>> /\ raw[i].syntax = NoSyntax

\* the sections of a file are lists of nodes, or not of their form
FileAssumption(json) ==
    /\ \A section \in {json.objects, json.notifications} : section = Malformed \/ IsArray(section)
    /\ Malformed \notin {json.objects, json.notifications} => JsonAssumption(json)

ASSUME RegistryAssumption ==
    /\ \A o \in Oid : o \in Seq(Nat) /\ o # <<>>
    /\ Integer \subseteq Int
    /\ Files \subseteq Nat \ {Directory}
    /\ Missing \notin Seq(Int) /\ Malformed \notin Seq(Int)
    /\ \A disk \in Disks :
         /\ IsFiniteSet(DOMAIN disk.files) /\ DOMAIN disk.files \subseteq Nat
         /\ disk.manifest \in {Missing, Malformed, Unreadable} \/ IsArray(disk.manifest)
         /\ \A f \in DOMAIN disk.files :
              disk.files[f] \in {Malformed, Unreadable} \/ FileAssumption(disk.files[f])

VARIABLES
    disk,        \* the files
    source,      \* the path the bundle was loaded from
    outcome,     \* "unloaded", "loaded" or the error of load_bundle
    modules,     \* _modules, in the order of the dict
    loaded,      \* their nodes in the order they are indexed
    sidecar,     \* _oid_index: OIDs to <<module, symbol>>
    asked,       \* the last OID looked up, <<>> before the first
    found,       \* lookup_oid's match
    shown,       \* the match that is displayed
    back,        \* the OID the displayed symbol resolves to
    rendered     \* display_value of the last varbind, Plain before the first

bundle == <<disk, source, outcome, modules, loaded, sidecar>>
vars   == <<bundle, asked, found, shown, back, rendered>>

SymbolOf(n) == <<n.module, n.name>>

NoNode  == [module |-> Missing, name |-> Missing, oid |-> <<>>, kind |-> "none",
            syntax |-> NoSyntax, enum |-> <<>>]      \* None
NoMatch == [node |-> NoNode, suffix |-> <<>>]        \* UnknownOidError

Plain == <<>>                                        \* to_display_string()

Init ==
    /\ disk \in Disks
    /\ source = Directory /\ outcome = "unloaded"
    /\ modules = <<>> /\ loaded = <<>> /\ sidecar = [o \in {} |-> <<>>]
    /\ asked = <<>> /\ found = NoMatch /\ shown = NoMatch /\ back = <<>>
    /\ rendered = Plain

\* MibRegistry.__init__: objects before notifications, module by module
Indexed(records) ==
    FlattenSeq([i \in DOMAIN records |-> records[i].objects \o records[i].notifications])

Load(path) ==
    /\ outcome # "loaded"
    /\ source' = path
    /\ \/ /\ LoadError(disk, path) = NoError
          /\ outcome' = "loaded"
          /\ modules' = LoadedModules(disk, path)
          /\ loaded' = Indexed(modules')
          /\ sidecar' = LoadedIndex(disk, path)
       \/ /\ LoadError(disk, path) # NoError
          /\ outcome' = LoadError(disk, path)
          /\ UNCHANGED <<modules, loaded, sidecar>>
    /\ UNCHANGED <<disk, asked, found, shown, back, rendered>>

\* _symbol_index.get
ResolveNode(symbol) ==
    LET same == {i \in DOMAIN loaded : SymbolOf(loaded[i]) = symbol} IN
    IF same = {} THEN NoNode ELSE loaded[Max(same)]

\* _exact_oid_index.get: of the nodes with one OID the last indexed counts
ExactNode(oid) ==
    LET same == {i \in DOMAIN loaded : loaded[i].oid = oid} IN
    IF same = {} THEN NoNode ELSE loaded[Max(same)]

\* _lookup_exact_from_accelerator
Accelerated(oid) ==
    IF oid \in DOMAIN sidecar THEN ResolveNode(sidecar[oid]) ELSE NoNode

\* mutant: only the sidecar is looked in for a prefix
SidecarNode(oid) == Accelerated(oid)

NodeAt(oid) ==
    IF Accelerated(oid) # NoNode THEN Accelerated(oid) ELSE ExactNode(oid)

\* lookup_oid: the node at the OID or at its longest prefix
LookupOid(oid) ==
    LET known == {k \in 1 .. Len(oid) : NodeAt(SubSeq(oid, 1, k)) # NoNode} IN
    IF known = {}
    THEN NoMatch
    ELSE LET k == Max(known)
         IN  [node |-> NodeAt(SubSeq(oid, 1, k)), suffix |-> SubSeq(oid, k + 1, Len(oid))]

\* mutant: the instance is rendered without its suffix
DisplayBare(oid, match) == [node |-> match.node, suffix |-> <<>>]

\* _display_match: an OBJECT IDENTIFIER registered at a scalar's instance is
\* shown as the scalar's instance
DisplayMatch(oid, match) ==
    LET parent == ExactNode(Front(oid)) IN
    IF /\ match.suffix = <<>>
       /\ match.node.kind = "OBJECT IDENTIFIER"
       /\ Last(oid) = 0
       /\ parent.kind = "scalar"
    THEN [node |-> parent, suffix |-> <<0>>]
    ELSE match

\* resolve_symbolic, with <<>> for UnknownSymbolError
ResolveSymbolic(symbol, suffix) ==
    LET node == ResolveNode(symbol) IN
    IF node = NoNode THEN <<>> ELSE node.oid \o suffix

\* the match, what is displayed for it and what that resolves to; bound: one
\* call on a bundle, since none changes what another reads
Look(oid) ==
    /\ outcome = "loaded" /\ asked = <<>>
    /\ asked' = oid
    /\ found' = LookupOid(oid)
    /\ shown' = IF found' = NoMatch THEN NoMatch ELSE DisplayMatch(oid, found')
    /\ back' = IF found' = NoMatch THEN <<>>
               ELSE ResolveSymbolic(SymbolOf(shown'.node), shown'.suffix)
    /\ UNCHANGED bundle

\* translate(oid), and translate() of what it returned
Translate(oid) == Look(oid) /\ rendered' = Plain

------------------------------------------------------------------------------
(* Rendering: enrich_varbinds                                               *)

TypesNamed(module, name) ==
    {i \in DOMAIN modules : modules[i].module = module /\ name \in DOMAIN modules[i].types}

NoLabels == <<>>

\* _type_index.get
LabelsOfType(module, name) ==
    IF TypesNamed(module, name) = {} THEN NoLabels
    ELSE modules[Max(TypesNamed(module, name))].types[name]

\* mutant: a type of that name anywhere will do
AnyTypeNamed(module, name) ==
    LET having == {i \in DOMAIN modules : name \in DOMAIN modules[i].types} IN
    IF having = {} THEN NoLabels ELSE modules[Max(having)].types[name]

\* _modules.get(module).imports
ImportsOf(module) ==
    LET own == SelectInSeq(modules, LAMBDA m : m.module = module) IN
    IF own = 0 THEN <<>> ELSE modules[own].imports

FirstListing(imports, name) == SelectInSeq(imports, LAMBDA entry : name \in entry[2])

\* resolve_type: the module's own, else that of the first import listing it
ResolveType(module, name) ==
    LET imports == ImportsOf(module)
        first   == FirstListing(imports, name)
    IN  IF TypesNamed(module, name) # {} THEN LabelsOfType(module, name)
        ELSE IF first = 0 THEN NoLabels
        ELSE LabelsOfType(imports[first][1], name)

\* _resolve_enum_label: the node's own constraints, then those of its syntax
LabelFor(node, value) ==
    LET ofType == IF node.syntax = NoSyntax THEN NoLabels
                  ELSE ResolveType(node.module, node.syntax)
    IN
    IF value \in DOMAIN node.enum THEN <<node.enum[value]>>
    ELSE IF value \in DOMAIN ofType THEN <<ofType[value]>>
    ELSE Plain

\* enrich_varbinds: the match and the name shown (_render_name), and for an
\* integer the label that the node matched has for it (_render_value)
Enrich(oid, value) ==
    /\ Look(oid)
    /\ rendered' = IF found' = NoMatch THEN Plain ELSE LabelFor(found'.node, value)

\* an OBJECT IDENTIFIER value is shown as its own translation
EnrichOid(oid, value) ==
    /\ Look(oid)
    /\ LET match == LookupOid(value)
           view  == DisplayMatch(value, match)
       IN  rendered' = IF match = NoMatch THEN Plain
                       ELSE Append(SymbolOf(view.node), view.suffix)

Next ==
    \/ \E path \in {Directory} \union Files : Load(path)
    \/ \E oid \in Oid : Translate(oid)
    \/ \E oid \in Oid, value \in Integer : Enrich(oid, value)
    \/ \E oid, value \in Oid : EnrichOid(oid, value)

Spec == Init /\ [][Next]_vars

------------------------------------------------------------------------------
\* every entry of the sidecar that names a loaded node names one with its OID
SidecarAgrees ==
    \A o \in DOMAIN sidecar : Accelerated(o) # NoNode => Accelerated(o).oid = o

\* With a sidecar that agrees with the modules, translating an OID to a symbol
\* and the symbol back gives the OID again, whichever of several nodes with
\* one OID is shown and however the modules are ordered.
RoundTrip == asked # <<>> /\ SidecarAgrees /\ found # NoMatch => back = asked

\* With such a sidecar the match is the closest node of the modules: no loaded
\* node lies between it and the OID, and an OID is unknown only if no node
\* is a prefix of it.  (A node may be loaded with an empty oid_path; lookup_oid
\* never gets to the empty prefix.)
ClosestNode ==
    asked # <<>> /\ SidecarAgrees =>
        \A i \in DOMAIN loaded :
            IsPrefixOf(loaded[i].oid, asked) /\ loaded[i].oid # <<>> =>
                found # NoMatch /\ Len(loaded[i].oid) <= Len(found.node.oid)

\* "Directory sidecars improve discovery or performance, but they do not
\* define correctness" (docs/bundles.md): the node an OID is matched with lies
\* at the OID or at a prefix of it, whatever the sidecar says.
SidecarOnlyAccelerates ==
    asked # <<>> /\ found # NoMatch => found.node.oid \o found.suffix = asked

\* the files the loaded bundle is made of: those a manifest lists, else all
SourceFiles ==
    IF source # Directory THEN {source}
    ELSE IF disk.manifest = Missing THEN DOMAIN disk.files
    ELSE ToSet(disk.manifest)

\* A bundle is loaded whole or not at all: no file of it is passed over, and
\* each node in one resolves to the OID its file gives, in both forms, unless
\* another of the files is a module of the same name.
LoadedWhole ==
    outcome = "loaded" =>
        \A f \in SourceFiles :
            /\ f \in DOMAIN disk.files /\ disk.files[f] \notin {Malformed, Unreadable}
            /\ LET json == disk.files[f]
                   raw  == RawNodes(json)
               IN  \/ \E g \in SourceFiles \ {f} : disk.files[g].module = json.module
                   \/ \A i \in DOMAIN raw :
                          \A form \in {raw[i].oid_path, raw[i].oid} \ {Missing} :
                              ResolveSymbolic(<<json.module, raw[i].name>>, <<7>>) = form \o <<7>>

\* A label comes from the node that is shown: from its own constraints or from
\* the type its module has or imports under the name of its syntax, never from
\* a type of the same name elsewhere.  (A scalar shown in place of the OBJECT IDENTIFIER registered
\* at its instance shows no label.)
LabelOfShownNode ==
    LET node  == shown.node
        types == {i \in DOMAIN modules : \/ modules[i].module = node.module
                                        \/ \E j \in DOMAIN modules :
                                              /\ modules[j].module = node.module
                                              /\ \E k \in DOMAIN modules[j].imports :
                                                    /\ modules[j].imports[k][1] = modules[i].module
                                                    /\ node.syntax \in modules[j].imports[k][2]}
    IN  Len(rendered) = 1 =>
            /\ shown.node = found.node
            /\ \/ \E v \in DOMAIN node.enum : rendered[1] = node.enum[v]
               \/ \E i \in types : /\ node.syntax \in DOMAIN modules[i].types
                                   /\ \E v \in DOMAIN modules[i].types[node.syntax] :
                                          rendered[1] = modules[i].types[node.syntax][v]
==============================================================================
