------------------------- MODULE CapabilityPackage --------------------------
(***************************************************************************)
(* Capability directories and .canto archives                              *)
(* (canto/core/capability_manifest.py, capability_package.py and           *)
(* capability_scaffold.py): what pack puts into an archive, what           *)
(* validation refuses, and what extraction gives.                          *)
(*                                                                         *)
(* A path is the sequence of its parts.  A directory is a set of files     *)
(* [path, content], one for a path; an archive is a set of entries [path,  *)
(* kind, content], whose order matters to nothing but the archive's        *)
(* bytes.  An operation that may refuse gives the set of its results: one, *)
(* or none.  A content is a record with a field that says what it is: a      *)
(* manifest, a list of checksums, or any other text.  A digest is the      *)
(* content it is taken of: no two contents share a digest.                 *)
(***************************************************************************)
EXTENDS Naturals, Sequences

CONSTANTS
    WellFormedName,     \* names and versions that match NAME_PATTERN, VERSION_PATTERN
    WellFormedVersion,
    Source,             \* the directories that are packed
    Damage,             \* contents that a file of a package may be damaged to
    Added               \* paths of files that may be added to a package

(* No name that matches NAME_PATTERN begins with a dot or an underscore,   *)
(* and a content that is a list of checksums is that and nothing else.     *)
ASSUME PackagingAssumption ==
    /\ WellFormedName \cap {".", "..", ".git", ".pytest_cache", ".venv", "__pycache__"} = {}
    /\ "0.1.0" \in WellFormedVersion
    /\ \A content \in Damage : "checksums" \in DOMAIN content =>
        /\ content = [checksums |-> content.checksums, wellFormed |-> content.wellFormed]
        /\ content.wellFormed \in BOOLEAN

CantoYaml == <<"canto.yaml">>
ManifestYaml == <<"manifest.yaml">>
Checksums == <<"CHECKSUMS.sha256">>
SkillYaml(skill) == <<"skills", skill, "skill.yaml">>
ProviderYaml(skill, provider) == <<"skills", skill, "providers", provider, "provider.yaml">>
ToolYaml(tool) == <<"tools", tool, "tool.yaml">>

Text(words) == [text |-> words]
IsManifest(content) == "manifest" \in DOMAIN content
IsChecksums(content) == "checksums" \in DOMAIN content

(* providers holds <<skill, provider>> for an identifier with a dot, and   *)
(* <<identifier>> for one without; bindings holds the pairs <<skill,       *)
(* provider>> of execution.providers.                                      *)
ValidManifest(m) ==
    /\ m.name \in WellFormedName /\ m.version \in WellFormedVersion
    /\ m.risk \in {"low", "medium", "high"}
    /\ \A binding \in m.bindings : "" \notin {binding[1], binding[2]}

BindingFiles(m) ==
    UNION {{SkillYaml(binding[1]), ProviderYaml(binding[1], binding[2])} : binding \in m.bindings}

ExcludedDirectories == {".git", ".pytest_cache", ".venv", "__pycache__"}
ExcludedFiles == {".env", "module.pyc", "package.canto"}   \* the last two for their suffixes

Excluded(path) ==
    \/ \E i \in 1 .. Len(path) - 1 : path[i] \in ExcludedDirectories
    \/ path[Len(path)] \in ExcludedFiles

Paths(files) == {file.path : file \in files}
ContentOf(files, path) == (CHOOSE file \in files : file.path = path).content

ManifestsIn(source) == {CantoYaml, ManifestYaml} \cap Paths(source)

(* A source has exactly one manifest, which is valid, and the files of its *)
(* bindings.                                                               *)
ValidSource(source) ==
    \E path \in ManifestsIn(source) :
        /\ ManifestsIn(source) = {path}
        /\ IsManifest(ContentOf(source, path))
        /\ LET m == ContentOf(source, path).manifest IN
            ValidManifest(m) /\ BindingFiles(m) \subseteq Paths(source)

Link == [link |-> TRUE]   \* the content of a path that is a symbolic link
HasLink(source) == \E file \in source : file.content = Link

(* The manifest is packed as canto.yaml.                                   *)
Packed(files) ==
    {[path |-> IF file.path = ManifestYaml THEN CantoYaml ELSE file.path,
      content |-> file.content] : file \in files}

(* Mutant: checksums that were generated earlier are packed again.         *)
CollectAll(source, replaceChecksums) ==
    IF HasLink(source) THEN {} ELSE {Packed({file \in source : ~Excluded(file.path)})}

(* What is packed, but for the checksums.                                  *)
Collect(source, replaceChecksums) ==
    LET kept == {file \in source :
                    ~Excluded(file.path) /\ ~(file.path = Checksums /\ replaceChecksums)}
    IN IF HasLink(source) \/ Checksums \in Paths(kept) THEN {} ELSE {Packed(kept)}

ListOf(files) == [path |-> Checksums, content |-> [checksums |-> files, wellFormed |-> TRUE]]

Archive(files) ==
    {[path |-> file.path, kind |-> "file", content |-> file.content] :
        file \in files \cup {ListOf(files)}}

Once(archive, path) == \E entry \in archive :
    {other \in archive : other.path = path} = {entry}

SafePath(path) == path # <<>> /\ "/" # path[1] /\ \A i \in DOMAIN path : path[i] # ".."

ValidEntries(archive) ==
    \A entry \in archive :
        Once(archive, entry.path) /\ SafePath(entry.path) /\ entry.kind = "file"

Extract(archive) == {[path |-> entry.path, content |-> entry.content] : entry \in archive}

(* Mutant: a file without a record is let through.                         *)
ValidRecords(archive) ==
    /\ Once(archive, Checksums)
    /\ LET list == ContentOf(archive, Checksums) IN
        /\ IsChecksums(list) /\ list.wellFormed
        /\ list.checksums \subseteq Extract(archive)

(* Every file but the list itself has one record, which is the digest of   *)
(* its content.                                                            *)
ValidChecksums(archive) ==
    /\ Once(archive, Checksums)
    /\ LET list == ContentOf(archive, Checksums) IN
        /\ IsChecksums(list) /\ list.wellFormed
        /\ list.checksums = {file \in Extract(archive) : file.path # Checksums}

(* The skill, provider and tool manifests that the manifest declares.      *)
Declared(m) ==
    {SkillYaml(skill) : skill \in m.skills}
    \cup {ProviderYaml(provider[1], provider[2]) : provider \in m.providers}
    \cup {ToolYaml(tool) : tool \in m.tools}

ValidContents(archive) ==
    /\ Once(archive, CantoYaml)
    /\ IsManifest(ContentOf(archive, CantoYaml))
    /\ LET m == ContentOf(archive, CantoYaml).manifest IN
        /\ ValidManifest(m)
        /\ \A provider \in m.providers : Len(provider) = 2
        /\ BindingFiles(m) \cup Declared(m) \subseteq Paths(archive)

ValidPackage(archive) ==
    ValidEntries(archive) /\ ValidChecksums(archive) /\ ValidContents(archive)

(* pack: the archive is written and then validated; one that fails is      *)
(* deleted.                                                                *)
Pack(source, replaceChecksums) ==
    IF ValidSource(source)
    THEN {archive \in {Archive(files) : files \in Collect(source, replaceChecksums)} :
            ValidPackage(archive)}
    ELSE {}

(* Registry.export, of an intact directory.                                *)
Export(source) == Pack(source, TRUE)

(* The files of a template, with the provider that its manifest declares.  *)
Template(name, provider) ==
    LET manifest == [name |-> name, version |-> "0.1.0", risk |-> "low", skills |-> {name},
                     providers |-> {provider}, tools |-> {}, bindings |-> {}]
    IN {[path |-> ManifestYaml, content |-> [manifest |-> manifest]]}
       \cup {[path |-> path, content |-> Text("template")] : path \in
                {SkillYaml(name), ProviderYaml(name, "local"),
                 <<"skills", name, "providers", "local", "run.py">>,
                 <<"README.md">>, <<"tests", "test_provider.py">>}}

(* Mutant: the template names the provider without its skill.              *)
ScaffoldBareProvider(name) ==
    IF name \in WellFormedName THEN {Template(name, <<"local">>)} ELSE {}

(* The directory that scaffold writes.                                     *)
Scaffold(name) ==
    IF name \in WellFormedName THEN {Template(name, <<name, "local">>)} ELSE {}
-----------------------------------------------------------------------------
(* What holds of the packages of the directories.                          *)

Packages == UNION {Pack(source, FALSE) : source \in Source}

(* A package that is installed (extract_package, and the copy of the       *)
(* directory) and then exported comes out as it went in.                   *)
ExportReturns == \A package \in Packages : Export(Extract(package)) = {package}

(* A package with a file changed, or one left out, is not valid: no other  *)
(* archive than the package itself agrees with its list of checksums.      *)
DamageShows ==
    \A package \in Packages : \A path \in Paths(package) \cup Added :
        LET others == {entry \in package : entry.path # path}
        IN /\ others # package => ~ValidPackage(others)
           /\ \A content \in Damage :
                LET entry == [path |-> path, kind |-> "file", content |-> content]
                IN entry \notin package => ~ValidPackage(others \cup {entry})

(* What scaffold writes can be packed.                                     *)
ScaffoldsPack ==
    \A name \in WellFormedName : \E source \in Scaffold(name) : Pack(source, FALSE) # {}
=============================================================================
