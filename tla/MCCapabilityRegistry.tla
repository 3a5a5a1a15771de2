------------------------ MODULE MCCapabilityRegistry -------------------------
EXTENDS Capabilities

(* Two versions of one capability. *)
Report == [name |-> "report", version |-> "1.0.0"]
NewReport == [name |-> "report", version |-> "2.0.0"]

Versions == {Report, NewReport}

Edited == CHOOSE v \in Variant : TRUE

(* The new version brings a skill of its own, but for a variant that brings the same skill again. *)
SkillOfVersion ==
    [p \in Versions |-> [v \in Variant |-> IF p = NewReport /\ v # Edited
                                           THEN {"new report"} ELSE {"report"}]]

(* The commands find an empty registry, or one in which an earlier command has installed the first
   version. *)
Filled == [p \in Versions |-> IF p = Report THEN Edited ELSE None]

InstalledInit ==
    /\ index \in {NoIndex, Filled} /\ directory = index
    /\ temporary = None
    /\ command = [w \in Proc |-> Idle]
    /\ commands = 0
    /\ overlapped = FALSE /\ broken = {}
    /\ server = Down
    /\ reader = [t \in Thread |-> Resting]

InstalledSpec == InstalledInit /\ [][Next]_vars /\ Fairness
-----------------------------------------------------------------------------
(* Packages: the capability directories are made of the pieces below.      *)

CrawlOnly == {"crawl"}
FirstVersion == {"0.1.0"}

File(path, content) == [path |-> path, content |-> content]

ManifestOf(name, skills, providers, bindings) ==
    [manifest |-> [name |-> name, version |-> "0.1.0", risk |-> "low", skills |-> skills,
                   providers |-> providers, tools |-> {}, bindings |-> bindings]]

CrawlLocal == {<<"crawl", "local">>}

ManifestContents ==
    {ManifestOf("crawl", {"crawl"}, CrawlLocal, CrawlLocal),
     ManifestOf("crawl", {}, {<<"local">>}, {}),
     ManifestOf("crawl", {}, {}, CrawlLocal),
     ManifestOf("Crawl", {}, {}, {}),
     Text("not a manifest")}

ManifestFiles ==
    {{File(path, content)} : path \in {CantoYaml, ManifestYaml}, content \in ManifestContents}
    \cup {{File(CantoYaml, content), File(ManifestYaml, content)} : content \in ManifestContents}

OtherFiles ==
    {File(SkillYaml("crawl"), Text("skill")),
     File(ProviderYaml("crawl", "local"), Text("provider")),
     File(<<"run.py">>, Text("code")),
     File(<<".env">>, Text("secret")),
     File(<<".git", "config">>, Text("git")),
     File(<<"linked">>, Link),
     File(Checksums, Text("checksums"))}

Directories == {files \cup others : files \in ManifestFiles, others \in SUBSET OtherFiles}

Damages == {Text("damaged"), [checksums |-> {}, wellFormed |-> TRUE],
            ManifestOf("crawl", {}, {}, {})}

AddedFile == {<<"added">>}
=============================================================================
