------------------------- MODULE CapabilityRegistry -------------------------
(***************************************************************************)
(* The local capability registry (canto/core/local_registry.py) and the    *)
(* registry a server keeps of it (canto/core/registry.py).                 *)
(*                                                                         *)
(* Writers are the commands install and remove, each a process.  Nothing   *)
(* locks the registry: a command works on the entries it read when it      *)
(* began, and every save goes through the one file index.json.tmp.  A      *)
(* mortal process may die between any two steps, and any operation on      *)
(* files may fail (OSError).  The server's threads share one Registry      *)
(* object, without a lock; each reads the index again when the file has    *)
(* changed since the state the object remembers.                           *)
(***************************************************************************)
EXTENDS FiniteSets, Naturals

CONSTANTS
    Proc,       \* processes that run commands
    Mortal,     \* those that may be killed
    Thread,     \* the server's threads
    Package,    \* what an entry is known by: [name, version]
    Variant,    \* contents that a package's directory may have, up to its checksum
    Manifests,  \* the skills and tools that a variant of a package has manifests of
    None,       \* the absent value
    Commands    \* bound: commands begun

ASSUME RegistryAssumption ==
    /\ Mortal \subseteq Proc
    /\ \A p \in Package : DOMAIN p = {"name", "version"}
    /\ DOMAIN Manifests = Package /\ \A p \in Package : DOMAIN Manifests[p] = Variant
    /\ Commands \in Nat
    /\ None \notin Variant /\ "partial" \notin Variant /\ None \notin Package
    /\ None \notin [Package -> Variant \cup {None}]

Index == [Package -> Variant \cup {None}]
NoIndex == [p \in Package |-> None]

VARIABLES
    index,       \* index.json: the checksum of each entry; None without an entry
    temporary,   \* index.json.tmp: an index, or None when there is no such file
    directory,   \* installed/<name>/<version>: a variant, "partial", or None
    command,     \* per process: the command it runs
    commands,    \* commands begun so far
    overlapped,  \* history: a command began while another was under way
    broken,      \* history: the packages that a command was killed on, or failed on half-way,
                 \* since one was last completed
    server,      \* the server's Registry object, which its threads share
    reader       \* per thread: its construction or refresh of that object

writers == <<index, temporary, directory, command, commands, overlapped, broken>>
vars == <<index, temporary, directory, command, commands, overlapped, broken, server, reader>>

Command == [at: {"idle", "loaded", "staged", "moved", "emptying", "save",
                 "replace", "dead"},
            does: {"install", "remove", "nothing"},
            package: Package \cup {None},
            source: Variant \cup {None},     \* source_checksum
            entries: Index]                  \* the entries read when it began

Idle == [at |-> "idle", does |-> "nothing", package |-> None, source |-> None,
         entries |-> NoIndex]

Refresh == [at: {"idle", "compare", "list", "validate", "reload", "record"},
            constructs: BOOLEAN,
            current: BOOLEAN,                \* the index is as it was when state was read
            alone: BOOLEAN,                  \* history: no other refresh was under way
            todo: SUBSET Package,            \* entries still to validate
            valid: SUBSET Package,           \* roots so far
            previous: SUBSET Package]        \* previous_roots

Resting == [at |-> "idle", constructs |-> FALSE, current |-> FALSE, alone |-> FALSE,
            todo |-> {}, valid |-> {}, previous |-> {}]

Server == [up: BOOLEAN,
           current: BOOLEAN,                 \* _capability_index_state is the index's state
           refreshed: BOOLEAN,               \* history: recorded by a refresh that was alone
           roots: SUBSET Package,            \* capability_roots
           serves: Index]                    \* the skills and providers loaded, per package

Down == [up |-> FALSE, current |-> FALSE, refreshed |-> FALSE, roots |-> {}, serves |-> NoIndex]

TypeOK ==
    /\ index \in Index /\ temporary \in Index \cup {None}
    /\ directory \in [Package -> Variant \cup {None, "partial"}]
    /\ command \in [Proc -> Command]
    /\ commands \in 0 .. Commands
    /\ overlapped \in BOOLEAN /\ broken \subseteq Package
    /\ server \in Server
    /\ reader \in [Thread -> Refresh]

Init ==
    /\ index = NoIndex /\ temporary = None
    /\ directory = [p \in Package |-> None]
    /\ command = [w \in Proc |-> Idle]
    /\ commands = 0
    /\ overlapped = FALSE /\ broken = {}
    /\ server = Down
    /\ reader = [t \in Thread |-> Resting]

Indexed == {p \in Package : index[p] # None}

(* validate_installed: the directory is there, with the checksum of the entry. *)
Intact(p) == index[p] # None /\ directory[p] = index[p]

UnderWay(w) == command[w].at \notin {"idle", "dead"}
----
(* Commands. *)

Begin(w, does, p, v) ==
    /\ commands < Commands
    /\ command[w].at = "idle"
    /\ commands' = commands + 1
    /\ overlapped' = (overlapped \/ \E other \in Proc \ {w} : UnderWay(other))
    /\ command' = [command EXCEPT ![w] =
            [at |-> "loaded", does |-> does, package |-> p, source |-> v, entries |-> index]]
    /\ UNCHANGED <<index, temporary, directory, broken, server, reader>>

(* A directory, or an archive extracted into a private one, that has passed validation and is
   checksummed; the package is not among the entries read. *)
Install(w, p, v) == index[p] = None /\ Begin(w, "install", p, v)

(* A package is asked for by its name, and by its version or, if there is only one, without. *)
Matching(name, version) ==
    {p \in Indexed : p.name = name /\ version \in {None, p.version}}

Remove(w, name, version) ==
    \E p \in Package : Matching(name, version) = {p} /\ Begin(w, "remove", p, None)

At(w, does, at) == command[w].at = at /\ command[w].does = does

Goto(w, at) == command' = [command EXCEPT ![w].at = at]
End(w) == command' = [command EXCEPT ![w] = Idle]

Directory(w) == directory[command[w].package]
SetDirectory(w, content) == directory' = [directory EXCEPT ![command[w].package] = content]

(* The command leaves its package in a state that it neither found nor was to make. *)
Breaks(w) == broken' = broken \cup {command[w].package}

(* The destination must not exist; the source is copied into the cache, unless that fails.
   Someone may have edited it since it was checksummed, and then the checksum compared below is
   not that of the copy. *)
Stage(w) ==
    /\ At(w, "install", "loaded")
    /\ \/ Directory(w) = None /\ Goto(w, "staged")
       \/ End(w)
    /\ UNCHANGED <<index, temporary, directory, commands, overlapped, broken, server, reader>>

(* The staged copy is renamed into place, all of it at once, or not at all; over a directory
   with files in it the rename fails. *)
Move(w, copied) ==
    /\ At(w, "install", "staged")
    /\ \/ Directory(w) = None /\ SetDirectory(w, copied) /\ Goto(w, "moved")
       \/ End(w) /\ UNCHANGED directory
    /\ UNCHANGED <<index, temporary, commands, overlapped, broken, server, reader>>

(* An install that fails takes its directory away again; what cannot be deleted stays, and
   nobody is told. *)
Discard(w) ==
    \E rest \in {None, "partial", Directory(w)} :
        /\ SetDirectory(w, rest)
        /\ IF rest = None THEN UNCHANGED broken ELSE Breaks(w)

(* Mutated: an install that finds its source changed keeps what it put in place. *)
CompareKeeps(w) ==
    /\ At(w, "install", "moved")
    /\ IF Directory(w) = command[w].source THEN Goto(w, "save") ELSE End(w)
    /\ UNCHANGED <<index, temporary, directory, commands, overlapped, broken, server, reader>>

(* The checksum of what is installed now is compared with that of the source, if the files can
   be read. *)
Compare(w) ==
    /\ At(w, "install", "moved")
    /\ \/ Directory(w) = command[w].source /\ Goto(w, "save") /\ UNCHANGED <<directory, broken>>
       \/ Discard(w) /\ End(w)
    /\ UNCHANGED <<index, temporary, commands, overlapped, server, reader>>

(* rmtree deletes one file after another, unless there is no directory or it fails on the first... *)
Empty(w) ==
    /\ At(w, "remove", "loaded")
    /\ \/ Directory(w) # None /\ SetDirectory(w, "partial") /\ Goto(w, "emptying")
       \/ End(w) /\ UNCHANGED directory
    /\ UNCHANGED <<index, temporary, commands, overlapped, broken, server, reader>>

(* ... or on a later one, which may be gone because another process deleted it before. *)
Emptied(w) ==
    /\ At(w, "remove", "emptying")
    /\ \/ Directory(w) = "partial" /\ SetDirectory(w, None) /\ Goto(w, "save") /\ UNCHANGED broken
       \/ End(w) /\ Breaks(w) /\ UNCHANGED directory
    /\ UNCHANGED <<index, temporary, commands, overlapped, server, reader>>

(* save writes the entries read at the beginning, with the change, to the temporary file. *)
Save(w) ==
    /\ command[w].at = "save"
    /\ temporary' = [command[w].entries EXCEPT ![command[w].package] = command[w].source]
    /\ Goto(w, "replace")
    /\ UNCHANGED <<index, directory, commands, overlapped, broken, server, reader>>

(* The file's new state is not the one the server, or a refresh of it, has read. *)
IndexReplaced ==
    /\ server' = [server EXCEPT !.current = FALSE]
    /\ reader' = [t \in Thread |-> [reader[t] EXCEPT !.current = FALSE]]

(* Mutated: the index is replaced by what is in the temporary file, or not in it. *)
ReplaceUnchecked(w) ==
    /\ command[w].at = "replace"
    /\ index' = temporary /\ IndexReplaced
    /\ temporary' = None
    /\ broken' = broken \ {command[w].package}
    /\ End(w)
    /\ UNCHANGED <<directory, commands, overlapped>>

(* The temporary file replaces the index, whoever wrote it last, and the command is completed. *)
Replace(w) ==
    /\ command[w].at = "replace"
    /\ temporary # None
    /\ index' = temporary /\ IndexReplaced
    /\ temporary' = None
    /\ broken' = broken \ {command[w].package}
    /\ End(w)
    /\ UNCHANGED <<directory, commands, overlapped>>

(* The temporary file cannot be written, or cannot replace the index (it may be gone).  It is
   unlinked, and then an install discards the directory it put in place, while a remove has
   deleted its own; if it cannot be unlinked either, no one cleans up. *)
SaveFails(w) ==
    /\ command[w].at \in {"save", "replace"}
    /\ \/ temporary' = None /\ command[w].does = "install" /\ Discard(w)
       \/ temporary' = None /\ command[w].does = "remove" /\ Breaks(w) /\ UNCHANGED directory
       \/ Breaks(w) /\ UNCHANGED <<temporary, directory>>
    /\ End(w)
    /\ UNCHANGED <<index, commands, overlapped, server, reader>>

Die(w) ==
    /\ w \in Mortal /\ UnderWay(w)
    /\ Goto(w, "dead") /\ Breaks(w)
    /\ UNCHANGED <<index, temporary, directory, commands, overlapped, server, reader>>

Step(w) ==
    \/ Stage(w) \/ Compare(w) \/ Empty(w) \/ Emptied(w)
    \/ Save(w) \/ Replace(w) \/ SaveFails(w)
    \/ \E copied \in Variant : Move(w, copied)
----
(* The server. *)

(* Registry(): the roots are found first, and the index's state is read afterwards. *)
Construct(t) ==
    /\ ~server.up /\ \A other \in Thread : reader[other].at = "idle"
    /\ reader' = [reader EXCEPT ![t] = [Resting EXCEPT !.at = "list", !.constructs = TRUE]]
    /\ UNCHANGED <<writers, server>>

Refreshing(t) == reader[t].at \notin {"idle", "compare"}

(* refresh_if_changed reads the index's state... *)
ReadState(t) ==
    /\ server.up /\ reader[t].at = "idle"
    /\ reader' = [reader EXCEPT ![t] = [Resting EXCEPT !.at = "compare", !.current = TRUE]]
    /\ UNCHANGED <<writers, server>>

(* ... and compares it with the one remembered.  They are the same if both are the index's, and
   differ if one of them is; of two that are outdated the model does not know. *)
Unchanged(t) ==
    /\ reader[t].at = "compare"
    /\ reader[t].current = server.current
    /\ reader' = [reader EXCEPT ![t] = Resting]
    /\ UNCHANGED <<writers, server>>

RefreshIfChanged(t) ==
    /\ reader[t].at = "compare"
    /\ ~(reader[t].current /\ server.current)
    /\ reader' = [other \in Thread |->
            IF other = t
            THEN [reader[t] EXCEPT !.at = "list", !.previous = server.roots,
                                   !.alone = \A o \in Thread \ {t} : ~Refreshing(o)]
            ELSE [reader[other] EXCEPT !.alone = FALSE]]
    /\ UNCHANGED <<writers, server>>

(* list_installed. *)
ListInstalled(t) ==
    /\ reader[t].at = "list"
    /\ reader' = [reader EXCEPT ![t].at = "validate", ![t].todo = Indexed]
    /\ UNCHANGED <<writers, server>>

(* An exception: a refresh leaves the roots as they were before it. *)
Fail(t) ==
    /\ reader' = [reader EXCEPT ![t] = Resting]
    /\ server' = IF reader[t].constructs THEN server
                 ELSE [server EXCEPT !.roots = reader[t].previous]

(* execution_roots: the entries are taken in one order (list_installed sorts them), and each is
   looked up in the index again, and validated. *)
Validate(t) ==
    /\ reader[t].at = "validate" /\ reader[t].todo # {}
    /\ LET p == CHOOSE q \in reader[t].todo : TRUE IN
       IF Intact(p)
       THEN /\ reader' = [reader EXCEPT ![t].todo = @ \ {p}, ![t].valid = @ \cup {p}]
            /\ UNCHANGED server
       ELSE Fail(t)
    /\ UNCHANGED writers

(* The roots are those found; the constructor now reads the index's state. *)
SetRoots(t) ==
    /\ reader[t].at = "validate" /\ reader[t].todo = {}
    /\ server' = [server EXCEPT !.roots = reader[t].valid,
                                !.current = reader[t].constructs \/ @]
    /\ reader' = [reader EXCEPT ![t].at = "reload"]
    /\ UNCHANGED writers

(* reload finds manifests where there are some: a directory that was deleted brings none, one
   that is being deleted brings none or is refused. *)
Found(p) == IF directory[p] \in Variant THEN directory[p] ELSE None

Duplicate(roots) ==
    \E p, q \in {r \in roots : Found(r) # None} :
        p # q /\ Manifests[p][Found(p)] \cap Manifests[q][Found(q)] # {}

Reload(t) ==
    /\ reader[t].at = "reload"
    /\ ~Duplicate(server.roots)
    /\ server' = [server EXCEPT
            !.up = TRUE,
            !.serves = [p \in Package |-> IF p \in server.roots THEN Found(p) ELSE None]]
    /\ reader' = [reader EXCEPT ![t] = IF reader[t].constructs
                                       THEN Resting ELSE [@ EXCEPT !.at = "record"]]
    /\ UNCHANGED writers

ReloadFails(t) ==
    /\ reader[t].at = "reload"
    /\ \/ Duplicate(server.roots)
       \/ \E p \in server.roots : directory[p] = "partial"
    /\ Fail(t)
    /\ UNCHANGED writers

(* The index or a directory cannot be read. *)
ReadFails(t) ==
    /\ reader[t].at \in {"list", "validate", "reload"}
    /\ Fail(t)
    /\ UNCHANGED writers

(* Mutated: the index's state is read again when the refresh is over. *)
RecordAfterwards(t) ==
    /\ reader[t].at = "record"
    /\ server' = [server EXCEPT !.current = TRUE, !.refreshed = reader[t].alone]
    /\ reader' = [reader EXCEPT ![t] = Resting]
    /\ UNCHANGED writers

(* Mutated: a refresh does not remember the state it read. *)
RecordNothing(t) ==
    /\ reader[t].at = "record"
    /\ reader' = [reader EXCEPT ![t] = Resting]
    /\ UNCHANGED <<writers, server>>

(* The state read before the roots is remembered. *)
Record(t) ==
    /\ reader[t].at = "record"
    /\ server' = [server EXCEPT !.current = reader[t].current,
                                !.refreshed = reader[t].alone]
    /\ reader' = [reader EXCEPT ![t] = Resting]
    /\ UNCHANGED writers

Read(t) ==
    \/ Construct(t) \/ ReadState(t) \/ Unchanged(t) \/ RefreshIfChanged(t)
    \/ ListInstalled(t) \/ Validate(t) \/ SetRoots(t)
    \/ Reload(t) \/ ReloadFails(t) \/ Record(t)

Next ==
    \/ \E w \in Proc :
        \/ Step(w) \/ Die(w)
        \/ \E p \in Package : \E v \in Variant : Install(w, p, v)
        \/ \E p \in Package : \E version \in {None, p.version} : Remove(w, p.name, version)
    \/ \E t \in Thread : Read(t) \/ ReadFails(t)

Spec == Init /\ [][Next]_vars

(* A command that is not killed runs to its end, and requests keep asking the server. *)
Fairness ==
    /\ \A w \in Proc \ Mortal : WF_vars(Step(w))
    /\ \A t \in Thread : WF_vars(Read(t))

FairSpec == Spec /\ Fairness
----
(* As long as commands run one at a time, whatever dies or fails: a package's directory and its
   entry disagree only while a command on that very package is under way, or where one was killed
   or failed to delete or, after deleting, to save, and none was completed since.  So an install
   that fails leaves nothing behind that it can delete, and no failure damages another package. *)
DamageIsLocal ==
    ~overlapped => \A p \in Package :
        directory[p] # index[p] =>
            p \in broken \/ \E w \in Proc : UnderWay(w) /\ command[w].package = p

(* An install that has put the directory of p in place. *)
PutsInPlace(w, p) ==
    /\ command[w].does = "install" /\ command[w].package = p
    /\ command[w].at \in {"moved", "save", "replace"}

(* Once a refresh that no other overlapped has remembered the index's state, and until the index
   changes, the server serves exactly the packages of the index, in the variant installed; but for
   an entry whose directory a command has damaged since it was written, or an install that saw no
   entry yet has put back.  In no case does it serve what has no entry. *)
RefreshedServerIsCurrent ==
    server.current /\ server.refreshed /\ (\A t \in Thread : reader[t].at # "record")
    => \A p \in Package :
        \/ server.serves[p] = index[p]
        \/ p \in Indexed /\ (~Intact(p) \/ p \in broken \/ \E w \in Proc : PutsInPlace(w, p))

Sound ==
    /\ \A p \in Indexed : Intact(p)
    /\ ~Duplicate(Indexed)

(* If the installed packages stay sound and can be read, a server that is asked often enough stops
   reloading: it remembers the index's state for good. *)
ServerSettles ==
    <>[](server.up /\ Sound) /\ <>[][\A t \in Thread : ~ReadFails(t)]_vars
    => <>[]server.current
=============================================================================
