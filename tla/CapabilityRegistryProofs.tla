---------------------- MODULE CapabilityRegistryProofs ----------------------
(***************************************************************************)
(* Theorems about CapabilityRegistry, for every number of processes,       *)
(* threads, packages and commands: its states are well typed; as long as   *)
(* commands run one at a time damage stays with the package it was done    *)
(* to; and a server serves what a refresh that was alone has loaded.  And  *)
(* about CapabilityPackage, for all directories: an installed package is   *)
(* exported as it was packed, damage to one shows, and a scaffold packs.   *)
(***************************************************************************)
EXTENDS Capabilities, TLAPS

(* A step of a command, and one that begins it or ends it by death.        *)
Begins(w) ==
    \/ \E p \in Package : \E v \in Variant : Install(w, p, v)
    \/ \E p \in Package : \E version \in {None, p.version} : Remove(w, p.name, version)

-----------------------------------------------------------------------------
(* Types.                                                                  *)

LEMMA InitTyped == Init => TypeOK
<1> SUFFICES ASSUME Init PROVE TypeOK
    OBVIOUS
<1>1. NoIndex \in Index
    BY DEF NoIndex, Index
<1>2. Idle \in Command
    BY <1>1 DEF Idle, Command
<1>3. Down \in Server
    BY <1>1 DEF Down, Server
<1>4. Resting \in Refresh
    BY DEF Resting, Refresh
<1>5. 0 \in 0 .. Commands
    BY RegistryAssumption
<1> QED BY <1>1, <1>2, <1>3, <1>4, <1>5 DEF Init, TypeOK

(* What every command has: a package, and what it installs.                *)
Held(w) ==
    IF command[w].at = "idle" THEN command[w].package = None
    ELSE
        /\ command[w].package \in Package
        /\ command[w].does = "install" => command[w].source \in Variant
        /\ command[w].does = "remove" => command[w].source = None
        /\ command[w].does # "nothing"

TypedInv == TypeOK /\ \A w \in Proc : Held(w)

LEMMA InitTypedInv == Init => TypedInv
BY InitTyped DEF TypedInv, Init, Held, Idle

LEMMA BeginTyped ==
    ASSUME TypedInv, NEW w \in Proc, NEW p \in Package, NEW v \in Variant \cup {None},
           NEW does \in {"install", "remove"}, Begin(w, does, p, v),
           does = "install" => v \in Variant, does = "remove" => v = None
    PROVE  TypedInv'
<1>1. commands' \in 0 .. Commands
    BY RegistryAssumption DEF Begin, TypedInv, TypeOK
<1>2. command' \in [Proc -> Command]
    BY DEF Begin, TypedInv, TypeOK, Command
<1>3. overlapped' \in BOOLEAN /\ broken' \subseteq Package
    BY DEF Begin, TypedInv, TypeOK
<1>4. TypeOK'
    BY <1>1, <1>2, <1>3 DEF Begin, TypedInv, TypeOK
<1>5. \A other \in Proc : Held(other)'
    BY DEF Begin, TypedInv, TypeOK, Held
<1> QED BY <1>4, <1>5 DEF TypedInv

LEMMA BeginsTyped ==
    ASSUME TypedInv, NEW w \in Proc, Begins(w)
    PROVE  TypedInv'
<1>1. CASE \E p \in Package : \E v \in Variant : Install(w, p, v)
    BY <1>1, BeginTyped DEF Install
<1>2. CASE \E p \in Package : \E version \in {None, p.version} : Remove(w, p.name, version)
    BY <1>2, BeginTyped DEF Remove
<1> QED BY <1>1, <1>2 DEF Begins

(* Where a command goes on, its package and what it does stay.             *)
LEMMA GotoTyped ==
    ASSUME TypedInv, NEW w \in Proc, command[w].at # "idle",
           NEW at \in {"staged", "moved", "emptying", "save", "replace", "dead"},
           Goto(w, at)
    PROVE  command' \in [Proc -> Command] /\ \A other \in Proc : Held(other)'
BY DEF TypedInv, TypeOK, Goto, Command, Held

LEMMA EndTyped ==
    ASSUME TypedInv, NEW w \in Proc, End(w)
    PROVE  command' \in [Proc -> Command] /\ \A other \in Proc : Held(other)'
<1>1. Idle \in Command
    BY RegistryAssumption DEF Idle, Command, Index, NoIndex
<1> QED BY <1>1 DEF TypedInv, TypeOK, End, Held, Idle

LEMMA SetDirectoryTyped ==
    ASSUME TypedInv, NEW w \in Proc, NEW content \in Variant \cup {None, "partial"},
           SetDirectory(w, content)
    PROVE  directory' \in [Package -> Variant \cup {None, "partial"}]
BY DEF TypedInv, TypeOK, SetDirectory

LEMMA BreaksTyped ==
    ASSUME TypedInv, NEW w \in Proc, command[w].at # "idle"
    PROVE  /\ Breaks(w) => broken' \subseteq Package
           /\ UNCHANGED broken => broken' \subseteq Package
           /\ broken \ {command[w].package} \subseteq Package
BY DEF TypedInv, TypeOK, Held, Breaks

LEMMA DiscardTyped ==
    ASSUME TypedInv, NEW w \in Proc, command[w].at # "idle", Discard(w)
    PROVE  /\ directory' \in [Package -> Variant \cup {None, "partial"}]
           /\ broken' \subseteq Package
<1>1. PICK rest \in {None, "partial", Directory(w)} :
            SetDirectory(w, rest) /\ IF rest = None THEN UNCHANGED broken ELSE Breaks(w)
    BY DEF Discard
<1>2. rest \in Variant \cup {None, "partial"}
    BY <1>1 DEF Directory, TypedInv, TypeOK, Held
<1> QED BY <1>1, <1>2, SetDirectoryTyped, BreaksTyped

LEMMA ReplacedTyped ==
    ASSUME TypedInv, IndexReplaced
    PROVE  server' \in Server /\ reader' \in [Thread -> Refresh]
<1>1. server' \in Server
    BY DEF IndexReplaced, TypedInv, TypeOK, Server
<1>2. \A t \in Thread : [reader[t] EXCEPT !.current = FALSE] \in Refresh
    BY DEF TypedInv, TypeOK, Refresh
<1> QED BY <1>1, <1>2 DEF IndexReplaced

LEMMA StepTyped ==
    ASSUME TypedInv, NEW w \in Proc, Step(w) \/ Die(w)
    PROVE  TypedInv'
<1>0. command[w].at # "idle"
    BY DEF Step, Stage, Move, Compare, Empty, Emptied, Save, Replace, SaveFails, Die, UnderWay, At
<1> USE <1>0, GotoTyped, EndTyped, SetDirectoryTyped, BreaksTyped DEF TypedInv
<1>1. CASE Stage(w)
    BY <1>1 DEF Stage, At, TypeOK
<1>2. CASE \E copied \in Variant : Move(w, copied)
    BY <1>2 DEF Move, At, TypeOK
<1>3. CASE Compare(w)
    BY <1>3, DiscardTyped DEF Compare, At, TypeOK
<1>4. CASE Empty(w)
    BY <1>4 DEF Empty, At, TypeOK
<1>5. CASE Emptied(w)
    BY <1>5 DEF Emptied, At, TypeOK
<1>6. CASE Save(w)
  <2>1. temporary' \in Index
    BY <1>6 DEF Save, TypeOK, Command, Index
  <2> QED BY <1>6, <2>1 DEF Save, TypeOK
<1>7. CASE Replace(w)
  <2>1. command' \in [Proc -> Command] /\ \A other \in Proc : Held(other)'
    BY <1>7 DEF Replace
  <2>2. index' \in Index /\ temporary' = None /\ broken' \subseteq Package
    BY <1>7 DEF Replace, TypeOK
  <2>3. server' \in Server /\ reader' \in [Thread -> Refresh]
    BY <1>7, ReplacedTyped DEF Replace
  <2> QED BY <1>7, <2>1, <2>2, <2>3 DEF Replace, TypeOK
<1>8. CASE SaveFails(w)
  <2>1. command' \in [Proc -> Command] /\ \A other \in Proc : Held(other)'
    BY <1>8 DEF SaveFails
  <2>2. /\ directory' \in [Package -> Variant \cup {None, "partial"}]
        /\ broken' \subseteq Package
    BY <1>8, DiscardTyped DEF SaveFails, TypeOK
  <2>3. temporary' \in Index \cup {None}
    BY <1>8 DEF SaveFails, TypeOK
  <2> QED BY <1>8, <2>1, <2>2, <2>3 DEF SaveFails, TypeOK
<1>9. CASE Die(w)
    BY <1>9 DEF Die, UnderWay, TypeOK
<1> QED BY <1>1, <1>2, <1>3, <1>4, <1>5, <1>6, <1>7, <1>8, <1>9 DEF Step

(* A step of a thread of the server.                                       *)
Asks(t) == Read(t) \/ ReadFails(t)

LEMMA AsksWriters == ASSUME NEW t \in Thread, Asks(t) PROVE UNCHANGED writers
BY DEF Asks, Read, ReadFails, Construct, ReadState, Unchanged, RefreshIfChanged, ListInstalled,
       Validate, SetRoots, Reload, ReloadFails, Record

LEMMA ReadTyped ==
    ASSUME TypedInv, NEW t \in Thread, Asks(t)
    PROVE  TypedInv'
<1> SUFFICES server' \in Server /\ reader' \in [Thread -> Refresh]
    BY AsksWriters DEF TypedInv, TypeOK, writers, Held
<1> USE DEF TypedInv, TypeOK
<1>1. CASE Construct(t)
    BY <1>1 DEF Construct, Refresh, Resting
<1>2. CASE ReadState(t) \/ Unchanged(t)
  <2>1. Resting \in Refresh /\ [Resting EXCEPT !.at = "compare", !.current = TRUE] \in Refresh
    BY DEF Refresh, Resting
  <2> QED BY <1>2, <2>1 DEF ReadState, Unchanged
<1>3. CASE RefreshIfChanged(t)
  <2> DEFINE alone == \A o \in Thread \ {t} : ~Refreshing(o)
  <2>1. alone \in BOOLEAN
    OBVIOUS
  <2>2. UNCHANGED server
        /\ reader' = [other \in Thread |->
                IF other = t
                THEN [reader[t] EXCEPT !.at = "list", !.previous = server.roots, !.alone = alone]
                ELSE [reader[other] EXCEPT !.alone = FALSE]]
    BY <1>3 DEF RefreshIfChanged
  <2> HIDE DEF alone
  <2>3. \A other \in Thread : [reader[other] EXCEPT !.alone = FALSE] \in Refresh
    BY DEF Refresh
  <2>4. [reader[t] EXCEPT !.at = "list", !.previous = server.roots, !.alone = alone] \in Refresh
    BY <2>1 DEF Refresh, Server
  <2> QED BY <2>2, <2>3, <2>4
<1>4. CASE ListInstalled(t)
  <2>1. Indexed \in SUBSET Package
    BY DEF Indexed
  <2>2. [[reader[t] EXCEPT !.at = "validate"] EXCEPT !.todo = Indexed] \in Refresh
    BY <2>1 DEF Refresh
  <2> QED BY <1>4, <2>2 DEF ListInstalled
<1>5. ASSUME Fail(t) PROVE server' \in Server /\ reader' \in [Thread -> Refresh]
    BY <1>5 DEF Fail, Refresh, Resting, Server
<1>6. CASE Validate(t)
  <2> DEFINE p == CHOOSE q \in reader[t].todo : TRUE
  <2>0. p \in Package /\ p \in reader[t].todo
    BY <1>6 DEF Validate, Refresh
  <2> HIDE DEF p
  <2>1. CASE Intact(p)
    <3>1. reader[t].todo \ {p} \in SUBSET Package
      BY DEF Refresh
    <3>2. reader[t].valid \cup {p} \in SUBSET Package
      BY <2>0 DEF Refresh
    <3>3. [[reader[t] EXCEPT !.todo = reader[t].todo \ {p}]
                      EXCEPT !.valid = reader[t].valid \cup {p}] \in Refresh
      BY <3>1, <3>2 DEF Refresh
    <3>4. reader' = [reader EXCEPT ![t] =
                [[reader[t] EXCEPT !.todo = reader[t].todo \ {p}]
                            EXCEPT !.valid = reader[t].valid \cup {p}]] /\ UNCHANGED server
      BY <1>6, <2>1 DEF Validate, p
    <3> QED BY <3>3, <3>4
  <2>2. CASE ~Intact(p)
    BY <1>6, <2>2, <1>5 DEF Validate, p
  <2> QED BY <2>1, <2>2
<1>7. CASE SetRoots(t)
  <2>1. reader[t].valid \in SUBSET Package /\ reader[t] \in Refresh
    BY DEF Refresh
  <2>2. (reader[t].constructs \/ server.current) \in BOOLEAN
    OBVIOUS
  <2>3. server' \in Server
    BY <1>7, <2>1, <2>2 DEF SetRoots, Server
  <2>4. reader' \in [Thread -> Refresh]
    BY <1>7, <2>1 DEF SetRoots, Refresh
  <2> QED BY <2>3, <2>4
<1>8. CASE Reload(t)
  <2>1. \A p \in Package : Found(p) \in Variant \cup {None}
    BY DEF Found
  <2>2. [p \in Package |-> IF p \in server.roots THEN Found(p) ELSE None] \in Index
    BY <2>1 DEF Index
  <2>3. server' \in Server
    BY <1>8, <2>2 DEF Reload, Server
  <2>4. reader' \in [Thread -> Refresh]
    BY <1>8 DEF Reload, Refresh, Resting
  <2> QED BY <2>3, <2>4
<1>9. CASE ReloadFails(t) \/ ReadFails(t)
    BY <1>9, <1>5 DEF ReloadFails, ReadFails
<1>10. CASE Record(t)
  <2>1. reader[t].current \in BOOLEAN /\ reader[t].alone \in BOOLEAN
    BY DEF Refresh
  <2> QED BY <1>10, <2>1 DEF Record, Refresh, Resting, Server
<1> QED BY <1>1, <1>2, <1>3, <1>4, <1>6, <1>7, <1>8, <1>9, <1>10 DEF Asks, Read

LEMMA NextTyped == TypedInv /\ [Next]_vars => TypedInv'
<1> SUFFICES ASSUME TypedInv, [Next]_vars PROVE TypedInv'
    OBVIOUS
<1>1. CASE UNCHANGED vars
    BY <1>1 DEF TypedInv, TypeOK, Held, vars
<1>2. CASE Next
    BY <1>2, BeginsTyped, StepTyped, ReadTyped DEF Next, Begins, Asks
<1> QED BY <1>1, <1>2

(* The index, the directories, the commands and the server's registry are  *)
(* well typed in every reachable state: no interleaving, death or failed   *)
(* operation publishes a temporary file that is not there.                 *)
THEOREM RegistryTyped == Spec => []TypeOK
<1>1. TypedInv => TypeOK
    BY DEF TypedInv
<1> QED BY InitTypedInv, NextTyped, <1>1, PTL DEF Spec
-----------------------------------------------------------------------------
(* One command at a time.                                                  *)

Mine(w) == command[w].package

(* The package of w is as its entry says, or was left damaged before.      *)
Settled(w) == directory[Mine(w)] = index[Mine(w)] \/ Mine(w) \in broken

(* How far a command has come, with no other under way.                    *)
Progress(w) ==
    /\ command[w].entries = index
    /\ command[w].does = "install" => index[Mine(w)] = None
    /\ command[w].at \in {"loaded", "staged"} => Settled(w)
    /\ command[w].at = "emptying" => directory[Mine(w)] = "partial"
    /\ command[w].at \in {"save", "replace"} => directory[Mine(w)] = command[w].source
    /\ command[w].at = "replace" =>
            temporary = [index EXCEPT ![Mine(w)] = command[w].source]

Explained(p) ==
    directory[p] # index[p] =>
        p \in broken \/ \E w \in Proc : UnderWay(w) /\ command[w].package = p

SerialInv ==
    /\ \A w \in Proc : UnderWay(w) => Progress(w)
    /\ \A w, other \in Proc : UnderWay(w) /\ UnderWay(other) => w = other
    /\ \A p \in Package : Explained(p)

DamageInv == TypedInv /\ (~overlapped => SerialInv)

LEMMA InitDamageInv == Init => DamageInv
<1> SUFFICES ASSUME Init PROVE DamageInv
    OBVIOUS
<1>1. TypedInv
    BY InitTypedInv
<1>2. \A w \in Proc : ~UnderWay(w)
    BY DEF Init, UnderWay, Idle
<1>3. \A p \in Package : directory[p] = index[p]
    BY DEF Init, NoIndex
<1> QED BY <1>1, <1>2, <1>3 DEF DamageInv, SerialInv, Explained

(* A command that begins alone finds every damage left by an earlier one.  *)
LEMMA BeginSerial ==
    ASSUME TypedInv, SerialInv, NEW w \in Proc, NEW p \in Package, NEW v \in Variant \cup {None},
           NEW does \in {"install", "remove"}, Begin(w, does, p, v), ~overlapped',
           does = "install" => index[p] = None
    PROVE  SerialInv'
<1>1. /\ \A other \in Proc : ~UnderWay(other)
      /\ \A other \in Proc : other # w => command'[other] = command[other]
      /\ command'[w] = [at |-> "loaded", does |-> does, package |-> p, source |-> v,
                        entries |-> index]
      /\ UNCHANGED <<index, directory, broken>>
    BY DEF Begin, TypedInv, TypeOK, UnderWay
<1>2. \A other \in Proc : UnderWay(other)' => other = w
    BY <1>1 DEF UnderWay
<1>3. \A q \in Package : directory[q] # index[q] => q \in broken
    BY <1>1 DEF SerialInv, Explained
<1>4. \A q \in Package : Explained(q)'
    BY <1>1, <1>3 DEF Explained
<1>5. Settled(w)'
    BY <1>1, <1>3 DEF Settled, Mine
<1>6. Progress(w)'
    BY <1>1, <1>5 DEF Progress, Mine
<1> QED BY <1>2, <1>4, <1>6 DEF SerialInv

LEMMA BeginsSerial ==
    ASSUME TypedInv, SerialInv, NEW w \in Proc, Begins(w), ~overlapped'
    PROVE  SerialInv'
<1>1. CASE \E p \in Package : \E v \in Variant : Install(w, p, v)
    BY <1>1, BeginSerial DEF Install
<1>2. CASE \E p \in Package : \E version \in {None, p.version} : Remove(w, p.name, version)
    BY <1>2, BeginSerial DEF Remove
<1> QED BY <1>1, <1>2 DEF Begins

(* A step of the only command under way keeps the invariant when it leaves *)
(* other packages alone and either goes on or leaves its own settled.      *)
LEMMA AloneSerial ==
    ASSUME TypedInv, SerialInv, NEW w \in Proc, UnderWay(w),
           \A other \in Proc : other # w => command'[other] = command[other],
           \A p \in Package : p # Mine(w) =>
              /\ directory'[p] = directory[p] /\ index'[p] = index[p]
              /\ p \in broken => p \in broken',
           \/ command'[w].package = Mine(w) /\ UnderWay(w)' /\ Progress(w)'
           \/ /\ ~UnderWay(w)'
              /\ directory'[Mine(w)] = index'[Mine(w)] \/ Mine(w) \in broken'
    PROVE  SerialInv'
<1>1. \A other \in Proc : UnderWay(other) => other = w
    BY DEF SerialInv
<1>2. \A other \in Proc : UnderWay(other)' => other = w
    BY <1>1 DEF UnderWay
<1>3. ASSUME NEW p \in Package PROVE Explained(p)'
  <2>1. CASE p = Mine(w)
    BY <2>1 DEF Explained
  <2>2. CASE p # Mine(w)
    <3>1. directory[p] # index[p] => p \in broken
      BY <1>1, <2>2 DEF SerialInv, Explained, Mine
    <3> QED BY <2>2, <3>1 DEF Explained
  <2> QED BY <2>1, <2>2
<1> QED BY <1>2, <1>3 DEF SerialInv

(* What Goto, End and SetDirectory change.                                 *)
LEMMA GotoChanges ==
    ASSUME TypedInv, NEW w \in Proc, NEW at, Goto(w, at)
    PROVE  /\ command'[w] = [command[w] EXCEPT !.at = at]
           /\ command'[w].at = at /\ command'[w].does = command[w].does
           /\ command'[w].package = command[w].package
           /\ command'[w].source = command[w].source
           /\ command'[w].entries = command[w].entries
           /\ \A other \in Proc : other # w => command'[other] = command[other]
<1>1. command'[w] = [command[w] EXCEPT !.at = at]
    BY DEF TypedInv, TypeOK, Goto
<1>2. command[w] \in Command
    BY DEF TypedInv, TypeOK
<1>3. [command[w] EXCEPT !.at = at]
        = [at |-> at, does |-> command[w].does, package |-> command[w].package,
           source |-> command[w].source, entries |-> command[w].entries]
    BY <1>2 DEF Command
<1> QED BY <1>1, <1>3 DEF TypedInv, TypeOK, Goto

LEMMA EndChanges ==
    ASSUME TypedInv, NEW w \in Proc, End(w)
    PROVE  /\ command'[w] = Idle
           /\ \A other \in Proc : other # w => command'[other] = command[other]
BY DEF TypedInv, TypeOK, End

LEMMA SetDirectoryChanges ==
    ASSUME TypedInv, NEW w \in Proc, UnderWay(w), NEW content, SetDirectory(w, content)
    PROVE  /\ directory'[Mine(w)] = content
           /\ \A p \in Package : p # Mine(w) => directory'[p] = directory[p]
BY DEF TypedInv, TypeOK, Held, UnderWay, Mine, SetDirectory

LEMMA BreaksChanges ==
    ASSUME TypedInv, NEW w \in Proc, Breaks(w)
    PROVE  Mine(w) \in broken' /\ broken \subseteq broken'
BY DEF Breaks, Mine

(* What is discarded is gone, or its package is broken.                    *)
LEMMA DiscardChanges ==
    ASSUME TypedInv, NEW w \in Proc, UnderWay(w), Discard(w)
    PROVE  /\ \A p \in Package : p # Mine(w) => directory'[p] = directory[p]
           /\ directory'[Mine(w)] = None \/ Mine(w) \in broken'
           /\ broken \subseteq broken'
<1>1. PICK rest \in {None, "partial", Directory(w)} :
            SetDirectory(w, rest) /\ IF rest = None THEN UNCHANGED broken ELSE Breaks(w)
    BY DEF Discard
<1> QED BY <1>1, SetDirectoryChanges, BreaksChanges

LEMMA StepSerial ==
    ASSUME TypedInv, SerialInv, NEW w \in Proc, Step(w) \/ Die(w)
    PROVE  SerialInv'
<1>1. UnderWay(w)
    BY DEF Step, Stage, Move, Compare, Empty, Emptied, Save, Replace, SaveFails, Die, At, UnderWay
<1>2. Progress(w) /\ Mine(w) \in Package
    BY <1>1 DEF SerialInv, TypedInv, Held, UnderWay, Mine
<1>0. ASSUME NEW at, Goto(w, at)
      PROVE  /\ Mine(w)' = Mine(w)
             /\ command'[w].at = at /\ command'[w].does = command[w].does
             /\ command'[w].source = command[w].source
             /\ command'[w].entries = command[w].entries
    BY <1>0, GotoChanges DEF Mine
<1>3. ASSUME NEW at, Goto(w, at), UNCHANGED <<index, broken>>, at \notin {"idle", "dead"},
             Progress(w)', \A p \in Package : p # Mine(w) => directory'[p] = directory[p]
      PROVE  SerialInv'
  <2>1. UnderWay(w)'
    BY <1>0, <1>3 DEF UnderWay
  <2> QED BY <1>1, <1>3, <2>1, GotoChanges, AloneSerial DEF Mine
<1>4. ASSUME End(w), UNCHANGED index, broken \subseteq broken',
             directory'[Mine(w)] = index[Mine(w)] \/ Mine(w) \in broken',
             \A p \in Package : p # Mine(w) => directory'[p] = directory[p]
      PROVE  SerialInv'
  <2>1. /\ ~UnderWay(w)'
        /\ \A other \in Proc : other # w => command'[other] = command[other]
    BY <1>4, EndChanges DEF UnderWay, Idle
  <2> QED BY <1>1, <1>4, <2>1, AloneSerial
<1>5. ASSUME End(w), UNCHANGED <<index, broken, directory>>, Settled(w)
      PROVE  SerialInv'
    BY <1>4, <1>5 DEF Settled
<1>6. CASE Stage(w)
  <2>1. Settled(w) /\ UNCHANGED <<index, directory, broken>>
    BY <1>2, <1>6 DEF Stage, At, Progress
  <2>2. CASE End(w)
    BY <1>5, <2>1, <2>2
  <2>3. CASE Goto(w, "staged")
    <3>1. Settled(w)'
      BY <1>0, <2>1, <2>3 DEF Settled
    <3>2. Progress(w)'
      BY <1>2, <2>1, <2>3, <3>1, <1>0 DEF Progress
    <3> QED BY <1>3, <2>1, <2>3, <3>2
  <2> QED BY <1>6, <2>2, <2>3 DEF Stage
<1>7. CASE \E copied \in Variant : Move(w, copied)
  <2> PICK copied \in Variant : Move(w, copied)
    BY <1>7
  <2>1. Settled(w) /\ UNCHANGED <<index, broken>>
    BY <1>2 DEF Move, At, Progress
  <2>2. CASE End(w) /\ UNCHANGED directory
    BY <1>5, <2>1, <2>2
  <2>3. CASE SetDirectory(w, copied) /\ Goto(w, "moved")
    <3>1. Progress(w)'
      BY <1>2, <2>1, <2>3, <1>0 DEF Progress
    <3> QED BY <1>1, <1>3, <2>1, <2>3, <3>1, SetDirectoryChanges
  <2> QED BY <2>2, <2>3 DEF Move
<1>8. CASE Compare(w)
  <2>1. /\ At(w, "install", "moved") /\ UNCHANGED index
        /\ \/ Directory(w) = command[w].source /\ Goto(w, "save") /\ UNCHANGED <<directory, broken>>
           \/ Discard(w) /\ End(w)
    BY <1>8 DEF Compare
  <2>2. CASE Directory(w) = command[w].source /\ Goto(w, "save") /\ UNCHANGED <<directory, broken>>
    <3>1. Progress(w)'
      BY <1>2, <2>1, <2>2, <1>0 DEF Progress, Directory, Mine
    <3> QED BY <1>3, <2>1, <2>2, <3>1
  <2>3. CASE Discard(w) /\ End(w)
    <3>1. index[Mine(w)] = None
      BY <1>2, <2>1 DEF Progress, At
    <3> QED BY <1>1, <1>4, <2>1, <2>3, <3>1, DiscardChanges
  <2> QED BY <2>1, <2>2, <2>3
<1>9. CASE Empty(w)
  <2>1. Settled(w) /\ UNCHANGED <<index, broken>>
    BY <1>2, <1>9 DEF Empty, At, Progress
  <2>2. CASE End(w) /\ UNCHANGED directory
    BY <1>5, <2>1, <2>2
  <2>3. CASE SetDirectory(w, "partial") /\ Goto(w, "emptying")
    <3>1. Progress(w)'
      BY <1>1, <1>2, <2>1, <2>3, <1>0, SetDirectoryChanges DEF Progress
    <3> QED BY <1>1, <1>3, <2>1, <2>3, <3>1, SetDirectoryChanges
  <2> QED BY <1>9, <2>2, <2>3 DEF Empty
<1>10. CASE Emptied(w)
  <2>1. UNCHANGED index /\ command[w].source = None
    BY <1>10 DEF Emptied, At, TypedInv, Held
  <2>2. CASE SetDirectory(w, None) /\ Goto(w, "save") /\ UNCHANGED broken
    <3>1. Progress(w)'
      BY <1>1, <1>2, <2>1, <2>2, <1>0, SetDirectoryChanges DEF Progress
    <3> QED BY <1>1, <1>3, <2>1, <2>2, <3>1, SetDirectoryChanges
  <2>3. CASE End(w) /\ Breaks(w) /\ UNCHANGED directory
    BY <1>4, <2>1, <2>3, BreaksChanges
  <2> QED BY <1>10, <2>2, <2>3 DEF Emptied
<1>11. CASE Save(w)
  <2>1. /\ Goto(w, "replace") /\ UNCHANGED <<index, directory, broken>>
        /\ temporary' = [index EXCEPT ![Mine(w)] = command[w].source]
    BY <1>2, <1>11 DEF Save, Progress, Mine
  <2>2. /\ command'[w].at = "replace" /\ command'[w].does = command[w].does
        /\ command'[w].source = command[w].source /\ command'[w].entries = command[w].entries
        /\ index' = index /\ directory' = directory /\ Mine(w)' = Mine(w)
    BY <1>0, <2>1
  <2>3. temporary' = [index' EXCEPT ![Mine(w)'] = command'[w].source]
    BY <2>1, <2>2
  <2>4. directory[Mine(w)] = command[w].source
    BY <1>2, <1>11 DEF Progress, Save
  <2>5. Progress(w)'
    BY <1>2, <2>2, <2>3, <2>4 DEF Progress
  <2> QED BY <1>3, <2>1, <2>5
<1>12. CASE Replace(w)
  <2>1. /\ temporary = [index EXCEPT ![Mine(w)] = command[w].source]
        /\ directory[Mine(w)] = command[w].source
        /\ index \in Index
    BY <1>2, <1>12 DEF Replace, Progress, TypedInv, TypeOK
  <2>2. /\ index' = temporary /\ UNCHANGED directory /\ End(w)
        /\ broken' = broken \ {Mine(w)}
    BY <1>12 DEF Replace, Mine
  <2>3. /\ index'[Mine(w)] = directory'[Mine(w)]
        /\ \A p \in Package : p # Mine(w) => index'[p] = index[p]
    BY <1>2, <2>1, <2>2 DEF Index
  <2>4. /\ ~UnderWay(w)'
        /\ \A other \in Proc : other # w => command'[other] = command[other]
    BY <2>2, EndChanges DEF UnderWay, Idle
  <2> QED BY <1>1, <2>2, <2>3, <2>4, AloneSerial
<1>13. CASE SaveFails(w)
  <2>1. End(w) /\ UNCHANGED index
    BY <1>13 DEF SaveFails
  <2>2. CASE command[w].does = "install" /\ Discard(w)
    <3>1. index[Mine(w)] = None
      BY <1>2, <2>2 DEF Progress
    <3> QED BY <1>1, <1>4, <2>1, <2>2, <3>1, DiscardChanges
  <2>3. CASE Breaks(w) /\ UNCHANGED directory
    BY <1>4, <2>1, <2>3, BreaksChanges
  <2> QED BY <1>13, <2>2, <2>3 DEF SaveFails
<1>14. CASE Die(w)
  <2>1. /\ ~UnderWay(w)' /\ UNCHANGED <<index, directory>> /\ Breaks(w)
        /\ \A other \in Proc : other # w => command'[other] = command[other]
    BY <1>14, GotoChanges DEF Die, UnderWay
  <2> QED BY <1>1, <2>1, AloneSerial, BreaksChanges
<1> QED BY <1>6, <1>7, <1>8, <1>9, <1>10, <1>11, <1>12, <1>13, <1>14 DEF Step

LEMMA NextDamage == DamageInv /\ [Next]_vars => DamageInv'
<1> SUFFICES ASSUME DamageInv, [Next]_vars PROVE DamageInv'
    OBVIOUS
<1>1. TypedInv /\ TypedInv' /\ (~overlapped => SerialInv)
    BY NextTyped DEF DamageInv
<1>2. ASSUME UNCHANGED writers, ~overlapped PROVE SerialInv'
    BY <1>1, <1>2 DEF writers, SerialInv, Progress, Mine, Settled, Explained, UnderWay
<1>3. CASE UNCHANGED vars \/ \E t \in Thread : Asks(t)
  <2>1. UNCHANGED writers
    BY <1>3, AsksWriters DEF vars, writers
  <2> QED BY <1>1, <1>2, <2>1 DEF DamageInv, writers
<1>4. ASSUME NEW w \in Proc, Begins(w) PROVE DamageInv'
  <2>1. ~overlapped' => ~overlapped
    BY <1>4 DEF Begins, Install, Remove, Begin
  <2> QED BY <1>1, <1>4, <2>1, BeginsSerial DEF DamageInv
<1>5. ASSUME NEW w \in Proc, Step(w) \/ Die(w) PROVE DamageInv'
  <2>1. UNCHANGED overlapped
    BY <1>5 DEF Step, Stage, Move, Compare, Empty, Emptied, Save, Replace, SaveFails, Die
  <2> QED BY <1>1, <1>5, <2>1, StepSerial DEF DamageInv
<1> QED BY <1>3, <1>4, <1>5 DEF Next, Begins, Asks

(* As long as commands run one at a time, whatever is killed and whichever *)
(* operation on files fails, a directory and its entry disagree only for a *)
(* package that a command is working on, or that one was killed on or      *)
(* failed on half-way: local_registry.py's install and remove.             *)
THEOREM DamageStaysLocal == Spec => []DamageIsLocal
<1>1. DamageInv => DamageIsLocal
    BY DEF DamageInv, SerialInv, Explained, DamageIsLocal
<1> QED BY InitDamageInv, NextDamage, <1>1, PTL DEF Spec
-----------------------------------------------------------------------------
(* A refreshed server, however many threads it has.                        *)

PutBack(p) == \E w \in Proc : PutsInPlace(w, p)

(* What the server serves of p, as long as it holds the index's state.     *)
Fits(p) ==
    \/ server.serves[p] = index[p]
    \/ p \in Indexed /\ (~Intact(p) \/ p \in broken \/ PutBack(p))
ServesFit == \A p \in Package : Fits(p)

(* A refresh that no other overlaps, as long as the index is as it was     *)
(* when the refresh read its state.                                        *)
RefreshFits(t) ==
    /\ reader[t].at = "list" => reader[t].valid = {}
    /\ reader[t].at = "validate" => reader[t].todo \cup reader[t].valid = Indexed
    /\ reader[t].at = "reload" => server.roots = Indexed
    /\ reader[t].at = "record" => ServesFit

(* While one thread constructs the registry, no other uses it.             *)
ReaderFits(t) ==
    /\ reader[t].at = "compare" => reader[t].valid = {}
    /\ reader[t].at # "idle" /\ ~reader[t].constructs => server.up
    /\ reader[t].constructs =>
            /\ ~server.up /\ Refreshing(t)
            /\ \A u \in Thread \ {t} : reader[u].at = "idle"
    /\ reader[t].alone =>
            /\ ~reader[t].constructs /\ Refreshing(t)
            /\ \A u \in Thread \ {t} : ~Refreshing(u)
    /\ reader[t].alone /\ reader[t].current => RefreshFits(t)

Served ==
    server.current /\ server.refreshed /\ (\A t \in Thread : reader[t].at # "record")
    => ServesFit

CurrentInv ==
    /\ TypedInv
    /\ server.refreshed => server.up
    /\ Served
    /\ \A t \in Thread : ReaderFits(t)

LEMMA InitCurrent == Init => CurrentInv
BY InitTypedInv DEF Init, CurrentInv, Served, ReaderFits, Refreshing, Resting, Down

(* Commands.  What no longer fits was damaged, or is being put back.       *)
LEMMA Refits ==
    ASSUME NEW p \in Package, Fits(p), UNCHANGED <<index, server>>, p \in broken => p \in broken',
           \/ ~Intact(p)' \/ p \in broken' \/ PutBack(p)'
           \/ directory'[p] = directory[p] /\ ~PutBack(p)
    PROVE  Fits(p)'
BY DEF Fits, Indexed, Intact

LEMMA BeginFits ==
    ASSUME TypedInv, NEW w \in Proc, Begins(w), NEW p \in Package, Fits(p)
    PROVE  Fits(p)'
<1>1. /\ command[w].at = "idle"
      /\ \A other \in Proc : other # w => command'[other] = command[other]
      /\ UNCHANGED <<index, directory, broken, server>>
    BY DEF Begins, Install, Remove, Begin, TypedInv, TypeOK
<1>2. PutBack(p) => PutBack(p)'
    BY <1>1 DEF PutBack, PutsInPlace
<1> QED BY <1>1, <1>2, Refits

(* A step of a command reaches its own package only.                       *)
LEMMA StepReaches ==
    ASSUME TypedInv, NEW w \in Proc, Step(w) \/ Die(w)
    PROVE  /\ UnderWay(w) /\ Mine(w) \in Package
           /\ \A other \in Proc : other # w => command'[other] = command[other]
           /\ \A p \in Package : p # Mine(w) =>
                directory'[p] = directory[p] /\ (p \in broken => p \in broken')
<1>1. UnderWay(w)
    BY DEF Step, Stage, Move, Compare, Empty, Emptied, Save, Replace, SaveFails, Die, At, UnderWay
<1>2. Mine(w) \in Package
    BY <1>1 DEF TypedInv, Held, UnderWay, Mine
<1>3. \A other \in Proc : other # w => command'[other] = command[other]
    BY GotoChanges, EndChanges, <1>1
    DEF Step, Stage, Move, Compare, Empty, Emptied, Save, Replace, SaveFails, Die
<1> SUFFICES ASSUME NEW p \in Package, p # Mine(w)
             PROVE  directory'[p] = directory[p] /\ (p \in broken => p \in broken')
    BY <1>1, <1>2, <1>3
<1>4. ASSUME NEW content, SetDirectory(w, content) PROVE directory'[p] = directory[p]
    BY <1>1, <1>4, SetDirectoryChanges
<1>5. /\ Breaks(w) => (p \in broken => p \in broken')
      /\ p \in broken => p \in broken \ {command[w].package}
    BY BreaksChanges DEF Mine
<1>6. Discard(w) => directory'[p] = directory[p] /\ (p \in broken => p \in broken')
    BY <1>1, DiscardChanges
<1>7. CASE Stage(w) \/ Save(w) \/ Replace(w)
    BY <1>5, <1>7 DEF Stage, Save, Replace
<1>8. CASE (\E copied \in Variant : Move(w, copied)) \/ Empty(w) \/ Emptied(w)
    BY <1>4, <1>5, <1>8 DEF Move, Empty, Emptied
<1>9. CASE Compare(w) \/ SaveFails(w) \/ Die(w)
    BY <1>5, <1>6, <1>9 DEF Compare, SaveFails, Die
<1> QED BY <1>7, <1>8, <1>9 DEF Step

LEMMA StepFits ==
    ASSUME TypedInv, NEW w \in Proc, Step(w) \/ Die(w)
    PROVE  \/ IndexReplaced
           \/ /\ UNCHANGED <<index, server, reader>>
              /\ \A p \in Package : Fits(p) => Fits(p)'
<1>1. SUFFICES ASSUME ~IndexReplaced
               PROVE  /\ UNCHANGED <<index, server, reader>>
                      /\ \A p \in Package : Fits(p) => Fits(p)'
    OBVIOUS
<1>2. UNCHANGED <<index, server, reader>>
    BY <1>1 DEF Step, Stage, Move, Compare, Empty, Emptied, Save, Replace, SaveFails, Die
<1> SUFFICES ASSUME NEW p \in Package, Fits(p) PROVE Fits(p)'
    BY <1>2
<1>3. UnderWay(w) /\ \A other \in Proc : other # w => command'[other] = command[other]
    BY StepReaches
<1>4. ASSUME p \in broken => p \in broken',
             \/ ~Intact(p)' \/ p \in broken' \/ PutsInPlace(w, p)'
             \/ directory'[p] = directory[p] /\ ~PutsInPlace(w, p)
      PROVE  Fits(p)'
  <2>1. \A other \in Proc : other # w => (PutsInPlace(other, p) => PutsInPlace(other, p)')
    BY <1>3 DEF PutsInPlace
  <2>2. CASE PutBack(p)'
    BY <1>2, <1>4, <2>2, Refits
  <2>3. CASE ~PutBack(p)'
    <3>1. ~PutsInPlace(w, p)' /\ (~PutsInPlace(w, p) => ~PutBack(p))
      BY <2>1, <2>3 DEF PutBack
    <3> QED BY <1>2, <1>4, <3>1, Refits
  <2> QED BY <2>2, <2>3
<1>5. CASE p # Mine(w)
  <2>1. directory'[p] = directory[p] /\ (p \in broken => p \in broken')
    BY <1>5, StepReaches
  <2>2. ~PutsInPlace(w, p)
    BY <1>5 DEF PutsInPlace, Mine
  <2> QED BY <1>4, <2>1, <2>2
<1>6. CASE p = Mine(w)
  <2>1. ASSUME NEW content, SetDirectory(w, content), content \in {None, "partial"}
        PROVE  p \in Indexed => ~Intact(p)'
    <3>1. index[p] # None => index[p] \in Variant
      BY DEF TypedInv, TypeOK, Index
    <3>2. directory'[p] = content /\ index'[p] = index[p]
      BY <1>2, <1>3, <1>6, <2>1, SetDirectoryChanges
    <3> QED BY <2>1, <3>1, <3>2, RegistryAssumption DEF Indexed, Intact
  <2>2. p \notin Indexed => Fits(p)'
    BY <1>2 DEF Fits, Indexed
  <2>3. ASSUME Breaks(w) PROVE Fits(p)'
    BY <1>4, <1>6, <2>3, BreaksChanges
  <2>4. ASSUME Discard(w) PROVE Fits(p)'
    <3>1. PICK rest \in {None, "partial", Directory(w)} :
              SetDirectory(w, rest) /\ IF rest = None THEN UNCHANGED broken ELSE Breaks(w)
      BY <2>4 DEF Discard
    <3>2. CASE rest = None
      BY <1>4, <2>1, <2>2, <3>1, <3>2
    <3> QED BY <2>3, <3>1, <3>2
  <2>5. ASSUME UNCHANGED <<directory, broken>>, command[w].does # "install" \/
               command[w].at \in {"loaded", "staged"}
        PROVE  Fits(p)'
    BY <1>4, <2>5 DEF PutsInPlace
  <2>6. ASSUME NEW at \in {"moved", "save", "replace"}, Goto(w, at), command[w].does = "install"
        PROVE  PutsInPlace(w, p)'
    BY <1>3, <1>6, <2>6, GotoChanges DEF PutsInPlace, Mine
  <2>7. CASE Stage(w)
    BY <2>5, <2>7 DEF Stage, At
  <2>8. CASE \E copied \in Variant : Move(w, copied)
    BY <1>4, <2>5, <2>6, <2>8 DEF Move, At
  <2>9. CASE Compare(w)
    BY <1>4, <2>4, <2>6, <2>9 DEF Compare, At
  <2>10. CASE Empty(w)
    BY <1>4, <2>1, <2>2, <2>5, <2>10 DEF Empty, At
  <2>11. CASE Emptied(w)
    BY <1>4, <2>1, <2>2, <2>3, <2>11 DEF Emptied
  <2>12. CASE Save(w)
    <3>1. CASE command[w].does = "install"
      BY <1>4, <2>6, <2>12, <3>1 DEF Save
    <3>2. CASE command[w].does # "install"
      BY <2>5, <2>12, <3>2 DEF Save
    <3> QED BY <3>1, <3>2
  <2>13. CASE Replace(w)
    BY <1>1, <2>13 DEF Replace
  <2>14. CASE SaveFails(w)
    BY <2>3, <2>4, <2>14 DEF SaveFails
  <2>15. CASE Die(w)
    BY <2>3, <2>15 DEF Die
  <2> QED BY <2>7, <2>8, <2>9, <2>10, <2>11, <2>12, <2>13, <2>14, <2>15 DEF Step
<1> QED BY <1>5, <1>6

(* A step of a command, before and after a refresh.                        *)
LEMMA CommandCurrent ==
    ASSUME CurrentInv, NEW w \in Proc, Begins(w) \/ Step(w) \/ Die(w)
    PROVE  CurrentInv'
<1>1. TypedInv /\ TypedInv'
    BY BeginsTyped, StepTyped DEF CurrentInv
<1>2. CASE IndexReplaced
  <2>1. /\ ~server'.current /\ server'.up = server.up
        /\ server'.refreshed = server.refreshed
        /\ \A t \in Thread : reader'[t] = [reader[t] EXCEPT !.current = FALSE]
    BY <1>1, <1>2 DEF IndexReplaced, TypedInv, TypeOK, Server
  <2>2. \A t \in Thread :
            /\ reader'[t].at = reader[t].at /\ reader'[t].constructs = reader[t].constructs
            /\ reader'[t].valid = reader[t].valid /\ reader'[t].alone = reader[t].alone
            /\ ~reader'[t].current
    BY <1>1, <2>1 DEF TypedInv, TypeOK, Refresh
  <2>3. ASSUME NEW t \in Thread PROVE ReaderFits(t)'
    <3>1. ReaderFits(t)
      BY DEF CurrentInv
    <3>2. \A u \in Thread : Refreshing(u)' = Refreshing(u)
      BY <2>2 DEF Refreshing
    <3> QED BY <2>1, <2>2, <3>1, <3>2 DEF ReaderFits
  <2> QED BY <1>1, <2>1, <2>3 DEF CurrentInv, Served
<1>3. CASE ~IndexReplaced
  <2>1. UNCHANGED <<index, server, reader>>
    BY <1>1, <1>3, StepFits DEF Begins, Install, Remove, Begin
  <2>2. ServesFit => ServesFit'
    BY <1>1, <1>3, BeginFits, StepFits DEF ServesFit
  <2> QED BY <1>1, <2>1, <2>2
          DEF CurrentInv, Served, ReaderFits, RefreshFits, Refreshing, Indexed
<1> QED BY <1>2, <1>3

(* The server.  A refresh that was alone is not disturbed by another       *)
(* thread, which makes it no longer alone when it begins its own.          *)
LEMMA OthersFit ==
    ASSUME CurrentInv, NEW t \in Thread, Asks(t), NEW u \in Thread \ {t}
    PROVE  ReaderFits(u)' /\ reader'[u].at = reader[u].at
<1>1. TypedInv /\ TypedInv' /\ UNCHANGED writers
    BY ReadTyped, AsksWriters DEF CurrentInv
<1>2. ReaderFits(t) /\ ReaderFits(u)
    BY DEF CurrentInv
<1>3. /\ reader[t] \in Refresh /\ reader[u] \in Refresh /\ server \in Server
      /\ reader \in [Thread -> Refresh]
    BY <1>1 DEF TypedInv, TypeOK
<1>4. server.up => server'.up
  <2>1. Fail(t) => server'.up = server.up
    BY <1>3 DEF Fail, Server
  <2> QED BY <1>3, <2>1
      DEF Asks, Read, Construct, ReadState, Unchanged, RefreshIfChanged, ListInstalled, Validate,
          SetRoots, Reload, ReloadFails, ReadFails, Record, Server
<1>5. ~reader[u].constructs
  <2>1. SUFFICES ASSUME reader[u].constructs PROVE FALSE
    OBVIOUS
  <2>2. reader[t].at = "idle" /\ ~server.up /\ reader[u].at # "idle"
    BY <1>2, <2>1 DEF ReaderFits, Refreshing
  <2> QED BY <2>2
      DEF Asks, Read, Construct, ReadState, Unchanged, RefreshIfChanged, ListInstalled, Validate,
          SetRoots, Reload, ReloadFails, ReadFails, Record
<1>6. CASE RefreshIfChanged(t)
  <2>1. reader'[u] = [reader[u] EXCEPT !.alone = FALSE] /\ UNCHANGED server
    BY <1>6 DEF RefreshIfChanged
  <2>2. /\ reader'[u].at = reader[u].at /\ reader'[u].constructs = reader[u].constructs
        /\ reader'[u].valid = reader[u].valid /\ ~reader'[u].alone
    BY <1>3, <2>1 DEF Refresh
  <2> QED BY <1>2, <1>5, <2>1, <2>2 DEF ReaderFits
<1>7. CASE ~RefreshIfChanged(t)
  <2>1. \A o \in Thread \ {t} : reader'[o] = reader[o]
    BY <1>3, <1>7
    DEF Asks, Read, Construct, ReadState, Unchanged, ListInstalled, Validate, Fail,
        SetRoots, Reload, ReloadFails, ReadFails, Record
  <2>2. ASSUME reader[u].alone PROVE UNCHANGED server /\ ~Refreshing(t)'
    <3>1. ~Refreshing(t) /\ reader[u].at # "idle"
      BY <1>2, <2>2 DEF ReaderFits, Refreshing
    <3>2. ReadState(t) \/ Unchanged(t)
      BY <1>7, <3>1
      DEF Asks, Read, Construct, ListInstalled, Validate, SetRoots, Reload, ReloadFails,
          ReadFails, Record, Refreshing
    <3>3. [Resting EXCEPT !.at = "compare", !.current = TRUE].at = "compare" /\ Resting.at = "idle"
      BY DEF Resting
    <3>4. reader'[t].at \in {"idle", "compare"} /\ UNCHANGED server
      BY <1>3, <3>2, <3>3 DEF ReadState, Unchanged
    <3> QED BY <3>4 DEF Refreshing
  <2>3. /\ reader'[u] = reader[u] /\ Refreshing(u)' = Refreshing(u)
        /\ (RefreshFits(u) /\ UNCHANGED server) => RefreshFits(u)'
    BY <1>1, <2>1
    DEF Refreshing, RefreshFits, ServesFit, Fits, Indexed, Intact, PutBack, PutsInPlace, writers
  <2>4. ASSUME reader[u].alone PROVE \A o \in Thread \ {u} : ~Refreshing(o)'
    <3>1. \A o \in Thread \ {u} : ~Refreshing(o)
      BY <1>2, <2>4 DEF ReaderFits
    <3> QED BY <2>1, <2>2, <2>4, <3>1 DEF Refreshing
  <2> QED BY <1>2, <1>4, <1>5, <2>2, <2>3, <2>4 DEF ReaderFits
<1> QED BY <1>6, <1>7

LEMMA ReadCurrent ==
    ASSUME CurrentInv, NEW t \in Thread, Asks(t)
    PROVE  CurrentInv'
<1>1. TypedInv /\ TypedInv' /\ UNCHANGED writers
    BY ReadTyped, AsksWriters DEF CurrentInv
<1>2. \A u \in Thread \ {t} : ReaderFits(u)' /\ reader'[u].at = reader[u].at
    BY OthersFit
<1> DEFINE Good == (server.refreshed => server.up)' /\ Served' /\ ReaderFits(t)'
<1> SUFFICES Good
    BY <1>1, <1>2 DEF CurrentInv
<1>3. ReaderFits(t) /\ (server.refreshed => server.up) /\ Served
    BY DEF CurrentInv
<1>4. ServesFit /\ UNCHANGED server.serves => ServesFit'
    BY <1>1 DEF ServesFit, Fits, Indexed, Intact, PutBack, PutsInPlace, writers
<1>5. /\ server \in Server /\ reader[t] \in Refresh /\ Indexed' = Indexed
      /\ reader \in [Thread -> Refresh]
    BY <1>1 DEF TypedInv, TypeOK, Indexed, writers
<1>6. ASSUME server'.current => server.current, server'.refreshed = server.refreshed,
             server'.up = server.up, server'.serves = server.serves, reader[t].at # "record"
      PROVE  (server.refreshed => server.up)' /\ Served'
  <2>1. (\A u \in Thread : reader'[u].at # "record") => \A u \in Thread : reader[u].at # "record"
    BY <1>2, <1>6
  <2> QED BY <1>3, <1>4, <1>6, <2>1 DEF Served
<1>7. ASSUME reader'[t] = Resting PROVE ReaderFits(t)'
    BY <1>7 DEF ReaderFits, Resting
<1>8. ASSUME Refreshing(t), Refreshing(t)', server'.up = server.up,
             reader'[t].constructs = reader[t].constructs,
             reader'[t].alone = reader[t].alone, reader'[t].current = reader[t].current,
             reader[t].alone /\ reader[t].current /\ RefreshFits(t) => RefreshFits(t)'
      PROVE  ReaderFits(t)'
  <2>1. \A u \in Thread \ {t} : Refreshing(u)' = Refreshing(u)
    BY <1>2 DEF Refreshing
  <2> QED BY <1>2, <1>3, <1>8, <2>1 DEF ReaderFits, Refreshing
<1> HIDE DEF Good
<1>9. ASSUME Fail(t), reader[t].at # "record" PROVE Good
  <2>1. reader'[t] = Resting
    BY <1>5, <1>9 DEF Fail
  <2>2. /\ server'.current = server.current /\ server'.refreshed = server.refreshed
        /\ server'.serves = server.serves /\ server'.up = server.up
    BY <1>5, <1>9 DEF Fail, Server
  <2> QED BY <1>6, <1>7, <1>9, <2>1, <2>2 DEF Good
<1>10. CASE Construct(t)
  <2>1. /\ UNCHANGED server /\ reader[t].at = "idle" /\ ~server.up
        /\ reader'[t] = [Resting EXCEPT !.at = "list", !.constructs = TRUE]
        /\ \A u \in Thread : reader[u].at = "idle"
    BY <1>5, <1>10 DEF Construct
  <2>2. ReaderFits(t)'
    BY <1>2, <2>1 DEF ReaderFits, Refreshing, Resting
  <2> QED BY <1>6, <2>1, <2>2 DEF Good
<1>11. CASE ReadState(t)
  <2>1. /\ UNCHANGED server /\ reader[t].at = "idle" /\ server.up
        /\ reader'[t] = [Resting EXCEPT !.at = "compare", !.current = TRUE]
    BY <1>5, <1>11 DEF ReadState
  <2>2. ReaderFits(t)'
    BY <2>1 DEF ReaderFits, Resting
  <2> QED BY <1>6, <2>1, <2>2 DEF Good
<1>12. CASE Unchanged(t)
  <2>1. UNCHANGED server /\ reader[t].at = "compare" /\ reader'[t] = Resting
    BY <1>5, <1>12 DEF Unchanged
  <2> QED BY <1>6, <1>7, <2>1 DEF Good
<1>13. CASE RefreshIfChanged(t)
  <2> DEFINE alone == \A o \in Thread \ {t} : ~Refreshing(o)
  <2>1. /\ UNCHANGED server /\ reader[t].at = "compare"
        /\ reader'[t] = [reader[t] EXCEPT !.at = "list", !.previous = server.roots,
                                          !.alone = alone]
    BY <1>13 DEF RefreshIfChanged
  <2>2. /\ reader'[t].at = "list" /\ reader'[t].constructs = reader[t].constructs
        /\ reader'[t].valid = reader[t].valid /\ reader'[t].alone = alone
    <3> HIDE DEF alone
    <3> QED BY <1>5, <2>1 DEF Refresh
  <2>3. ~reader[t].constructs /\ reader[t].valid = {} /\ server.up
    BY <1>3, <2>1 DEF ReaderFits, Refreshing
  <2>4. alone => \A o \in Thread \ {t} : ~Refreshing(o)'
    BY <1>2 DEF Refreshing
  <2>5. ReaderFits(t)'
    BY <2>1, <2>2, <2>3, <2>4 DEF ReaderFits, RefreshFits, Refreshing
  <2> QED BY <1>6, <2>1, <2>5 DEF Good
<1>14. CASE ListInstalled(t)
  <2>1. /\ UNCHANGED server /\ reader[t].at = "list"
        /\ reader'[t] = [reader[t] EXCEPT !.at = "validate", !.todo = Indexed]
    BY <1>5, <1>14 DEF ListInstalled
  <2>2. /\ reader'[t].at = "validate" /\ reader'[t].todo = Indexed
        /\ reader'[t].constructs = reader[t].constructs /\ reader'[t].alone = reader[t].alone
        /\ reader'[t].current = reader[t].current /\ reader'[t].valid = reader[t].valid
    BY <1>5, <2>1 DEF Refresh
  <2>3. RefreshFits(t) => RefreshFits(t)'
    BY <1>5, <2>1, <2>2 DEF RefreshFits
  <2>4. ReaderFits(t)'
    BY <1>8, <2>1, <2>2, <2>3 DEF Refreshing
  <2> QED BY <1>6, <2>1, <2>4 DEF Good
<1>15. CASE Validate(t)
  <2> DEFINE p == CHOOSE q \in reader[t].todo : TRUE
  <2>0. p \in reader[t].todo /\ reader[t].at = "validate"
    BY <1>15 DEF Validate
  <2> HIDE DEF p
  <2>1. CASE Intact(p)
    <3> DEFINE todo == reader[t].todo \ {p}
               valid == reader[t].valid \cup {p}
    <3>1. UNCHANGED server
      BY <1>15, <2>1 DEF Validate, p
    <3>2. reader'[t] = [[reader[t] EXCEPT !.todo = todo] EXCEPT !.valid = valid]
      BY <1>5, <1>15, <2>1 DEF Validate, p
    <3>3. todo \cup valid = reader[t].todo \cup reader[t].valid
      BY <2>0
    <3>4. /\ reader'[t].at = reader[t].at /\ reader'[t].todo = todo
          /\ reader'[t].valid = valid /\ reader'[t].alone = reader[t].alone
          /\ reader'[t].constructs = reader[t].constructs
          /\ reader'[t].current = reader[t].current
      BY <1>5, <3>2 DEF Refresh
    <3> HIDE DEF todo, valid
    <3>5. RefreshFits(t) => RefreshFits(t)'
      BY <1>5, <2>0, <3>3, <3>4 DEF RefreshFits
    <3>6. ReaderFits(t)'
      BY <1>8, <2>0, <3>1, <3>4, <3>5 DEF Refreshing
    <3> QED BY <1>6, <2>0, <3>1, <3>6 DEF Good
  <2>2. CASE ~Intact(p)
    BY <1>9, <1>15, <2>0, <2>2 DEF Validate, p
  <2> QED BY <2>1, <2>2
<1>16. CASE SetRoots(t)
  <2>1. /\ reader[t].at = "validate" /\ reader[t].todo = {}
        /\ server'.roots = reader[t].valid /\ server'.up = server.up
        /\ server'.current = (reader[t].constructs \/ server.current)
        /\ server'.refreshed = server.refreshed
        /\ server'.serves = server.serves
    BY <1>5, <1>16 DEF SetRoots, Server
  <2>2. reader'[t] = [reader[t] EXCEPT !.at = "reload"]
    BY <1>5, <1>16 DEF SetRoots
  <2>3. /\ reader'[t].at = "reload" /\ reader'[t].constructs = reader[t].constructs
        /\ reader'[t].current = reader[t].current /\ reader'[t].alone = reader[t].alone
    BY <1>5, <2>2 DEF Refresh
  <2>4. RefreshFits(t) => RefreshFits(t)'
    BY <1>5, <2>1, <2>3 DEF RefreshFits
  <2>5. ReaderFits(t)'
    BY <1>8, <2>1, <2>3, <2>4 DEF Refreshing
  <2>6. CASE reader[t].constructs
    <3>1. ~server'.refreshed
      BY <1>3, <2>1, <2>6 DEF ReaderFits
    <3> QED BY <2>5, <3>1 DEF Good, Served
  <2>7. CASE ~reader[t].constructs
    BY <1>6, <2>1, <2>5, <2>7 DEF Good
  <2> QED BY <2>6, <2>7
<1>17. CASE Reload(t)
  <2>1. /\ reader[t].at = "reload" /\ server'.up
        /\ server'.refreshed = server.refreshed
        /\ server'.serves = [p \in Package |->
                IF p \in server.roots THEN Found(p) ELSE None]
    BY <1>5, <1>17 DEF Reload, Server
  <2>2. server.roots = Indexed => ServesFit'
    <3> SUFFICES ASSUME server.roots = Indexed, NEW p \in Package PROVE Fits(p)'
      BY DEF ServesFit
    <3>1. "partial" \notin Variant /\ None \notin Variant /\ index[p] \in Variant \cup {None}
      BY <1>1, RegistryAssumption DEF TypedInv, TypeOK, Index
    <3>2. index' = index /\ directory' = directory
      BY <1>1 DEF writers
    <3>3. server'.serves[p] = IF index[p] # None THEN Found(p) ELSE None
      BY <2>1 DEF Indexed
    <3>4. CASE index[p] = None
      BY <3>2, <3>3, <3>4 DEF Fits
    <3>5. CASE index[p] # None
      <4>1. p \in Indexed' /\ server'.serves[p] = Found(p)
        BY <3>2, <3>3, <3>5 DEF Indexed
      <4>2. CASE Intact(p)
        <5>1. Found(p) = index[p]
          BY <3>1, <4>2 DEF Intact, Found
        <5> QED BY <3>2, <4>1, <5>1 DEF Fits
      <4>3. CASE ~Intact(p)
        <5>1. ~Intact(p)'
          BY <3>2, <4>3 DEF Intact
        <5> QED BY <4>1, <5>1 DEF Fits
      <4> QED BY <4>2, <4>3
    <3> QED BY <3>4, <3>5
  <2>3. CASE reader[t].constructs
    <3>1. reader'[t] = Resting
      BY <1>5, <1>17, <2>3 DEF Reload
    <3>2. ~server'.refreshed
      BY <1>3, <2>1, <2>3 DEF ReaderFits
    <3> QED BY <1>7, <3>1, <3>2 DEF Good, Served
  <2>4. CASE ~reader[t].constructs
    <3>1. reader'[t] = [reader[t] EXCEPT !.at = "record"]
      BY <1>5, <1>17, <2>4 DEF Reload
    <3>2. /\ reader'[t].at = "record" /\ reader'[t].constructs = reader[t].constructs
          /\ reader'[t].current = reader[t].current /\ reader'[t].alone = reader[t].alone
      BY <1>5, <3>1 DEF Refresh
    <3>3. RefreshFits(t) => RefreshFits(t)'
      BY <2>1, <2>2, <3>2 DEF RefreshFits
    <3>4. server.up
      BY <1>3, <2>1, <2>4 DEF ReaderFits
    <3>5. ReaderFits(t)'
      BY <1>8, <2>1, <3>2, <3>3, <3>4 DEF Refreshing, Server
    <3> QED BY <2>1, <3>2, <3>5 DEF Good, Served
  <2> QED BY <2>3, <2>4
<1>18. CASE ReloadFails(t) \/ ReadFails(t)
    BY <1>9, <1>18 DEF ReloadFails, ReadFails
<1>19. CASE Record(t)
  <2>1. /\ reader[t].at = "record" /\ server'.up = server.up
        /\ server'.current = reader[t].current /\ server'.refreshed = reader[t].alone
        /\ server'.serves = server.serves
    BY <1>5, <1>19 DEF Record, Server, Refresh
  <2>2. reader'[t] = Resting
    BY <1>5, <1>19 DEF Record
  <2>3. reader[t].alone => server.up /\ (reader[t].current => ServesFit)
    BY <1>3, <2>1 DEF ReaderFits, RefreshFits
  <2> QED BY <1>4, <1>7, <2>1, <2>2, <2>3 DEF Good, Served
<1> QED BY <1>10, <1>11, <1>12, <1>13, <1>14, <1>15, <1>16, <1>17, <1>18, <1>19 DEF Asks, Read

LEMMA NextCurrent == CurrentInv /\ [Next]_vars => CurrentInv'
<1> SUFFICES ASSUME CurrentInv, [Next]_vars PROVE CurrentInv'
    OBVIOUS
<1>1. CASE UNCHANGED vars
  <2>1. TypedInv'
    BY <1>1, NextTyped DEF CurrentInv
  <2> QED BY <1>1, <2>1 DEF CurrentInv, Served, ServesFit, Fits, Indexed, Intact, PutBack,
                            PutsInPlace, ReaderFits, RefreshFits, Refreshing, vars
<1>2. CASE Next
    BY <1>2, CommandCurrent, ReadCurrent DEF Next, Begins, Asks
<1> QED BY <1>1, <1>2

(* Once a refresh that no other overlapped has remembered the index's      *)
(* state, the server has loaded what that index says, however many threads *)
(* ask it, and however commands overlap with it, fail and are killed:      *)
(* Registry.refresh_if_changed reads the state first.                      *)
THEOREM RefreshedStaysCurrent == Spec => []RefreshedServerIsCurrent
<1>1. CurrentInv => RefreshedServerIsCurrent
    BY DEF CurrentInv, Served, ServesFit, Fits, PutBack, RefreshedServerIsCurrent
<1> QED BY InitCurrent, NextCurrent, <1>1, PTL DEF Spec

-----------------------------------------------------------------------------
(* Packages: archives and what is read from them.                          *)

(* Files as collect_package_files gives them: one for a path, none of them *)
(* the list of checksums.                                                  *)
FileSet(files) ==
    /\ \A file \in files : file = [path |-> file.path, content |-> file.content]
    /\ \A file \in files : file.path # Checksums

OnePerPath(files) == \A file, other \in files : file.path = other.path => file = other

LEMMA SpecialPaths ==
    /\ CantoYaml # ManifestYaml /\ CantoYaml # Checksums /\ ManifestYaml # Checksums
    /\ ~Excluded(CantoYaml)
<1>1. CantoYaml # ManifestYaml /\ CantoYaml # Checksums /\ ManifestYaml # Checksums
    BY DEF CantoYaml, ManifestYaml, Checksums
<1>2. ~Excluded(CantoYaml)
    <2>1. Len(CantoYaml) = 1 /\ CantoYaml[1] = "canto.yaml"
        BY DEF CantoYaml
    <2> QED BY <2>1 DEF Excluded, ExcludedFiles, ExcludedDirectories
<1> QED BY <1>1, <1>2

(* Extraction gives the packed files and their list.                       *)
LEMMA ExtractArchive ==
    ASSUME NEW files, FileSet(files)
    PROVE  Extract(Archive(files)) = files \cup {ListOf(files)}
<1> DEFINE all == files \cup {ListOf(files)}
<1>1. \A file \in all : file = [path |-> file.path, content |-> file.content]
    BY DEF FileSet, ListOf
<1>2. Archive(files) =
        {[path |-> file.path, kind |-> "file", content |-> file.content] : file \in all}
    BY DEF Archive
<1> HIDE DEF all
<1>3. ASSUME NEW file \in all PROVE file \in Extract(Archive(files))
    <2> DEFINE entry == [path |-> file.path, kind |-> "file", content |-> file.content]
    <2>1. entry \in Archive(files)
        BY <1>2
    <2>2. file = [path |-> entry.path, content |-> entry.content]
        BY <1>1
    <2> QED BY <2>1, <2>2 DEF Extract
<1>4. ASSUME NEW file \in Extract(Archive(files)) PROVE file \in all
    <2>1. PICK entry \in Archive(files) :
            file = [path |-> entry.path, content |-> entry.content]
        BY DEF Extract
    <2>2. PICK source \in all :
            entry = [path |-> source.path, kind |-> "file", content |-> source.content]
        BY <1>2
    <2>3. file = [path |-> source.path, content |-> source.content]
        BY <2>1, <2>2
    <2> QED BY <2>3, <1>1
<1>5. Extract(Archive(files)) = all
    BY <1>3, <1>4
<1> QED BY <1>5 DEF all

(* The entries of an archive of files are records of three fields, and     *)
(* have the paths of what is extracted.                                    *)
LEMMA ArchiveEntries ==
    ASSUME NEW files
    PROVE  /\ \A entry \in Archive(files) :
                entry = [path |-> entry.path, kind |-> "file", content |-> entry.content]
           /\ \A file \in files \cup {ListOf(files)} :
                [path |-> file.path, kind |-> "file", content |-> file.content]
                    \in Archive(files)
BY DEF Archive

LEMMA ExtractPaths == \A archive : Paths(Extract(archive)) = Paths(archive)
<1> SUFFICES ASSUME NEW archive PROVE Paths(Extract(archive)) = Paths(archive)
    OBVIOUS
<1>1. ASSUME NEW path \in Paths(archive) PROVE path \in Paths(Extract(archive))
    <2>1. PICK entry \in archive : path = entry.path
        BY DEF Paths
    <2> DEFINE file == [path |-> entry.path, content |-> entry.content]
    <2>2. file \in Extract(archive) /\ file.path = path
        BY <2>1 DEF Extract
    <2> QED BY <2>2 DEF Paths
<1>2. ASSUME NEW path \in Paths(Extract(archive)) PROVE path \in Paths(archive)
    <2>1. PICK file \in Extract(archive) : path = file.path
        BY DEF Paths
    <2>2. PICK entry \in archive : file = [path |-> entry.path, content |-> entry.content]
        BY <2>1 DEF Extract
    <2>3. entry.path = path
        BY <2>1, <2>2
    <2> QED BY <2>3 DEF Paths
<1> QED BY <1>1, <1>2

(* Where an archive has a path once, what is read from there is the        *)
(* content of any entry of the path, before and after extraction.          *)
LEMMA ReadOnce ==
    ASSUME NEW archive, NEW entry \in archive, Once(archive, entry.path)
    PROVE  /\ \A other \in archive : other.path = entry.path => other = entry
           /\ ContentOf(archive, entry.path) = entry.content
           /\ ContentOf(Extract(archive), entry.path) = entry.content
<1>1. \A other \in archive : other.path = entry.path => other = entry
    <2>1. PICK only \in archive : {other \in archive : other.path = entry.path} = {only}
        BY DEF Once
    <2> QED BY <2>1
<1>2. ContentOf(archive, entry.path) = entry.content
    <2>1. (CHOOSE file \in archive : file.path = entry.path) = entry
        BY <1>1
    <2> QED BY <2>1 DEF ContentOf
<1>3. ContentOf(Extract(archive), entry.path) = entry.content
    <2> DEFINE it == [path |-> entry.path, content |-> entry.content]
               extracted == Extract(archive)
    <2>1. it \in extracted /\ it.path = entry.path /\ it.content = entry.content
        BY DEF Extract
    <2>2. ASSUME NEW file \in extracted, file.path = entry.path PROVE file = it
        <3>1. PICK other \in archive : file = [path |-> other.path, content |-> other.content]
            BY DEF Extract
        <3>2. other.path = entry.path
            BY <3>1, <2>2
        <3> QED BY <3>1, <3>2, <1>1
    <2> HIDE DEF it, extracted
    <2>3. (CHOOSE file \in extracted : file.path = entry.path) = it
        BY <2>1, <2>2
    <2> QED BY <2>1, <2>3 DEF ContentOf, extracted
<1> QED BY <1>1, <1>2, <1>3

(* What is collected.                                                      *)
LEMMA CollectedFiles ==
    ASSUME NEW source, NEW replaceChecksums, NEW files \in Collect(source, replaceChecksums)
    PROVE  /\ FileSet(files)
           /\ \A file \in files :
                ~Excluded(file.path) /\ file.path # ManifestYaml /\ file.content # Link
<1> DEFINE kept == {file \in source :
                      ~Excluded(file.path) /\ ~(file.path = Checksums /\ replaceChecksums)}
<1>1. /\ ~HasLink(source) /\ Checksums \notin Paths(kept)
      /\ files = Packed(kept)
    BY DEF Collect
<1>2. ASSUME NEW file \in files
      PROVE  /\ file = [path |-> file.path, content |-> file.content]
             /\ file.path # Checksums
             /\ ~Excluded(file.path) /\ file.path # ManifestYaml /\ file.content # Link
    <2>1. PICK it \in kept :
            file = [path |-> IF it.path = ManifestYaml THEN CantoYaml ELSE it.path,
                    content |-> it.content]
        BY <1>1 DEF Packed
    <2>2. it.path # Checksums
        BY <1>1 DEF Paths
    <2>3. ~Excluded(it.path) /\ it.content # Link
        BY <1>1 DEF HasLink
    <2>4. CASE it.path = ManifestYaml
        <3>1. file = [path |-> CantoYaml, content |-> it.content]
            BY <2>1, <2>4
        <3> QED BY <3>1, <2>3, SpecialPaths
    <2>5. CASE it.path # ManifestYaml
        <3>1. file = [path |-> it.path, content |-> it.content]
            BY <2>1, <2>5
        <3> QED BY <3>1, <2>2, <2>3, <2>5
    <2> QED BY <2>4, <2>5
<1> QED BY <1>2 DEF FileSet

(* Files that have nothing excluded, no link and no manifest.yaml are      *)
(* collected as they are from a directory that has them and a list of      *)
(* checksums.                                                              *)
LEMMA CollectedAgain ==
    ASSUME NEW files, FileSet(files),
           \A file \in files :
              ~Excluded(file.path) /\ file.path # ManifestYaml /\ file.content # Link
    PROVE  Collect(files \cup {ListOf(files)}, TRUE) = {files}
<1> DEFINE source == files \cup {ListOf(files)}
           kept == {file \in source : ~Excluded(file.path) /\ ~(file.path = Checksums /\ TRUE)}
<1>1. ListOf(files).path = Checksums
    BY DEF ListOf
<1>2. kept = files
    BY <1>1 DEF FileSet
<1>3. Packed(files) = files
    BY DEF Packed, FileSet
<1>4. ~HasLink(source)
    <2>1. ListOf(files).content # Link
        <3>1. "link" \notin DOMAIN ListOf(files).content
            BY DEF ListOf
        <3>2. "link" \in DOMAIN Link
            BY DEF Link
        <3> QED BY <3>1, <3>2
    <2> QED BY <2>1 DEF HasLink
<1>5. Checksums \notin Paths(files)
    BY DEF Paths, FileSet
<1>6. Collect(source, TRUE) =
        IF HasLink(source) \/ Checksums \in Paths(kept) THEN {} ELSE {Packed(kept)}
    BY DEF Collect
<1> HIDE DEF source, kept
<1>7. Collect(source, TRUE) = {files}
    BY <1>2, <1>3, <1>4, <1>5, <1>6
<1> QED BY <1>7 DEF source
(* An archive of files is valid, but for its contents, when each path      *)
(* occurs once and is safe.                                                *)
LEMMA ArchiveOnce ==
    ASSUME NEW files, FileSet(files), OnePerPath(files), NEW entry \in Archive(files)
    PROVE  Once(Archive(files), entry.path)
<1>1. ASSUME NEW other \in Archive(files), other.path = entry.path PROVE other = entry
    <2>1. PICK one \in files \cup {ListOf(files)} :
            entry = [path |-> one.path, kind |-> "file", content |-> one.content]
        BY DEF Archive
    <2>2. PICK two \in files \cup {ListOf(files)} :
            other = [path |-> two.path, kind |-> "file", content |-> two.content]
        BY DEF Archive
    <2>3. one.path = two.path
        BY <2>1, <2>2, <1>1
    <2>4. ListOf(files).path = Checksums
        BY DEF ListOf
    <2>5. one = two
        BY <2>3, <2>4 DEF FileSet, OnePerPath
    <2> QED BY <2>1, <2>2, <2>5
<1>2. {other \in Archive(files) : other.path = entry.path} = {entry}
    BY <1>1
<1> QED BY <1>2 DEF Once

LEMMA ArchiveList ==
    ASSUME NEW files, FileSet(files), Once(Archive(files), Checksums)
    PROVE  ValidChecksums(Archive(files))
<1> DEFINE entry == [path |-> Checksums, kind |-> "file", content |-> ListOf(files).content]
           list == [checksums |-> files, wellFormed |-> TRUE]
<1>1. entry \in Archive(files) /\ entry.path = Checksums /\ entry.content = list
    <2>1. ListOf(files).path = Checksums /\ ListOf(files).content = list
        BY DEF ListOf
    <2>2. [path |-> ListOf(files).path, kind |-> "file", content |-> ListOf(files).content]
            \in Archive(files)
        BY ArchiveEntries
    <2> QED BY <2>1, <2>2
<1>2. ContentOf(Archive(files), Checksums) = list
    <2> HIDE DEF entry, list
    <2> QED BY <1>1, ReadOnce
<1>3. IsChecksums(list) /\ list.wellFormed /\ list.checksums = files
    BY DEF IsChecksums
<1>4. {file \in Extract(Archive(files)) : file.path # Checksums} = files
    <2>1. ListOf(files).path = Checksums
        BY DEF ListOf
    <2>2. Extract(Archive(files)) = files \cup {ListOf(files)}
        BY ExtractArchive
    <2> QED BY <2>1, <2>2 DEF FileSet
<1> HIDE DEF list
<1> QED BY <1>2, <1>3, <1>4 DEF ValidChecksums

(* A package is the archive of files that were collected.                  *)
LEMMA PackageIsArchive ==
    ASSUME NEW package \in Packages
    PROVE  /\ ValidPackage(package)
           /\ \E files : /\ package = Archive(files) /\ FileSet(files)
                         /\ \A file \in files : /\ ~Excluded(file.path)
                                                /\ file.path # ManifestYaml
                                                /\ file.content # Link
<1>1. PICK source \in Source : package \in Pack(source, FALSE)
    BY DEF Packages
<1>2. PICK files \in Collect(source, FALSE) : package = Archive(files) /\ ValidPackage(package)
    BY <1>1 DEF Pack
<1> QED BY <1>2, CollectedFiles

-----------------------------------------------------------------------------
(* Export.                                                                 *)

(* The directory of a package, as install made it, can be packed: its      *)
(* manifest is the one that was validated in the package.                  *)
LEMMA InstalledIsSource ==
    ASSUME NEW archive, ValidContents(archive), ManifestYaml \notin Paths(archive)
    PROVE  ValidSource(Extract(archive))
<1> DEFINE m == ContentOf(archive, CantoYaml).manifest
           source == Extract(archive)
<1>1. PICK entry \in archive : entry.path = CantoYaml
    BY DEF ValidContents, Once
<1>2. ContentOf(source, CantoYaml) = ContentOf(archive, CantoYaml)
    <2>1. Once(archive, entry.path)
        BY <1>1 DEF ValidContents
    <2>2. ContentOf(archive, entry.path) = entry.content
          /\ ContentOf(source, entry.path) = entry.content
        BY <2>1, ReadOnce
    <2> QED BY <2>2, <1>1
<1>3. Paths(source) = Paths(archive)
    BY ExtractPaths
<1>4. ManifestsIn(source) = {CantoYaml}
    <2>1. CantoYaml \in Paths(archive)
        BY <1>1 DEF Paths
    <2> QED BY <2>1, <1>3 DEF ManifestsIn
<1>5. /\ IsManifest(ContentOf(archive, CantoYaml)) /\ ValidManifest(m)
      /\ BindingFiles(m) \subseteq Paths(archive)
    BY DEF ValidContents
<1> HIDE DEF source
<1>6. /\ IsManifest(ContentOf(source, CantoYaml))
      /\ ValidManifest(ContentOf(source, CantoYaml).manifest)
      /\ BindingFiles(ContentOf(source, CantoYaml).manifest) \subseteq Paths(source)
    BY <1>2, <1>3, <1>5
<1>7. ValidSource(source)
    BY <1>4, <1>6 DEF ValidSource
<1> QED BY <1>7 DEF source

LEMMA ExportReturnsPackages == ExportReturns
<1> SUFFICES ASSUME NEW package \in Packages PROVE Export(Extract(package)) = {package}
    BY DEF ExportReturns
<1>1. PICK files : /\ package = Archive(files) /\ FileSet(files)
                   /\ \A file \in files : /\ ~Excluded(file.path) /\ file.path # ManifestYaml
                                          /\ file.content # Link
    BY PackageIsArchive
<1>2. ValidPackage(package)
    BY PackageIsArchive
<1>3. Extract(package) = files \cup {ListOf(files)}
    BY <1>1, ExtractArchive
<1>4. Collect(Extract(package), TRUE) = {files}
    BY <1>1, <1>3, CollectedAgain
<1>5. ManifestYaml \notin Paths(package)
    <2>1. ManifestYaml \notin Paths(Extract(package))
        BY <1>1, <1>3, SpecialPaths DEF Paths, ListOf
    <2> QED BY <2>1, ExtractPaths
<1>6. ValidSource(Extract(package))
    BY <1>2, <1>5, InstalledIsSource DEF ValidPackage
<1>7. Pack(Extract(package), TRUE) =
        {archive \in {Archive(collected) : collected \in {files}} : ValidPackage(archive)}
    BY <1>4, <1>6 DEF Pack
<1>8. Pack(Extract(package), TRUE) = {package}
    BY <1>1, <1>2, <1>7
<1> QED BY <1>8 DEF Export

-----------------------------------------------------------------------------
(* Damage.                                                                 *)

(* A valid archive that has the list of a package is the package: its      *)
(* entries are the list and what the list has a record of.                 *)
LEMMA ListDetermines ==
    ASSUME NEW files, FileSet(files), NEW archive, ValidPackage(archive),
           \A entry \in archive :
              entry = [path |-> entry.path, kind |-> "file", content |-> entry.content],
           [path |-> Checksums, kind |-> "file", content |-> ListOf(files).content] \in archive
    PROVE  archive = Archive(files)
<1> DEFINE listed == [path |-> Checksums, kind |-> "file", content |-> ListOf(files).content]
<1>1. listed.path = Checksums /\ listed.content = [checksums |-> files, wellFormed |-> TRUE]
    BY DEF ListOf
<1>2. listed \in archive
    OBVIOUS
<1> HIDE DEF listed
<1>3. Once(archive, Checksums)
    BY DEF ValidPackage, ValidChecksums
<1>4. /\ ContentOf(archive, Checksums) = listed.content
      /\ \A entry \in archive : entry.path = Checksums => entry = listed
    BY <1>1, <1>2, <1>3, ReadOnce
<1>5. files = {file \in Extract(archive) : file.path # Checksums}
    <2>1. ContentOf(archive, Checksums).checksums
            = {file \in Extract(archive) : file.path # Checksums}
        BY DEF ValidPackage, ValidChecksums
    <2>2. ContentOf(archive, Checksums).checksums = files
        BY <1>1, <1>4
    <2> QED BY <2>1, <2>2
<1>6. ASSUME NEW entry \in archive PROVE entry \in Archive(files)
    <2>1. CASE entry.path = Checksums
        <3>1. entry = listed
            BY <1>4, <2>1
        <3>2. ListOf(files).path = Checksums
            BY DEF ListOf
        <3>3. listed \in Archive(files)
            BY <3>2, ArchiveEntries DEF listed
        <3> QED BY <3>1, <3>3
    <2>2. CASE entry.path # Checksums
        <3> DEFINE file == [path |-> entry.path, content |-> entry.content]
        <3>1. file \in Extract(archive) /\ file.path # Checksums
            BY <2>2 DEF Extract
        <3>2. file \in files
            BY <3>1, <1>5
        <3>3. [path |-> file.path, kind |-> "file", content |-> file.content]
                \in Archive(files)
            BY <3>2, ArchiveEntries
        <3>4. entry = [path |-> file.path, kind |-> "file", content |-> file.content]
            OBVIOUS
        <3> QED BY <3>3, <3>4
    <2> QED BY <2>1, <2>2
<1>7. ASSUME NEW entry \in Archive(files) PROVE entry \in archive
    <2>1. PICK file \in files \cup {ListOf(files)} :
            entry = [path |-> file.path, kind |-> "file", content |-> file.content]
        BY DEF Archive
    <2>2. CASE file = ListOf(files)
        <3>1. ListOf(files).path = Checksums
            BY DEF ListOf
        <3> QED BY <2>1, <2>2, <3>1
    <2>3. CASE file \in files
        <3>1. file \in Extract(archive)
            BY <1>5, <2>3
        <3>2. PICK source \in archive :
                file = [path |-> source.path, content |-> source.content]
            BY <3>1 DEF Extract
        <3>3. source = [path |-> source.path, kind |-> "file", content |-> source.content]
            OBVIOUS
        <3>4. entry = source
            BY <2>1, <3>2, <3>3
        <3> QED BY <3>4
    <2> QED BY <2>2, <2>3
<1> QED BY <1>6, <1>7

LEMMA DamageShowsInPackages == DamageShows
<1> SUFFICES ASSUME NEW package \in Packages, NEW path \in Paths(package) \cup Added
             PROVE  LET others == {entry \in package : entry.path # path}
                    IN /\ others # package => ~ValidPackage(others)
                       /\ \A content \in Damage :
                            LET entry == [path |-> path, kind |-> "file", content |-> content]
                            IN entry \notin package => ~ValidPackage(others \cup {entry})
    BY DEF DamageShows
<1> DEFINE others == {entry \in package : entry.path # path}
<1>1. PICK files : package = Archive(files) /\ FileSet(files)
    BY PackageIsArchive
<1> DEFINE listed == [path |-> Checksums, kind |-> "file", content |-> ListOf(files).content]
<1>2. \A entry \in package :
        entry = [path |-> entry.path, kind |-> "file", content |-> entry.content]
    BY <1>1, ArchiveEntries
<1>3. listed \in package /\ listed.path = Checksums
    <2>1. ListOf(files).path = Checksums
        BY DEF ListOf
    <2> QED BY <1>1, <2>1, ArchiveEntries
<1>4. listed \in others <=> path # Checksums
    BY <1>3
<1>5. ASSUME others # package, ValidPackage(others) PROVE FALSE
    <2>1. Once(others, Checksums)
        BY <1>5 DEF ValidPackage, ValidChecksums
    <2>2. path # Checksums
        BY <2>1 DEF Once
    <2>3. \A entry \in others :
            entry = [path |-> entry.path, kind |-> "file", content |-> entry.content]
        BY <1>2
    <2>4. listed \in others
        BY <1>4, <2>2
    <2>5. others = Archive(files)
        <3> HIDE DEF others
        <3> QED BY <1>1, <1>5, <2>3, <2>4, ListDetermines
    <2> QED BY <1>1, <1>5, <2>5
<1>6. ASSUME NEW content \in Damage,
             [path |-> path, kind |-> "file", content |-> content] \notin package,
             ValidPackage(others
                \cup {[path |-> path, kind |-> "file", content |-> content]})
      PROVE  FALSE
    <2> DEFINE entry == [path |-> path, kind |-> "file", content |-> content]
               archive == others \cup {entry}
    <2>1. \A one \in archive :
            one = [path |-> one.path, kind |-> "file", content |-> one.content]
        BY <1>2
    <2>2. entry.path = path /\ entry.content = content /\ entry \in archive
        OBVIOUS
    <2>3. CASE path # Checksums
        <3>1. listed \in archive
            BY <1>4, <2>3
        <3>2. archive = Archive(files)
            <4> HIDE DEF archive
            <4> QED BY <1>1, <1>6, <2>1, <3>1, ListDetermines DEF archive, entry
        <3>3. entry \in package
            BY <1>1, <2>2, <3>2
        <3> QED BY <3>3, <1>6
    <2>4. CASE path = Checksums
        <3>1. ValidChecksums(archive)
            BY <1>6 DEF ValidPackage
        <3>2. Once(archive, entry.path)
            BY <2>2, <2>4, <3>1 DEF ValidChecksums
        <3>3. ContentOf(archive, Checksums) = content
            <4> HIDE DEF archive, entry
            <4> QED BY <2>2, <2>4, <3>2, ReadOnce
        <3>4. /\ IsChecksums(content) /\ content.wellFormed
              /\ content.checksums = {file \in Extract(archive) : file.path # Checksums}
            <4> HIDE DEF archive, entry
            <4> QED BY <3>1, <3>3 DEF ValidChecksums
        <3>5. {file \in Extract(archive) : file.path # Checksums} = files
            <4>1. ASSUME NEW file \in Extract(archive), file.path # Checksums
                  PROVE  file \in files
                <5>1. PICK one \in archive : file = [path |-> one.path, content |-> one.content]
                    BY DEF Extract
                <5>2. one \in package
                    BY <2>4, <4>1, <5>1
                <5>3. file \in Extract(package)
                    BY <5>1, <5>2 DEF Extract
                <5>4. Extract(package) = files \cup {ListOf(files)}
                    BY <1>1, ExtractArchive
                <5> QED BY <4>1, <5>3, <5>4 DEF ListOf
            <4>2. ASSUME NEW file \in files
                  PROVE  file \in Extract(archive) /\ file.path # Checksums
                <5>1. file.path # Checksums
                        /\ file = [path |-> file.path, content |-> file.content]
                    BY <1>1 DEF FileSet
                <5> DEFINE one == [path |-> file.path, kind |-> "file", content |-> file.content]
                <5>2. one \in package
                    BY <1>1, ArchiveEntries
                <5>3. one \in archive
                    BY <2>4, <5>1, <5>2
                <5>4. file = [path |-> one.path, content |-> one.content]
                    BY <5>1
                <5> QED BY <5>1, <5>3, <5>4 DEF Extract
            <4> QED BY <4>1, <4>2
        <3>6. content = [checksums |-> content.checksums, wellFormed |-> content.wellFormed]
                /\ content.wellFormed \in BOOLEAN
            BY <3>4, PackagingAssumption DEF IsChecksums
        <3>7. content = [checksums |-> files, wellFormed |-> TRUE]
            BY <3>4, <3>5, <3>6
        <3>8. entry = listed
            BY <2>4, <3>7 DEF ListOf
        <3> QED BY <1>3, <1>6, <3>8
    <2> QED BY <2>3, <2>4
<1> QED BY <1>5, <1>6

-----------------------------------------------------------------------------
(* Scaffolding.                                                            *)

OtherPaths(name) ==
    {SkillYaml(name), ProviderYaml(name, "local"),
     <<"skills", name, "providers", "local", "run.py">>,
     <<"README.md">>, <<"tests", "test_provider.py">>}

ScaffoldManifest(name) ==
    [name |-> name, version |-> "0.1.0", risk |-> "low", skills |-> {name},
     providers |-> {<<name, "local">>}, tools |-> {}, bindings |-> {}]

(* Every part of a template's path is one of a few words or the name: none *)
(* of them is excluded, and none leads out of the directory.               *)
LEMMA TemplatePaths ==
    ASSUME NEW name \in WellFormedName, NEW path \in OtherPaths(name)
    PROVE  /\ path \notin {CantoYaml, ManifestYaml, Checksums}
           /\ ~Excluded(path) /\ SafePath(path)
<1> DEFINE words == {"skills", "providers", "local", "tests", name}
           files == {"skill.yaml", "provider.yaml", "run.py", "README.md", "test_provider.py"}
<1>1. name \notin ExcludedDirectories /\ name # ".."
    BY PackagingAssumption DEF ExcludedDirectories
<1>2. words \cap ExcludedDirectories = {} /\ ".." \notin words
    BY <1>1 DEF ExcludedDirectories
<1>3. /\ files \cap ExcludedFiles = {} /\ ".." \notin files /\ "/" \notin files
      /\ "canto.yaml" \notin files /\ "manifest.yaml" \notin files
      /\ "CHECKSUMS.sha256" \notin files
    BY DEF ExcludedFiles
<1>4. /\ Len(path) \in Nat \ {0} /\ DOMAIN path = 1 .. Len(path) /\ path # <<>>
      /\ \A i \in 1 .. Len(path) - 1 : path[i] \in words
      /\ path[Len(path)] \in files /\ path[1] # "/"
    <2>1. CASE path = SkillYaml(name)
        BY <2>1 DEF SkillYaml
    <2>2. CASE path = ProviderYaml(name, "local")
        BY <2>2 DEF ProviderYaml
    <2>3. CASE path = <<"skills", name, "providers", "local", "run.py">>
        BY <2>3
    <2>4. CASE path = <<"README.md">>
        BY <2>4
    <2>5. CASE path = <<"tests", "test_provider.py">>
        BY <2>5
    <2> QED BY <2>1, <2>2, <2>3, <2>4, <2>5 DEF OtherPaths
<1> HIDE DEF words, files
<1>5. path \notin {CantoYaml, ManifestYaml, Checksums}
    <2>1. Len(CantoYaml) = 1 /\ CantoYaml[1] = "canto.yaml"
        BY DEF CantoYaml
    <2>2. Len(ManifestYaml) = 1 /\ ManifestYaml[1] = "manifest.yaml"
        BY DEF ManifestYaml
    <2>3. Len(Checksums) = 1 /\ Checksums[1] = "CHECKSUMS.sha256"
        BY DEF Checksums
    <2> QED BY <1>3, <1>4, <2>1, <2>2, <2>3
<1>6. ~Excluded(path)
    BY <1>2, <1>3, <1>4 DEF Excluded
<1>7. SafePath(path)
    <2>1. ASSUME NEW i \in DOMAIN path PROVE path[i] # ".."
        <3>1. i \in 1 .. Len(path) - 1 \/ i = Len(path)
            BY <1>4
        <3> QED BY <3>1, <1>2, <1>3, <1>4
    <2> QED BY <2>1, <1>4 DEF SafePath
<1> QED BY <1>5, <1>6, <1>7

LEMMA ScaffoldIsSource ==
    ASSUME NEW name \in WellFormedName
    PROVE  ValidSource(Template(name, <<name, "local">>))
<1> DEFINE source == Template(name, <<name, "local">>)
           first == [path |-> ManifestYaml, content |-> [manifest |-> ScaffoldManifest(name)]]
<1>1. source = {first} \cup
        {[path |-> path, content |-> Text("template")] : path \in OtherPaths(name)}
    BY DEF Template, OtherPaths, ScaffoldManifest
<1>2. first.path = ManifestYaml /\ first.content = [manifest |-> ScaffoldManifest(name)]
    OBVIOUS
<1> HIDE DEF source, first
<1>3. \A file \in source : file # first =>
        file.path \notin {CantoYaml, ManifestYaml, Checksums}
    BY <1>1, TemplatePaths
<1>4. ContentOf(source, ManifestYaml) = [manifest |-> ScaffoldManifest(name)]
    <2>1. (CHOOSE file \in source : file.path = ManifestYaml) = first
        BY <1>1, <1>2, <1>3
    <2> QED BY <1>2, <2>1 DEF ContentOf
<1>5. ManifestsIn(source) = {ManifestYaml}
    <2>1. ManifestYaml \in Paths(source)
        BY <1>1, <1>2 DEF Paths
    <2>2. CantoYaml \notin Paths(source)
        BY <1>2, <1>3, SpecialPaths DEF Paths
    <2> QED BY <2>1, <2>2 DEF ManifestsIn
<1>6. IsManifest(ContentOf(source, ManifestYaml))
    BY <1>4 DEF IsManifest
<1>7. ContentOf(source, ManifestYaml).manifest = ScaffoldManifest(name)
    BY <1>4
<1>8. ValidManifest(ScaffoldManifest(name))
    BY PackagingAssumption DEF ValidManifest, ScaffoldManifest
<1>9. BindingFiles(ScaffoldManifest(name)) = {}
    BY DEF BindingFiles, ScaffoldManifest
<1>10. ValidSource(source)
    BY <1>5, <1>6, <1>7, <1>8, <1>9 DEF ValidSource
<1> QED BY <1>10 DEF source

(* What is collected from a scaffold: the manifest, under its other name,  *)
(* and the rest as it stands.                                              *)
ScaffoldFiles(name) ==
    {[path |-> CantoYaml, content |-> [manifest |-> ScaffoldManifest(name)]]}
    \cup {[path |-> path, content |-> Text("template")] : path \in OtherPaths(name)}

LEMMA ScaffoldCollected ==
    ASSUME NEW name \in WellFormedName
    PROVE  Collect(Template(name, <<name, "local">>), FALSE) = {ScaffoldFiles(name)}
<1> DEFINE source == Template(name, <<name, "local">>)
           first == [path |-> ManifestYaml, content |-> [manifest |-> ScaffoldManifest(name)]]
           kept == {file \in source : ~Excluded(file.path) /\ ~(file.path = Checksums /\ FALSE)}
<1>1. source = {first} \cup
        {[path |-> path, content |-> Text("template")] : path \in OtherPaths(name)}
    BY DEF Template, OtherPaths, ScaffoldManifest
<1>2. first.path = ManifestYaml /\ first.content = [manifest |-> ScaffoldManifest(name)]
    OBVIOUS
<1> HIDE DEF source, first
<1>3. \A file \in source : file # first =>
        /\ file.path \notin {CantoYaml, ManifestYaml, Checksums}
        /\ ~Excluded(file.path) /\ file.content = Text("template")
    BY <1>1, TemplatePaths
<1>4. ~Excluded(ManifestYaml)
    <2>1. Len(ManifestYaml) = 1 /\ ManifestYaml[1] = "manifest.yaml"
        BY DEF ManifestYaml
    <2> QED BY <2>1 DEF Excluded, ExcludedFiles
<1>5. kept = source
    BY <1>2, <1>3, <1>4
<1>6. ~HasLink(source)
    <2>1. Text("template") # Link
        <3>1. "text" \in DOMAIN Text("template") /\ "text" \notin DOMAIN Link
            BY DEF Text, Link
        <3> QED BY <3>1
    <2>2. [manifest |-> ScaffoldManifest(name)] # Link
        <3> DEFINE content == [manifest |-> ScaffoldManifest(name)]
        <3>1. "manifest" \in DOMAIN content /\ "manifest" \notin DOMAIN Link
            BY DEF Link
        <3> QED BY <3>1
    <2> QED BY <1>2, <1>3, <2>1, <2>2 DEF HasLink
<1>7. Checksums \notin Paths(source)
    BY <1>2, <1>3, SpecialPaths DEF Paths
<1>8. Collect(source, FALSE) = {Packed(source)}
    <2>1. Collect(source, FALSE) =
            IF HasLink(source) \/ Checksums \in Paths(kept) THEN {} ELSE {Packed(kept)}
        BY DEF Collect
    <2> QED BY <2>1, <1>5, <1>6, <1>7
<1>9. Packed(source) = ScaffoldFiles(name)
    <2> DEFINE as(file) == [path |-> IF file.path = ManifestYaml THEN CantoYaml ELSE file.path,
                            content |-> file.content]
    <2>1. as(first) = [path |-> CantoYaml, content |-> [manifest |-> ScaffoldManifest(name)]]
        BY <1>2
    <2>2. ASSUME NEW path \in OtherPaths(name)
          PROVE  as([path |-> path, content |-> Text("template")])
                    = [path |-> path, content |-> Text("template")]
        BY TemplatePaths
    <2>3. Packed(source) = {as(file) : file \in source}
        BY DEF Packed
    <2> HIDE DEF as
    <2>4. ASSUME NEW file \in Packed(source) PROVE file \in ScaffoldFiles(name)
        <3>1. PICK one \in source : file = as(one)
            BY <2>3
        <3>2. CASE one = first
            BY <2>1, <3>1, <3>2 DEF ScaffoldFiles
        <3>3. ASSUME NEW path \in OtherPaths(name),
                     one = [path |-> path, content |-> Text("template")]
              PROVE  file \in ScaffoldFiles(name)
            BY <2>2, <3>1, <3>3 DEF ScaffoldFiles
        <3> QED BY <1>1, <3>2, <3>3
    <2>5. ASSUME NEW file \in ScaffoldFiles(name) PROVE file \in Packed(source)
        <3>1. CASE file = [path |-> CantoYaml,
                           content |-> [manifest |-> ScaffoldManifest(name)]]
            BY <1>1, <2>1, <2>3, <3>1
        <3>2. ASSUME NEW path \in OtherPaths(name),
                     file = [path |-> path, content |-> Text("template")]
              PROVE  file \in Packed(source)
            <4>1. file \in source
                BY <1>1, <3>2
            <4>2. as(file) = file
                BY <2>2, <3>2
            <4> QED BY <2>3, <4>1, <4>2
        <3> QED BY <3>1, <3>2 DEF ScaffoldFiles
    <2> QED BY <2>4, <2>5
<1>10. Collect(source, FALSE) = {ScaffoldFiles(name)}
    BY <1>8, <1>9
<1> QED BY <1>10 DEF source

LEMMA ScaffoldIsValid ==
    ASSUME NEW name \in WellFormedName
    PROVE  ValidPackage(Archive(ScaffoldFiles(name)))
<1> DEFINE files == ScaffoldFiles(name)
           first == [path |-> CantoYaml, content |-> [manifest |-> ScaffoldManifest(name)]]
           archive == Archive(files)
<1>1. files = {first} \cup
        {[path |-> path, content |-> Text("template")] : path \in OtherPaths(name)}
    BY DEF ScaffoldFiles
<1>2. first.path = CantoYaml /\ first.content = [manifest |-> ScaffoldManifest(name)]
        /\ first = [path |-> first.path, content |-> first.content]
    OBVIOUS
<1> HIDE DEF files, first
<1>3. \A file \in files : file # first =>
        /\ file = [path |-> file.path, content |-> Text("template")]
        /\ file.content = Text("template")
        /\ file.path \notin {CantoYaml, ManifestYaml, Checksums} /\ SafePath(file.path)
    BY <1>1, TemplatePaths
<1>4. SafePath(CantoYaml) /\ SafePath(Checksums)
    <2>1. /\ CantoYaml # <<>> /\ DOMAIN CantoYaml = {1} /\ CantoYaml[1] = "canto.yaml"
          /\ Checksums # <<>> /\ DOMAIN Checksums = {1} /\ Checksums[1] = "CHECKSUMS.sha256"
        BY DEF CantoYaml, Checksums
    <2> QED BY <2>1 DEF SafePath
<1>5. FileSet(files)
    BY <1>2, <1>3, SpecialPaths DEF FileSet
<1>6. OnePerPath(files)
    BY <1>2, <1>3 DEF OnePerPath
<1>7. \A entry \in archive : Once(archive, entry.path)
    BY <1>5, <1>6, ArchiveOnce
<1>8. ValidEntries(archive)
    <2>1. ASSUME NEW entry \in archive PROVE SafePath(entry.path) /\ entry.kind = "file"
        <3>1. PICK file \in files \cup {ListOf(files)} :
                entry = [path |-> file.path, kind |-> "file", content |-> file.content]
            BY DEF Archive
        <3>2. ListOf(files).path = Checksums
            BY DEF ListOf
        <3>3. SafePath(file.path)
            BY <1>2, <1>3, <1>4, <3>2
        <3> QED BY <3>1, <3>3
    <2> QED BY <2>1, <1>7 DEF ValidEntries
<1>9. ValidChecksums(archive)
    <2>1. [path |-> ListOf(files).path, kind |-> "file", content |-> ListOf(files).content]
            \in archive
        BY ArchiveEntries
    <2>2. ListOf(files).path = Checksums
        BY DEF ListOf
    <2>3. Once(archive, Checksums)
        BY <2>1, <2>2, <1>7
    <2> QED BY <2>3, <1>5, ArchiveList
<1>10. ValidContents(archive)
    <2> DEFINE entry == [path |-> CantoYaml, kind |-> "file", content |-> first.content]
    <2>1. entry \in archive /\ entry.path = CantoYaml /\ entry.content = first.content
        <3>1. first \in files
            BY <1>1
        <3>2. [path |-> first.path, kind |-> "file", content |-> first.content] \in archive
            BY <3>1, ArchiveEntries
        <3> QED BY <3>2, <1>2
    <2> HIDE DEF entry, archive
    <2>2. Once(archive, CantoYaml)
        BY <2>1, <1>7
    <2>3. ContentOf(archive, CantoYaml) = [manifest |-> ScaffoldManifest(name)]
        <3>1. ContentOf(archive, entry.path) = entry.content
            BY <2>1, <2>2, ReadOnce
        <3> QED BY <3>1, <2>1, <1>2
    <2>4. IsManifest(ContentOf(archive, CantoYaml))
        BY <2>3 DEF IsManifest
    <2>5. ContentOf(archive, CantoYaml).manifest = ScaffoldManifest(name)
        BY <2>3
    <2>6. ValidManifest(ScaffoldManifest(name))
        BY PackagingAssumption DEF ValidManifest, ScaffoldManifest
    <2>7. \A provider \in ScaffoldManifest(name).providers : Len(provider) = 2
        BY DEF ScaffoldManifest
    <2>8. BindingFiles(ScaffoldManifest(name)) = {}
        BY DEF BindingFiles, ScaffoldManifest
    <2>9. Declared(ScaffoldManifest(name))
            = {SkillYaml(name), ProviderYaml(name, "local")}
        BY DEF Declared, ScaffoldManifest
    <2>10. \A path \in OtherPaths(name) : path \in Paths(archive)
        <3> SUFFICES ASSUME NEW path \in OtherPaths(name) PROVE path \in Paths(archive)
            OBVIOUS
        <3> DEFINE file == [path |-> path, content |-> Text("template")]
        <3>1. file \in files
            BY <1>1
        <3>2. [path |-> file.path, kind |-> "file", content |-> file.content] \in archive
            BY <3>1, ArchiveEntries DEF archive
        <3> QED BY <3>2 DEF Paths
    <2>11. Declared(ScaffoldManifest(name)) \subseteq Paths(archive)
        BY <2>9, <2>10 DEF OtherPaths
    <2> QED BY <2>2, <2>4, <2>5, <2>6, <2>7, <2>8, <2>11 DEF ValidContents
<1> HIDE DEF archive
<1>11. ValidPackage(archive)
    BY <1>8, <1>9, <1>10 DEF ValidPackage
<1> QED BY <1>11 DEF archive, files

LEMMA ScaffoldsPackAlways == ScaffoldsPack
<1> SUFFICES ASSUME NEW name \in WellFormedName
             PROVE  \E source \in Scaffold(name) : Pack(source, FALSE) # {}
    BY DEF ScaffoldsPack
<1> DEFINE source == Template(name, <<name, "local">>)
<1>1. source \in Scaffold(name)
    BY DEF Scaffold
<1>2. ValidSource(source)
    BY ScaffoldIsSource
<1>3. Collect(source, FALSE) = {ScaffoldFiles(name)}
    BY ScaffoldCollected
<1> HIDE DEF source
<1>4. Archive(ScaffoldFiles(name)) \in Pack(source, FALSE)
    BY <1>2, <1>3, ScaffoldIsValid DEF Pack
<1> QED BY <1>1, <1>4

(* Of packages, whatever the directories: an installed package is exported *)
(* as it was packed (Registry.export), validate_package notices one file   *)
(* changed, left out or added, and a scaffold packs.                       *)
THEOREM PackagesHold == ExportReturns /\ DamageShows /\ ScaffoldsPack
BY ExportReturnsPackages, DamageShowsInPackages, ScaffoldsPackAlways

(* The same as the property that is checked, which is about the beginning  *)
(* of every behaviour of the registry.                                     *)
THEOREM PackagesStayFaithful == Spec => []PackagesAreFaithful
<1>1. PackagesAreFaithful
    BY PackagesHold DEF PackagesAreFaithful
<1> QED BY <1>1, PTL
=============================================================================
