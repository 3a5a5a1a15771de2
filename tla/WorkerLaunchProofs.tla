-------------------------- MODULE WorkerLaunchProofs --------------------------
(***************************************************************************)
(* Proofs about ModelCatalog and WorkerLaunch, for every set of processes, *)
(* endpoints, models and policies, any number of commands and changes of   *)
(* what providers list: what the catalog says of a model is backed, and a  *)
(* launch keeps to its policy, its worktree and its accounts.              *)
(***************************************************************************)
EXTENDS WorkerLaunch, FiniteSetTheorems, TLAPS

(* What a record r of model m says was measured or seen, whoever wrote it  *)
(* and however old the copy is.                                            *)
Evidence(m, r) == [model |-> m, version |-> r.version, classification |-> r.classification]

Backed(m, r) ==
    /\ r.state = "current" => Evidence(m, r) \in probes
    /\ r.since <=> r.availability = "missing"
    /\ r.since => m \in unlisted

(* What a command holds at each of its labels.                             *)
EndpointLabels == {"disable", "list", "ask", "read", "write", "missing", "unreachable", "save"}
ProbeLabels == {"probe", "conclude"}
ForgetLabels == {"check", "delete"}

Knows(c) ==
    /\ \A m \in Model : c.seen[m] # None => Backed(m, c.seen[m])
    /\ c.at \in EndpointLabels => c.endpoint \in Endpoint /\ c.copy \in EndpointRecord
    /\ c.at = "read" => c.does = "discover"
    /\ c.at \in {"read", "write"} => c.todo \subseteq Listed(c.answer)
    /\ c.at \in {"ask", "write"} /\ c.does = "refresh" =>
          \A m \in Model : c.seen[m] # None => EndpointOf[m] = c.endpoint
    /\ c.at = "write" /\ c.does = "refresh" =>
          \A m \in Model : c.seen[m] # None /\ c.answer[m] = None => m \in unlisted
    /\ c.at = "missing" => \A m \in c.todo : c.seen[m] # None /\ m \in unlisted
    /\ c.at = "unreachable" => \A m \in c.todo : c.seen[m] # None /\ c.seen[m].availability # "missing"
    /\ c.at \in ProbeLabels => c.model \in Model /\ c.seen[c.model] # None
    /\ c.at = "conclude" =>
          [model |-> c.model, version |-> c.seen[c.model].version,
           classification |-> c.classification] \in probes
    /\ c.at \in ForgetLabels => c.model \in Model

CatalogBacked == \A m \in Model : catalog[m] # None => Backed(m, catalog[m])

UnlistedKnown == \A m \in Model : served[m] = None => m \in unlisted

CatalogInv == TypeOK /\ CatalogBacked /\ UnlistedKnown /\ \A p \in Proc : Knows(command[p])

-----------------------------------------------------------------------------
(* Types, in two parts: what commands hold, and the records.               *)
RecordTypes ==
    /\ endpoints \in [Endpoint -> EndpointRecord \cup {None}]
    /\ catalog \in Catalog
    /\ probes \subseteq ProbeResult
    /\ health \in [Endpoint -> {"unknown", "up", "down"}]
    /\ selections \subseteq Model

ProviderTypes == served \in Inventory /\ changes \in 0 .. Changes /\ unlisted \subseteq Model

CommandTypes == command \in [Proc -> Command] /\ commands \in 0 .. Commands

LEMMA TypeParts == TypeOK <=> RecordTypes /\ ProviderTypes /\ CommandTypes
BY DEF TypeOK, RecordTypes, ProviderTypes, CommandTypes

LEMMA IdleGood == Idle \in Command /\ Knows(Idle)
<1>1. [m \in Model |-> None] \in Catalog /\ [m \in Model |-> None] \in Inventory
    BY DEF Catalog, Inventory
<1>2. Idle \in Command
    BY <1>1 DEF Idle, Command, Classification
<1>3. Knows(Idle)
    BY DEF Knows, Idle, EndpointLabels, ProbeLabels, ForgetLabels
<1> QED BY <1>2, <1>3

(* Evidence and history are only added to.                                 *)
LEMMA KnowsStays ==
    ASSUME probes \subseteq probes', unlisted \subseteq unlisted'
    PROVE  /\ \A m, r : Backed(m, r) => Backed(m, r)'
           /\ \A c : Knows(c) => Knows(c)'
<1>1. ASSUME NEW m, NEW r, Backed(m, r) PROVE Backed(m, r)'
    BY <1>1 DEF Backed
<1>2. ASSUME NEW c, Knows(c) PROVE Knows(c)'
    BY <1>1, <1>2 DEF Knows
<1> QED BY <1>1, <1>2

(* One command takes a step.                                               *)
LEMMA CommandFrame ==
    ASSUME CatalogInv, NEW p \in Proc, NEW c \in Command, command' = [command EXCEPT ![p] = c],
           probes \subseteq probes', UNCHANGED <<served, changes, unlisted>>,
           commands' \in 0 .. Commands, RecordTypes', CatalogBacked', Knows(c)'
    PROVE  CatalogInv'
<1>1. CommandTypes /\ ProviderTypes
    BY TypeParts DEF CatalogInv
<1>2. CommandTypes' /\ ProviderTypes'
    BY <1>1 DEF CommandTypes, ProviderTypes
<1>3. UnlistedKnown'
    BY DEF CatalogInv, UnlistedKnown
<1>4. TypeOK'
    BY <1>2, TypeParts DEF TypeOK, RecordTypes, ProviderTypes, CommandTypes
<1>5. ASSUME NEW q \in Proc PROVE Knows(command[q])'
  <2>1. CASE q = p
    <3>1. command'[q] = c
      BY <2>1, <1>1 DEF CommandTypes
    <3> QED BY <3>1 DEF Knows
  <2>2. CASE q # p
    <3>1. command'[q] = command[q]
      BY <2>2, <1>1 DEF CommandTypes
    <3>2. PICK d : d = command[q]
      OBVIOUS
    <3>3. Knows(d)'
      BY <3>2, KnowsStays DEF CatalogInv
    <3> QED BY <3>1, <3>2, <3>3
  <2> QED BY <2>1, <2>2
<1> QED BY <1>3, <1>4, <1>5 DEF CatalogInv

LEMMA CatalogSame ==
    ASSUME CatalogInv, UNCHANGED <<catalog, unlisted>>, probes \subseteq probes'
    PROVE  CatalogBacked'
BY KnowsStays DEF CatalogInv, CatalogBacked

LEMMA QuietFrame ==
    ASSUME CatalogInv, NEW p \in Proc, NEW c \in Command, command' = [command EXCEPT ![p] = c],
           UNCHANGED <<served, changes, unlisted, records>>, commands' \in 0 .. Commands, Knows(c)
    PROVE  CatalogInv'
<1>1. RecordTypes'
    BY TypeParts DEF CatalogInv, RecordTypes, records
<1>2. CatalogBacked' /\ Knows(c)'
    BY CatalogSame, KnowsStays DEF records
<1> QED BY <1>1, <1>2, CommandFrame DEF records

LEMMA RecordFrame ==
    ASSUME CatalogInv, NEW p \in Proc, NEW c \in Command, command' = [command EXCEPT ![p] = c],
           UNCHANGED <<served, changes, unlisted, commands, catalog>>, probes \subseteq probes',
           RecordTypes', Knows(c)'
    PROVE  CatalogInv'
<1>1. CatalogBacked'
    BY CatalogSame
<1>2. commands' \in 0 .. Commands
    BY TypeParts DEF CatalogInv, CommandTypes
<1> QED BY <1>1, <1>2, CommandFrame

(* A model's record is written.                                            *)
LEMMA WriteFrame ==
    ASSUME CatalogInv, NEW p \in Proc, NEW c \in Command, command' = [command EXCEPT ![p] = c],
           Others, UNCHANGED <<endpoints, probes, health, selections>>, Knows(c),
           NEW m \in Model, NEW r \in ModelRecord \cup {None}, Write(m, r), r # None => Backed(m, r)
    PROVE  CatalogInv'
<1>1. RecordTypes /\ commands \in 0 .. Commands
    BY TypeParts DEF CatalogInv, CommandTypes
<1>2. \A n \in Model : catalog'[n] = IF n = m THEN r ELSE catalog[n]
    BY <1>1 DEF RecordTypes, Catalog, Write
<1>3. RecordTypes'
    BY <1>1 DEF RecordTypes, Catalog, Write
<1>4. \A n, x : Backed(n, x) => Backed(n, x)'
    BY KnowsStays DEF Others
<1>5. CatalogBacked'
  <2> SUFFICES ASSUME NEW n \in Model, catalog'[n] # None PROVE Backed(n, catalog[n])'
    BY DEF CatalogBacked
  <2>1. PICK x : x = catalog'[n]
    OBVIOUS
  <2>2. Backed(n, x)
    BY <1>2, <2>1 DEF CatalogInv, CatalogBacked
  <2>3. Backed(n, x)'
    BY <1>4, <2>2
  <2> QED BY <2>1, <2>3
<1>6. Knows(c)'
    BY KnowsStays DEF Others
<1> QED BY <1>1, <1>3, <1>5, <1>6, CommandFrame DEF Others

(* A command begins.                                                       *)
LEMMA BeginFrame ==
    ASSUME CatalogInv, NEW p \in Proc, NEW c \in Command, Knows(c), Begin(p, c), UNCHANGED records
    PROVE  CatalogInv'
<1>1. Commands \in Nat /\ commands \in 0 .. Commands
    BY TypeParts, CatalogAssumption DEF CatalogInv, CommandTypes
<1>2. commands' \in 0 .. Commands
    BY <1>1 DEF Begin
<1> QED BY <1>2, QuietFrame DEF Begin

LEMMA HeldGood ==
    ASSUME CatalogInv, NEW p \in Proc
    PROVE  command[p] \in Command /\ Knows(command[p])
BY TypeParts DEF CatalogInv, CommandTypes

-----------------------------------------------------------------------------
(* The steps of commands.                                                  *)
LEMMA BeginGood ==
    ASSUME CatalogInv, NEW p \in Proc, BeginCommand(p)
    PROVE  CatalogInv'
<1> USE IdleGood
<1>1. RecordTypes /\ CommandTypes /\ catalog \in Catalog /\ Idle.seen \in Catalog
    BY TypeParts DEF CatalogInv, RecordTypes, Command
<1>2. ASSUME NEW e \in Endpoint, AddEndpoint(p, e) PROVE CatalogInv'
  <2>1. Commands \in Nat /\ commands' \in 0 .. Commands
    BY <1>1, <1>2, CatalogAssumption DEF CommandTypes, AddEndpoint, Begin
  <2>2. RecordTypes'
    BY <1>1, <1>2 DEF RecordTypes, EndpointRecord, AddEndpoint
  <2>3. CatalogBacked' /\ Knows(Idle)'
    BY <1>2, CatalogSame, KnowsStays DEF AddEndpoint, Begin
  <2> QED BY <1>2, <2>1, <2>2, <2>3, CommandFrame DEF AddEndpoint, Begin
<1>3. ASSUME NEW e \in Endpoint, endpoints[e] # None,
             NEW at \in {"disable", "ask", "list"}, NEW does \in {"disable", "discover", "refresh"},
             Begin(p, [Idle EXCEPT !.at = at, !.does = does, !.endpoint = e, !.copy = endpoints[e]]),
             UNCHANGED records
      PROVE  CatalogInv'
  <2>1. endpoints[e] \in EndpointRecord
    BY <1>1, <1>3 DEF RecordTypes
  <2> DEFINE c == [Idle EXCEPT !.at = at, !.does = does, !.endpoint = e, !.copy = endpoints[e]]
  <2>2. c \in Command
    BY <2>1 DEF Command
  <2>3. Knows(c)
    BY <2>1, <2>2 DEF Knows, Idle, EndpointLabels, ProbeLabels, ForgetLabels
  <2> QED BY <1>3, <2>2, <2>3, BeginFrame
<1>4. ASSUME NEW e \in Endpoint, Disable(p, e) \/ Discover(p, e) \/ Refresh(p, e) PROVE CatalogInv'
    BY <1>3, <1>4 DEF Disable, Discover, Refresh
<1>5. ASSUME NEW m \in Model, Probe(p, m) PROVE CatalogInv'
  <2> DEFINE c == [Idle EXCEPT !.at = "probe", !.does = "probe", !.model = m, !.seen[m] = catalog[m]]
  <2>1. catalog[m] # None /\ Backed(m, catalog[m])
    BY <1>5 DEF Probe, CatalogInv, CatalogBacked
  <2>2. [Idle.seen EXCEPT ![m] = catalog[m]] \in Catalog
    BY <1>1 DEF Catalog
  <2>3. c \in Command /\ c.at = "probe" /\ c.model = m /\ c.seen = [Idle.seen EXCEPT ![m] = catalog[m]]
    BY <2>2 DEF Command
  <2>4. \A n \in Model : c.seen[n] = IF n = m THEN catalog[m] ELSE None
    BY <2>3 DEF Idle
  <2>5. Knows(c)
    BY <2>1, <2>3, <2>4 DEF Knows, EndpointLabels, ProbeLabels, ForgetLabels
  <2> QED BY <1>5, <2>3, <2>5, BeginFrame DEF Probe
<1>6. ASSUME NEW m \in Model, Forget(p, m) PROVE CatalogInv'
  <2> DEFINE c == [Idle EXCEPT !.at = "check", !.does = "forget", !.model = m]
  <2>1. c \in Command
    BY DEF Command
  <2>2. Knows(c)
    BY DEF Knows, Idle, EndpointLabels, ProbeLabels, ForgetLabels
  <2> QED BY <1>6, <2>1, <2>2, BeginFrame DEF Forget
<1>7. CASE Select(p)
  <2> DEFINE c == [Idle EXCEPT !.at = "choose", !.does = "select", !.seen = catalog]
  <2>1. c \in Command
    BY <1>1 DEF Command
  <2>2. Knows(c)
    BY DEF Knows, Idle, EndpointLabels, ProbeLabels, ForgetLabels, CatalogInv, CatalogBacked
  <2> QED BY <1>7, <2>1, <2>2, BeginFrame DEF Select
<1> QED BY <1>2, <1>4, <1>5, <1>6, <1>7 DEF BeginCommand

(* The provider's list changes.                                            *)
LEMMA ProviderGood ==
    ASSUME CatalogInv, Provider
    PROVE  CatalogInv'
<1>1. TypeOK'
  <2>1. served' \in Inventory /\ changes' \in 0 .. Changes /\ unlisted' \subseteq Model
    BY TypeParts, CatalogAssumption DEF CatalogInv, ProviderTypes, Provider, Inventory
  <2> QED BY <2>1 DEF Provider, CatalogInv, TypeOK, records
<1>2. probes \subseteq probes' /\ unlisted \subseteq unlisted' /\ UNCHANGED <<catalog, command>>
    BY DEF Provider, records
<1>3. CatalogBacked'
    BY <1>2, KnowsStays DEF CatalogInv, CatalogBacked
<1>4. UnlistedKnown'
    BY DEF Provider, UnlistedKnown
<1>5. ASSUME NEW p \in Proc PROVE Knows(command[p])'
  <2>1. PICK c : c = command[p]
    OBVIOUS
  <2>2. Knows(c)'
    BY <1>2, <2>1, KnowsStays DEF CatalogInv
  <2> QED BY <1>2, <2>1, <2>2
<1> QED BY <1>1, <1>3, <1>4, <1>5 DEF CatalogInv

(* A command ends.                                                         *)
LEMMA EndGood ==
    ASSUME CatalogInv, NEW p \in Proc, End(p), Others, UNCHANGED catalog, probes \subseteq probes',
           RecordTypes'
    PROVE  CatalogInv'
BY IdleGood, KnowsStays, RecordFrame DEF End, Others

LEMMA SaveDisabledGood ==
    ASSUME CatalogInv, NEW p \in Proc, SaveDisabled(p)
    PROVE  CatalogInv'
<1>1. command[p].endpoint \in Endpoint /\ command[p].copy \in EndpointRecord
    BY HeldGood DEF Knows, EndpointLabels, SaveDisabled, At
<1>2. RecordTypes'
    BY <1>1, TypeParts DEF CatalogInv, RecordTypes, SaveDisabled, EndpointRecord
<1> QED BY <1>2, EndGood DEF SaveDisabled

LEMMA ReadPreviousGood ==
    ASSUME CatalogInv, NEW p \in Proc, ReadPrevious(p)
    PROVE  CatalogInv'
<1>1. command[p] \in Command /\ Knows(command[p]) /\ command[p].at = "list"
    BY HeldGood DEF ReadPrevious, At
<1> DEFINE seen == [m \in Model |-> IF EndpointOf[m] = command[p].endpoint THEN catalog[m] ELSE None]
           c == [command[p] EXCEPT !.at = "ask", !.seen = seen]
<1>2. seen \in Catalog
    BY TypeParts DEF CatalogInv, RecordTypes, Catalog
<1>3. /\ c \in Command /\ c.at = "ask" /\ c.seen = seen
      /\ c.endpoint = command[p].endpoint /\ c.copy = command[p].copy
    BY <1>1, <1>2 DEF Command
<1>4. Knows(c)
    BY <1>1, <1>3 DEF Knows, EndpointLabels, ProbeLabels, ForgetLabels, CatalogInv, CatalogBacked
<1>5. command' = [command EXCEPT ![p] = c] /\ UNCHANGED <<served, changes, unlisted, commands, records>>
    BY DEF ReadPrevious, Others
<1>6. commands' \in 0 .. Commands
    BY <1>5, TypeParts DEF CatalogInv, CommandTypes
<1> QED BY <1>3, <1>4, <1>5, <1>6, QuietFrame

LEMMA AskGood ==
    ASSUME CatalogInv, NEW p \in Proc, Ask(p) \/ AskFails(p)
    PROVE  CatalogInv'
<1>1. command[p] \in Command /\ Knows(command[p]) /\ command[p].at = "ask"
    BY HeldGood DEF Ask, AskFails, At
<1>2. UNCHANGED <<served, changes, unlisted, commands, records>> /\ commands' \in 0 .. Commands /\ RecordTypes'
    BY TypeParts DEF CatalogInv, CommandTypes, Ask, AskFails, Others, RecordTypes, records
<1>3. CASE Ask(p)
  <2> DEFINE answer == [m \in Model |-> IF EndpointOf[m] = command[p].endpoint THEN served[m] ELSE None]
             at == IF Does(p, "discover") THEN "read" ELSE "write"
             c == [command[p] EXCEPT !.at = at, !.answer = answer, !.todo = Listed(answer)]
  <2>1. answer \in Inventory /\ Listed(answer) \subseteq Model
    BY TypeParts DEF CatalogInv, ProviderTypes, Inventory, Listed
  <2>2. /\ c \in Command /\ c.at = at /\ c.seen = command[p].seen
        /\ c.does = command[p].does /\ c.endpoint = command[p].endpoint /\ c.copy = command[p].copy
        /\ c.answer = answer /\ c.todo = Listed(answer)
    BY <1>1, <2>1 DEF Command
  <2>3. ASSUME c.does = "refresh", NEW m \in Model, c.seen[m] # None
        PROVE  EndpointOf[m] = c.endpoint /\ (answer[m] = None => m \in unlisted)
    <3>1. EndpointOf[m] = command[p].endpoint
      BY <1>1, <2>2, <2>3 DEF Knows
    <3>2. answer[m] = served[m]
      BY <3>1
    <3> QED BY <2>2, <3>1, <3>2 DEF CatalogInv, UnlistedKnown
  <2> HIDE DEF answer
  <2>4. Knows(c)
    BY <1>1, <2>2, <2>3 DEF Knows, EndpointLabels, ProbeLabels, ForgetLabels, Does
  <2>5. command' = [command EXCEPT ![p] = c]
    BY <1>3 DEF Ask, answer
  <2> QED BY <1>2, <2>2, <2>4, <2>5, QuietFrame
<1>4. CASE AskFails(p)
  <2>1. CASE Does(p, "discover")
    BY <1>2, <1>4, <2>1, EndGood DEF AskFails, records
  <2>2. CASE ~Does(p, "discover")
    <3> DEFINE c == [command[p] EXCEPT !.at = "unreachable", !.todo = KnownThere(p)]
    <3>1. /\ c \in Command /\ c.at = "unreachable" /\ c.seen = command[p].seen
          /\ c.endpoint = command[p].endpoint /\ c.copy = command[p].copy /\ c.todo = KnownThere(p)
      BY <1>1 DEF Command, KnownThere
    <3>2. Knows(c)
      BY <1>1, <3>1 DEF Knows, EndpointLabels, ProbeLabels, ForgetLabels, KnownThere
    <3>3. command' = [command EXCEPT ![p] = c]
      BY <1>4, <2>2 DEF AskFails
    <3> HIDE DEF c
    <3> QED BY <1>2, <3>1, <3>2, <3>3, QuietFrame
  <2> QED BY <2>1, <2>2
<1> QED BY <1>3, <1>4

LEMMA MarkGood ==
    ASSUME CatalogInv, NEW p \in Proc, NEW m \in Model, MarkUnreachable(p, m) \/ MarkMissing(p, m)
    PROVE  CatalogInv'
<1>1. /\ command[p] \in Command /\ Knows(command[p])
      /\ command[p].at \in {"missing", "unreachable"} /\ m \in command[p].todo
    BY HeldGood DEF MarkUnreachable, MarkMissing, At
<1> DEFINE c == [command[p] EXCEPT !.todo = @ \ {m}]
           old == command[p].seen[m]
<1>2. /\ c \in Command /\ c.at = command[p].at /\ c.seen = command[p].seen
      /\ c.endpoint = command[p].endpoint /\ c.copy = command[p].copy /\ c.todo \subseteq command[p].todo
    BY <1>1 DEF Command
<1>3. Knows(c)
    BY <1>1, <1>2 DEF Knows, EndpointLabels, ProbeLabels, ForgetLabels
<1>4. old \in ModelRecord /\ Backed(m, old)
    BY <1>1 DEF Knows, Command, Catalog
<1>5. command' = [command EXCEPT ![p] = c] /\ Others /\ UNCHANGED <<endpoints, probes, health, selections>>
    BY DEF MarkUnreachable, MarkMissing
<1>6. CASE MarkUnreachable(p, m)
  <2> DEFINE r == [old EXCEPT !.availability = "endpoint_unreachable"]
  <2>1. old.availability # "missing"
    BY <1>1, <1>6 DEF Knows, MarkUnreachable, At
  <2>2. r \in ModelRecord /\ Backed(m, r)
    BY <1>4, <2>1 DEF ModelRecord, Availability, Backed, Evidence
  <2>3. Write(m, r)
    BY <1>6 DEF MarkUnreachable
  <2> HIDE DEF r
  <2> QED BY <1>2, <1>3, <1>5, <2>2, <2>3, WriteFrame
<1>7. CASE MarkMissing(p, m)
  <2> DEFINE r == [old EXCEPT !.availability = "missing", !.since = TRUE]
  <2>1. m \in unlisted
    BY <1>1, <1>7 DEF Knows, MarkMissing, At
  <2>2. r \in ModelRecord /\ Backed(m, r)
    BY <1>4, <2>1 DEF ModelRecord, Availability, Backed, Evidence
  <2>3. Write(m, r)
    BY <1>7 DEF MarkMissing
  <2> HIDE DEF r
  <2> QED BY <1>2, <1>3, <1>5, <2>2, <2>3, WriteFrame
<1> QED BY <1>6, <1>7 DEF MarkUnreachable, MarkMissing

LEMMA ReadModelGood ==
    ASSUME CatalogInv, NEW p \in Proc, NEW m \in Model, ReadModel(p, m)
    PROVE  CatalogInv'
<1>1. command[p] \in Command /\ Knows(command[p]) /\ command[p].at = "read"
    BY HeldGood DEF ReadModel, At
<1> DEFINE c == [command[p] EXCEPT !.at = "write", !.model = m, !.seen[m] = catalog[m]]
<1>2. catalog \in Catalog /\ command[p].seen \in Catalog
    BY <1>1, TypeParts DEF CatalogInv, RecordTypes, Command
<1>3. [command[p].seen EXCEPT ![m] = catalog[m]] \in Catalog
    BY <1>2 DEF Catalog
<1>4. /\ c \in Command /\ c.at = "write" /\ c.does = command[p].does
      /\ c.seen = [command[p].seen EXCEPT ![m] = catalog[m]] /\ c.todo = command[p].todo
      /\ c.answer = command[p].answer
      /\ c.endpoint = command[p].endpoint /\ c.copy = command[p].copy
    BY <1>1, <1>3 DEF Command
<1>5. \A n \in Model : c.seen[n] = IF n = m THEN catalog[m] ELSE command[p].seen[n]
    BY <1>2, <1>4 DEF Catalog
<1>6. \A n \in Model : c.seen[n] # None => Backed(n, c.seen[n])
    BY <1>1, <1>5 DEF Knows, CatalogInv, CatalogBacked
<1>7. command[p].does # "refresh"
    BY <1>1 DEF Knows
<1>8. Knows(c)
    BY <1>1, <1>4, <1>6, <1>7 DEF Knows, EndpointLabels, ProbeLabels, ForgetLabels
<1>9. command' = [command EXCEPT ![p] = c] /\ UNCHANGED <<served, changes, unlisted, commands, records>>
    BY DEF ReadModel, Others
<1>10. commands' \in 0 .. Commands
    BY <1>9, TypeParts DEF CatalogInv, CommandTypes
<1> HIDE DEF c
<1> QED BY <1>4, <1>8, <1>9, <1>10, QuietFrame

LEMMA WriteModelGood ==
    ASSUME CatalogInv, NEW p \in Proc, NEW m \in Model, WriteModel(p, m)
    PROVE  CatalogInv'
<1>1. /\ command[p] \in Command /\ Knows(command[p]) /\ command[p].at = "write"
      /\ m \in command[p].todo
    BY HeldGood DEF WriteModel, At
<1> DEFINE at == IF Does(p, "discover") THEN "read" ELSE "write"
           c == [command[p] EXCEPT !.todo = @ \ {m}, !.at = at]
           old == command[p].seen[m]
           version == command[p].answer[m]
           does == command[p].does
           r == Found(does, old, version)
<1>2. /\ c \in Command /\ c.at = at /\ c.seen = command[p].seen
      /\ c.does = command[p].does /\ c.answer = command[p].answer
      /\ c.endpoint = command[p].endpoint /\ c.copy = command[p].copy /\ c.todo \subseteq command[p].todo
    BY <1>1 DEF Command
<1>3. Knows(c)
    BY <1>1, <1>2 DEF Knows, EndpointLabels, ProbeLabels, ForgetLabels, Does
<1>4. version \in Version
    BY <1>1 DEF Knows, Listed, Command, Inventory
<1>5. old # None => old \in ModelRecord /\ Backed(m, old)
    BY <1>1 DEF Knows, Command, Catalog
<1>6. /\ r.version = version /\ r.classification = (IF old = None THEN "unvalidated" ELSE old.classification)
      /\ r.stale = StaleAfter(old, version) /\ r.state = StateAfter(does, old, version)
      /\ r.availability = "available" /\ r.since = FALSE
    BY DEF Found
<1>7. StaleAfter(old, version) \in BOOLEAN
    BY <1>5 DEF StaleAfter, Changed, ModelRecord
<1>8. StateAfter(does, old, version) \in {"current", "stale", "absent"}
    BY <1>5 DEF StateAfter, ModelRecord
<1>9. r \in ModelRecord
    BY <1>4, <1>5, <1>7, <1>8 DEF Found, ModelRecord, Classification, Availability
<1>10. StateAfter(does, old, version) = "current" =>
          old # None /\ old.state = "current" /\ old.version = version
    BY DEF StateAfter, Changed
<1>11. Backed(m, r)
    BY <1>5, <1>6, <1>10 DEF Backed, Evidence
<1>12. /\ command' = [command EXCEPT ![p] = c] /\ Write(m, r)
       /\ Others /\ UNCHANGED <<endpoints, probes, health, selections>>
    BY DEF WriteModel
<1> HIDE DEF c, r
<1> QED BY <1>2, <1>3, <1>9, <1>11, <1>12, WriteFrame

LEMMA WrittenGood ==
    ASSUME CatalogInv, NEW p \in Proc, Written(p)
    PROVE  CatalogInv'
<1>1. /\ command[p] \in Command /\ Knows(command[p])
      /\ command[p].at = "write" /\ command[p].does = "refresh"
    BY HeldGood DEF Written, At, Does
<1> DEFINE todo == {m \in Model : command[p].seen[m] # None} \ Listed(command[p].answer)
           c == [command[p] EXCEPT !.at = "missing", !.todo = todo]
<1>2. /\ c \in Command /\ c.at = "missing" /\ c.seen = command[p].seen /\ c.todo = todo
      /\ c.endpoint = command[p].endpoint /\ c.copy = command[p].copy
    BY <1>1 DEF Command
<1>3. \A m \in todo : command[p].seen[m] # None /\ m \in unlisted
    BY <1>1 DEF Knows, Listed
<1>4. Knows(c)
    BY <1>1, <1>2, <1>3 DEF Knows, EndpointLabels, ProbeLabels, ForgetLabels
<1>5. command' = [command EXCEPT ![p] = c] /\ UNCHANGED <<served, changes, unlisted, commands, records>>
    BY DEF Written, Others
<1>6. commands' \in 0 .. Commands
    BY <1>5, TypeParts DEF CatalogInv, CommandTypes
<1> HIDE DEF c
<1> QED BY <1>2, <1>4, <1>5, <1>6, QuietFrame

LEMMA ReportGood ==
    ASSUME CatalogInv, NEW p \in Proc, Report(p) \/ ReportFailure(p)
    PROVE  CatalogInv'
<1>1. /\ command[p] \in Command /\ Knows(command[p])
      /\ command[p].at \in {"missing", "read", "unreachable"}
    BY HeldGood DEF Report, ReportFailure, At
<1>2. command[p].endpoint \in Endpoint /\ command[p].copy \in EndpointRecord
    BY <1>1 DEF Knows, EndpointLabels
<1>3. RecordTypes' /\ UNCHANGED <<endpoints, catalog, probes, selections>> /\ Others
    BY <1>2, TypeParts DEF CatalogInv, RecordTypes, Report, ReportFailure
<1>4. CASE ReportFailure(p)
    BY <1>3, <1>4, EndGood DEF ReportFailure
<1>5. CASE Report(p)
  <2> DEFINE c == [command[p] EXCEPT !.at = "save"]
  <2>1. /\ c \in Command /\ c.at = "save" /\ c.seen = command[p].seen
        /\ c.endpoint = command[p].endpoint /\ c.copy = command[p].copy
    BY <1>1 DEF Command
  <2>2. Knows(c)
    BY <1>1, <1>2, <2>1 DEF Knows, EndpointLabels, ProbeLabels, ForgetLabels
  <2>3. command' = [command EXCEPT ![p] = c]
    BY <1>5 DEF Report, Goto
  <2> HIDE DEF c
  <2>4. PICK d \in Command : d = c
    BY <2>1
  <2>5. Knows(d)' /\ probes \subseteq probes'
    BY <1>3, <2>2, <2>4, KnowsStays DEF Others
  <2> QED BY <1>3, <2>3, <2>4, <2>5, RecordFrame DEF Others
<1> QED BY <1>4, <1>5

(* A command goes on to probe the models of a queue.                       *)
LEMMA QueueGood ==
    ASSUME NEW queue \in SUBSET Model
    PROVE  LET c == [Idle EXCEPT !.at = "queue", !.does = "probe", !.todo = queue]
           IN c \in Command /\ Knows(c)
<1> DEFINE c == [Idle EXCEPT !.at = "queue", !.does = "probe", !.todo = queue]
<1>1. c \in Command
    BY IdleGood DEF Command
<1>2. c.at = "queue" /\ c.seen = Idle.seen
    BY IdleGood DEF Command
<1>3. Knows(c)
    BY <1>2, IdleGood DEF Knows, EndpointLabels, ProbeLabels, ForgetLabels
<1> QED BY <1>1, <1>3

LEMMA SaveEndpointGood ==
    ASSUME CatalogInv, NEW p \in Proc, NEW new, NEW stale, SaveEndpoint(p, new, stale)
    PROVE  CatalogInv'
<1>1. /\ command[p] \in Command /\ Knows(command[p]) /\ command[p].at = "save"
      /\ command[p].endpoint \in Endpoint /\ command[p].copy \in EndpointRecord
    BY HeldGood DEF SaveEndpoint, At, Knows, EndpointLabels
<1> DEFINE queue == (IF new THEN Added(p) ELSE {}) \cup (IF stale THEN Updated(p) ELSE {})
           c == IF queue = {} THEN Idle
                ELSE [Idle EXCEPT !.at = "queue", !.does = "probe", !.todo = queue]
<1>2. queue \subseteq Model
    BY DEF Added, Updated, Listed
<1>3. c \in Command /\ Knows(c)
    BY <1>2, QueueGood, IdleGood
<1>4. RecordTypes' /\ UNCHANGED <<served, changes, unlisted, commands, catalog, probes>>
    BY <1>1, TypeParts DEF CatalogInv, RecordTypes, SaveEndpoint, EndpointRecord, Others
<1>5. command' = [command EXCEPT ![p] = c]
    BY DEF SaveEndpoint
<1> HIDE DEF c
<1>6. PICK d \in Command : d = c
    BY <1>3
<1>7. Knows(d)'
    BY <1>3, <1>4, <1>6, KnowsStays
<1> QED BY <1>4, <1>5, <1>6, <1>7, RecordFrame

LEMMA ProbeNextGood ==
    ASSUME CatalogInv, NEW p \in Proc, NEW m \in Model, ProbeNext(p, m)
    PROVE  CatalogInv'
<1>1. command[p] \in Command /\ Knows(command[p]) /\ catalog \in Catalog
    BY HeldGood, TypeParts DEF CatalogInv, RecordTypes
<1>2. UNCHANGED <<served, changes, unlisted, commands, records>> /\ commands' \in 0 .. Commands
    BY TypeParts DEF CatalogInv, CommandTypes, ProbeNext, Others
<1>3. CASE catalog[m] # None /\ catalog[m].availability = "available"
  <2> DEFINE c == [command[p] EXCEPT !.at = "probe", !.model = m, !.seen[m] = catalog[m],
                                     !.todo = command[p].todo \ {m}]
  <2>1. [command[p].seen EXCEPT ![m] = catalog[m]] \in Catalog /\ command[p].seen \in Catalog
    BY <1>1 DEF Catalog, Command
  <2>2. /\ c \in Command /\ c.at = "probe" /\ c.model = m
        /\ c.seen = [command[p].seen EXCEPT ![m] = catalog[m]]
    BY <1>1, <2>1 DEF Command
  <2>3. \A n \in Model : c.seen[n] = IF n = m THEN catalog[m] ELSE command[p].seen[n]
    BY <2>1, <2>2 DEF Catalog
  <2>4. \A n \in Model : c.seen[n] # None => Backed(n, c.seen[n])
    BY <1>1, <2>3 DEF Knows, CatalogInv, CatalogBacked
  <2>5. Knows(c)
    BY <1>3, <2>2, <2>3, <2>4 DEF Knows, EndpointLabels, ProbeLabels, ForgetLabels
  <2>6. command' = [command EXCEPT ![p] = c]
    BY <1>3 DEF ProbeNext
  <2> HIDE DEF c
  <2> QED BY <1>2, <2>2, <2>5, <2>6, QuietFrame
<1>4. CASE ~(catalog[m] # None /\ catalog[m].availability = "available")
    BY <1>2, <1>4, IdleGood, QuietFrame DEF ProbeNext
<1> QED BY <1>3, <1>4

(* The probe's record is there before the model's says so.                 *)
LEMMA RunProbeGood ==
    ASSUME CatalogInv, NEW p \in Proc, RunProbe(p)
    PROVE  CatalogInv'
<1>1. /\ command[p] \in Command /\ Knows(command[p]) /\ command[p].at = "probe"
      /\ command[p].model \in Model /\ command[p].seen[command[p].model] # None
    BY HeldGood DEF RunProbe, At, Knows, ProbeLabels
<1> DEFINE m == command[p].model
<1>2. command[p].seen[m] \in ModelRecord
    BY <1>1 DEF Command, Catalog
<1>3. PICK shown \in Shown(m) :
          /\ probes' = probes \cup
                {[model |-> m, version |-> command[p].seen[m].version, classification |-> shown]}
          /\ command' = [command EXCEPT ![p].at = "conclude", ![p].classification = shown]
    BY DEF RunProbe
<1>4. shown \in Classification
    BY <1>3 DEF Shown, Classification
<1>5. [model |-> m, version |-> command[p].seen[m].version, classification |-> shown] \in ProbeResult
    BY <1>1, <1>2, <1>4 DEF ProbeResult, ModelRecord
<1>6. RecordTypes'
    BY <1>3, <1>5, TypeParts DEF CatalogInv, RecordTypes, RunProbe
<1> DEFINE c == [command[p] EXCEPT !.at = "conclude", !.classification = shown]
<1>7. /\ c \in Command /\ c.at = "conclude" /\ c.classification = shown /\ c.model = m
      /\ c.seen = command[p].seen
    BY <1>1, <1>4 DEF Command
<1>8. command' = [command EXCEPT ![p] = c]
    BY <1>3
<1>9. UNCHANGED <<served, changes, unlisted, commands, catalog>> /\ probes \subseteq probes'
    BY <1>3 DEF RunProbe, Others
<1> HIDE DEF c
<1>10. PICK d \in Command : d = c
    BY <1>7
<1>11. PICK e : e = command[p]
    OBVIOUS
<1>12. Knows(e)'
    BY <1>1, <1>9, <1>11, KnowsStays
<1>13. Knows(d)'
    BY <1>1, <1>3, <1>7, <1>10, <1>11, <1>12 DEF Knows, EndpointLabels, ProbeLabels, ForgetLabels
<1> QED BY <1>6, <1>8, <1>9, <1>10, <1>13, RecordFrame

LEMMA SaveProbedGood ==
    ASSUME CatalogInv, NEW p \in Proc, SaveProbed(p)
    PROVE  CatalogInv'
<1>1. /\ command[p] \in Command /\ Knows(command[p]) /\ command[p].at = "conclude"
      /\ command[p].model \in Model /\ command[p].seen[command[p].model] # None
    BY HeldGood DEF SaveProbed, At, Knows, ProbeLabels
<1> DEFINE m == command[p].model
           old == command[p].seen[m]
           r == [old EXCEPT !.classification = command[p].classification, !.stale = FALSE,
                            !.state = "current"]
           c == IF command[p].todo = {} THEN Idle
                ELSE [Idle EXCEPT !.at = "queue", !.does = "probe", !.todo = command[p].todo]
<1>2. old \in ModelRecord /\ Backed(m, old) /\ command[p].classification \in Classification
    BY <1>1 DEF Knows, Command, Catalog
<1>3. r \in ModelRecord
    BY <1>2 DEF ModelRecord
<1>4. /\ r.version = old.version /\ r.classification = command[p].classification
      /\ r.since = old.since /\ r.availability = old.availability
    BY <1>2 DEF ModelRecord
<1>5. [model |-> m, version |-> old.version, classification |-> command[p].classification] \in probes
    BY <1>1 DEF Knows
<1>6. Backed(m, r)
    BY <1>2, <1>4, <1>5 DEF Backed, Evidence
<1>7. command[p].todo \in SUBSET Model
    BY <1>1 DEF Command
<1>8. c \in Command /\ Knows(c)
    BY <1>7, QueueGood, IdleGood
<1>9. command' = [command EXCEPT ![p] = c] /\ Write(m, r)
    BY <1>1, TypeParts DEF SaveProbed, CatalogInv, CommandTypes
<1>10. Others /\ UNCHANGED <<endpoints, probes, health, selections>>
    BY DEF SaveProbed
<1> HIDE DEF c, r
<1> QED BY <1>1, <1>3, <1>6, <1>8, <1>9, <1>10, WriteFrame

LEMMA ForgetGood ==
    ASSUME CatalogInv, NEW p \in Proc, CheckReferences(p) \/ DeleteModel(p)
    PROVE  CatalogInv'
<1>1. /\ command[p] \in Command /\ Knows(command[p]) /\ command[p].at \in {"check", "delete"}
      /\ command[p].model \in Model
    BY HeldGood DEF CheckReferences, DeleteModel, At, Knows, ForgetLabels
<1>2. commands \in 0 .. Commands /\ RecordTypes
    BY TypeParts DEF CatalogInv, CommandTypes
<1>3. CASE CheckReferences(p)
  <2>1. UNCHANGED <<served, changes, unlisted, commands, records>> /\ RecordTypes' /\ commands' \in 0 .. Commands
    BY <1>2, <1>3 DEF CheckReferences, Others, records, RecordTypes
  <2>2. CASE Referenced(command[p].model)
    BY <1>3, <2>1, <2>2, IdleGood, QuietFrame DEF CheckReferences, End
  <2>3. CASE ~Referenced(command[p].model)
    <3> DEFINE c == [command[p] EXCEPT !.at = "delete"]
    <3>1. c \in Command /\ c.at = "delete" /\ c.seen = command[p].seen /\ c.model = command[p].model
      BY <1>1 DEF Command
    <3>2. Knows(c)
      BY <1>1, <3>1 DEF Knows, EndpointLabels, ProbeLabels, ForgetLabels
    <3>3. command' = [command EXCEPT ![p] = c]
      BY <1>3, <2>3 DEF CheckReferences, Goto
    <3> HIDE DEF c
    <3> QED BY <2>1, <3>1, <3>2, <3>3, QuietFrame
  <2> QED BY <2>2, <2>3
<1>4. CASE DeleteModel(p)
    BY <1>1, <1>4, IdleGood, WriteFrame DEF DeleteModel, End
<1> QED BY <1>3, <1>4

LEMMA ChooseGood ==
    ASSUME CatalogInv, NEW p \in Proc, Choose(p)
    PROVE  CatalogInv'
<1>1. RecordTypes'
    BY TypeParts DEF CatalogInv, RecordTypes, Choose, Considered
<1> QED BY <1>1, EndGood DEF Choose

(* Types, evidence and history hold whatever commands overlap.             *)
LEMMA CatalogStays == CatalogInv /\ [NextCatalog]_cvars => CatalogInv'
<1> SUFFICES ASSUME CatalogInv, [NextCatalog]_cvars PROVE CatalogInv'
    OBVIOUS
<1>1. CASE UNCHANGED cvars
    BY <1>1 DEF cvars, CatalogInv, TypeOK, CatalogBacked, UnlistedKnown, Knows, Backed
<1>2. CASE Provider
    BY <1>2, ProviderGood
<1>3. ASSUME NEW p \in Proc, CommandStep(p) PROVE CatalogInv'
    BY <1>3, SaveDisabledGood, ReadPreviousGood, AskGood, MarkGood, ReadModelGood, WriteModelGood,
       WrittenGood, ReportGood, SaveEndpointGood, ProbeNextGood, RunProbeGood, SaveProbedGood,
       ForgetGood, ChooseGood DEF CommandStep
<1> QED BY <1>1, <1>2, <1>3, BeginGood DEF NextCatalog

LEMMA CatalogStarts == Init => CatalogInv
<1> SUFFICES ASSUME Init PROVE CatalogInv
    OBVIOUS
<1>1. PICK initially \in Initially, version \in [Model -> Able] :
          /\ endpoints = [e \in Endpoint |->
                IF \E m \in Model : EndpointOf[m] = e /\ initially[m] # "unknown"
                THEN [enabled |-> TRUE, valid |-> TRUE] ELSE None]
          /\ catalog = [m \in Model |->
                CASE initially[m] = "unknown" -> None
                  [] initially[m] = "discovered" -> Unproven(version[m])
                  [] initially[m] = "probed" -> Proven(version[m])]
          /\ probes = {[model |-> m, version |-> version[m], classification |-> "implementation"] :
                          m \in {n \in Model : initially[n] = "probed"}}
    BY DEF Init
<1>2. initially \in [Model -> {"unknown", "discovered", "probed"}] /\ \A m \in Model : version[m] \in Version
    BY CatalogAssumption DEF Beginning
<1>3. ASSUME NEW m \in Model
      PROVE  /\ initially[m] \in {"unknown", "discovered", "probed"}
             /\ initially[m] = "unknown" => catalog[m] = None
             /\ initially[m] = "discovered" => catalog[m] = Unproven(version[m])
             /\ initially[m] = "probed" => catalog[m] = Proven(version[m])
    BY <1>1, <1>2
<1>4. ASSUME NEW v \in Version PROVE Proven(v) \in ModelRecord /\ Unproven(v) \in ModelRecord
    BY DEF Proven, Unproven, ModelRecord, Classification, Availability
<1>5. catalog \in Catalog
    BY <1>1, <1>2, <1>3, <1>4 DEF Catalog
<1>6. RecordTypes
  <2>1. probes \subseteq ProbeResult
    BY <1>1, <1>2 DEF ProbeResult, Classification
  <2>2. endpoints \in [Endpoint -> EndpointRecord \cup {None}]
    BY <1>1 DEF EndpointRecord
  <2> QED BY <1>5, <2>1, <2>2 DEF Init, RecordTypes
<1>7. ProviderTypes /\ CommandTypes
    BY CatalogAssumption, IdleGood DEF Init, ProviderTypes, CommandTypes, Inventory
<1>8. CatalogBacked
  <2> SUFFICES ASSUME NEW m \in Model, catalog[m] # None PROVE Backed(m, catalog[m])
    BY DEF CatalogBacked
  <2>1. CASE initially[m] = "probed"
    <3>1. [model |-> m, version |-> version[m], classification |-> "implementation"] \in probes
      BY <1>1, <2>1
    <3>2. PICK v : v = version[m]
      OBVIOUS
    <3>3. catalog[m] = Proven(v) /\ [model |-> m, version |-> v, classification |-> "implementation"] \in probes
      BY <1>3, <2>1, <3>1, <3>2
    <3> QED BY <3>3 DEF Proven, Backed, Evidence
  <2>2. CASE initially[m] = "discovered"
    BY <1>3, <2>2 DEF Proven, Unproven, Backed
  <2> QED BY <1>3, <2>1, <2>2
<1>9. UnlistedKnown
    BY DEF Init, UnlistedKnown
<1>10. \A p \in Proc : Knows(command[p])
    BY IdleGood DEF Init
<1> QED BY <1>6, <1>7, <1>8, <1>9, <1>10, TypeParts DEF CatalogInv

-----------------------------------------------------------------------------
(* A launch.  WorkLabels are those of an attempt.                          *)
WorkLabels == {"turn", "tools", "done", "failed"}

(* The responses paid for: the turns of this attempt, and one of each      *)
(* model that failed with a response that could not be read.               *)
Spent(l) == IF l.at \in WorkLabels THEN l.turns ELSE 0

AccountOK(l) ==
    /\ IsFiniteSet(l.unread)
    /\ l.unrecorded = Cardinality(l.unread) + Spent(l)
    /\ l.at = "models" => l.unread = {}
    /\ l.at = "failed" => l.unread \cap l.remaining \subseteq {l.model}
    /\ l.at \in {"select", "get", "turn", "tools", "done"} => l.unread \cap l.remaining = {}
    /\ l.at \in {"get"} \cup WorkLabels => l.model \in l.remaining

LaunchOK(l) ==
    /\ l.at \in {"get"} \cup WorkLabels => l.model \in Model
    /\ l.at \in {"get"} \cup WorkLabels =>
          EndpointOf[l.model] \in Local \/ \A layer \in l.layers : layer.cloud
    /\ l.at \in {"turn", "tools"} =>
          EndpointOf[l.model] \in Local \/ l.first \/ \A layer \in l.layers : layer.fallback
    /\ l.at = "tools" => l.turns > 0 /\ l.calls > 0
    /\ AccountOK(l)

(* The worktree looks as it did before the launch, until the first turn is *)
(* over, and again when another model is to be tried.                      *)
WorktreeOK(l, s) ==
    /\ l.at \in WorkLabels => l.before = l.initially
    /\ l.at \in {"models", "select", "get"} \/ (l.at = "turn" /\ l.turns = 0) => s = l.initially

LaunchInv ==
    /\ CatalogInv
    /\ launch \in [Launcher -> Launch] /\ content \in [Launcher -> Content]
    /\ \A p \in Launcher :
          /\ launch[p].at # "none" => command[p].at = "launch"
          /\ LaunchOK(launch[p])
          /\ WorktreeOK(launch[p], Status(p))

-----------------------------------------------------------------------------
LEMMA LaunchHeld ==
    ASSUME LaunchInv, NEW p \in Launcher
    PROVE  /\ p \in Proc
           /\ launch[p] \in Launch /\ content[p] \in Content
           /\ LaunchOK(launch[p]) /\ WorktreeOK(launch[p], content[p] # BaseContent)
           /\ command[p] \in Command /\ Knows(command[p])
           /\ launch[p].at # "none" => command[p].at = "launch"
           /\ catalog \in Catalog /\ RecordTypes /\ commands \in 0 .. Commands
<1>1. p \in Proc
    BY LaunchAssumption
<1>2. command[p] \in Command /\ Knows(command[p])
    BY <1>1, HeldGood DEF LaunchInv
<1>3. RecordTypes /\ commands \in 0 .. Commands
    BY TypeParts DEF LaunchInv, CatalogInv, CommandTypes
<1> QED BY <1>1, <1>2, <1>3 DEF LaunchInv, Status, RecordTypes

(* One launch takes a step.                                                *)
LEMMA LaunchFrame ==
    ASSUME LaunchInv, CatalogInv', NEW p \in Launcher,
           NEW l \in Launch, launch' = [launch EXCEPT ![p] = l],
           NEW w \in Content, content' = [content EXCEPT ![p] = w],
           \A q \in Proc \ {p} : command'[q] = command[q],
           l.at # "none" => command'[p].at = "launch",
           LaunchOK(l), WorktreeOK(l, w # BaseContent)
    PROVE  LaunchInv'
<1>1. launch' \in [Launcher -> Launch] /\ content' \in [Launcher -> Content]
    BY DEF LaunchInv
<1>2. ASSUME NEW q \in Launcher
      PROVE  /\ launch'[q] = IF q = p THEN l ELSE launch[q]
             /\ content'[q] = IF q = p THEN w ELSE content[q]
    BY DEF LaunchInv
<1>3. ASSUME NEW q \in Launcher
      PROVE  /\ launch'[q].at # "none" => command'[q].at = "launch"
             /\ LaunchOK(launch'[q]) /\ WorktreeOK(launch'[q], content'[q] # BaseContent)
  <2>1. CASE q = p
    BY <1>2, <2>1
  <2>2. CASE q # p
    <3>1. launch'[q] = launch[q] /\ content'[q] = content[q] /\ command'[q] = command[q]
      BY <1>2, <2>2, LaunchAssumption
    <3> QED BY <3>1, LaunchHeld
  <2> QED BY <2>1, <2>2
<1> QED BY <1>1, <1>3 DEF LaunchInv, Status, LaunchOK, WorktreeOK, AccountOK, Spent

(* A step that leaves the commands and the worktree alone, and all of the  *)
(* catalog but health and the models that a decision names.                *)
LEMMA AttemptFrame ==
    ASSUME LaunchInv, NEW p \in Launcher, NEW l \in Launch, launch' = [launch EXCEPT ![p] = l],
           UNCHANGED <<served, changes, unlisted, commands, endpoints, catalog, probes, command, content>>,
           health' \in [Endpoint -> {"unknown", "up", "down"}], selections' \subseteq Model,
           launch[p].at # "none", LaunchOK(l), WorktreeOK(l, content[p] # BaseContent)
    PROVE  LaunchInv'
<1>1. /\ p \in Proc /\ command[p] \in Command /\ Knows(command[p]) /\ RecordTypes
      /\ content[p] \in Content /\ command[p].at = "launch"
    BY LaunchHeld
<1>2. RecordTypes'
    BY <1>1 DEF RecordTypes
<1>3. CommandTypes
    BY TypeParts DEF LaunchInv, CatalogInv
<1>4. PICK c \in Command : c = command[p] /\ command' = [command EXCEPT ![p] = c]
    BY <1>1, <1>3 DEF CommandTypes
<1>5. Knows(c)'
    BY <1>1, <1>4, KnowsStays
<1>6. CatalogInv'
    BY <1>1, <1>2, <1>4, <1>5, RecordFrame DEF LaunchInv
<1>7. content' = [content EXCEPT ![p] = content[p]]
    BY DEF LaunchInv
<1>8. PICK w \in Content : w = content[p]
    BY <1>1
<1> QED BY <1>1, <1>6, <1>7, <1>8, LaunchFrame

LEMMA NoLaunchGood ==
    /\ NoLaunch \in Launch /\ NoLaunch.at = "none" /\ NoLaunch.unrecorded = 0
    /\ NoLaunch.unread = {} /\ NoLaunch.remaining = {}
BY LaunchAssumption DEF NoLaunch, Launch

(* Between attempts, every turn of those over is recorded.                 *)
Settled(l) == IsFiniteSet(l.unread) /\ l.unrecorded = Cardinality(l.unread)

LEMMA CardinalityNat ==
    ASSUME NEW S, IsFiniteSet(S) PROVE Cardinality(S) \in Nat
BY FS_CardinalityType

LEMMA SettledSpent ==
    ASSUME NEW l, l.at \notin WorkLabels
    PROVE  AccountOK(l) <=>
             /\ Settled(l)
             /\ l.at = "models" => l.unread = {}
             /\ l.at \in {"select", "get"} => l.unread \cap l.remaining = {}
             /\ l.at = "get" => l.model \in l.remaining
<1>1. IsFiniteSet(l.unread) => Cardinality(l.unread) + 0 = Cardinality(l.unread)
    BY CardinalityNat
<1> QED BY <1>1 DEF AccountOK, Spent, Settled, WorkLabels

(* A launch ends.                                                          *)
LEMMA EndLaunchGood ==
    ASSUME LaunchInv, NEW p \in Launcher, NEW last, last.unread \subseteq Model, Settled(last),
           last.unrecorded \in Int, EndLaunch(p, last), Others,
           UNCHANGED <<endpoints, catalog, probes, content>>,
           health' \in [Endpoint -> {"unknown", "up", "down"}], selections' \subseteq Model
    PROVE  LaunchInv'
<1>1. p \in Proc /\ RecordTypes /\ content[p] \in Content
    BY LaunchHeld
<1>2. RecordTypes'
    BY <1>1 DEF RecordTypes
<1>3. CatalogInv'
    BY <1>1, <1>2, EndGood DEF LaunchInv, EndLaunch
<1> DEFINE l == [NoLaunch EXCEPT !.unrecorded = last.unrecorded, !.unread = last.unread]
<1>4. /\ l \in Launch /\ l.at = "none" /\ l.unrecorded = last.unrecorded
      /\ l.unread = last.unread
    BY NoLaunchGood DEF Launch
<1>5. AccountOK(l)
    BY <1>4, SettledSpent DEF Settled, WorkLabels
<1>6. LaunchOK(l) /\ WorktreeOK(l, content[p] # BaseContent)
    BY <1>4, <1>5 DEF LaunchOK, WorktreeOK, WorkLabels
<1>7. content' = [content EXCEPT ![p] = content[p]] /\ launch' = [launch EXCEPT ![p] = l]
    BY DEF LaunchInv, EndLaunch
<1>8. \A q \in Proc \ {p} : command'[q] = command[q]
    BY TypeParts DEF EndLaunch, End, LaunchInv, CatalogInv, CommandTypes
<1> HIDE DEF l
<1>9. PICK w \in Content, k \in Launch : w = content[p] /\ k = l
    BY <1>1, <1>4
<1> QED BY <1>3, <1>4, <1>6, <1>7, <1>8, <1>9, LaunchFrame

LEMMA LaunchApiGood ==
    ASSUME LaunchInv, NEW p \in Launcher, NEW layers \in Layers, LaunchApi(p, layers)
    PROVE  LaunchInv'
<1>1. p \in Proc /\ RecordTypes /\ content[p] \in Content
    BY LaunchHeld
<1> DEFINE c == [Idle EXCEPT !.at = "launch", !.does = "launch"]
           l == [NoLaunch EXCEPT !.at = "models", !.layers = layers, !.endpoints = endpoints,
                                 !.initially = Status(p)]
<1>2. c \in Command /\ c.at = "launch" /\ c.seen = Idle.seen
    BY IdleGood DEF Command
<1>3. Knows(c)
    BY <1>2, IdleGood DEF Knows, EndpointLabels, ProbeLabels, ForgetLabels
<1>4. CatalogInv'
    BY <1>1, <1>2, <1>3, BeginFrame DEF LaunchInv, LaunchApi
<1>5. command' = [command EXCEPT ![p] = c]
    BY DEF LaunchApi, Begin
<1>6. (\A q \in Proc \ {p} : command'[q] = command[q]) /\ command'[p].at = "launch"
    BY <1>1, <1>2, <1>5, TypeParts DEF LaunchInv, CatalogInv, CommandTypes
<1>7. /\ l \in Launch /\ l.at = "models" /\ l.unrecorded = 0 /\ l.initially = (content[p] # BaseContent)
      /\ l.unread = {}
    BY <1>1, NoLaunchGood DEF Launch, RecordTypes, Status
<1>11. AccountOK(l)
    BY <1>7, SettledSpent, FS_EmptySet DEF Settled, WorkLabels
<1>8. LaunchOK(l) /\ WorktreeOK(l, content[p] # BaseContent)
    BY <1>7, <1>11 DEF LaunchOK, WorktreeOK, WorkLabels
<1>9. content' = [content EXCEPT ![p] = content[p]] /\ launch' = [launch EXCEPT ![p] = l]
    BY DEF LaunchInv, LaunchApi
<1> HIDE DEF l
<1>10. PICK w \in Content, k \in Launch : w = content[p] /\ k = l
    BY <1>1, <1>7
<1> QED BY <1>4, <1>6, <1>8, <1>9, <1>10, LaunchFrame

LEMMA ReadModelsGood ==
    ASSUME LaunchInv, NEW p \in Launcher, ReadModels(p)
    PROVE  LaunchInv'
<1>1. /\ p \in Proc /\ catalog \in Catalog /\ content[p] \in Content /\ launch[p] \in Launch
      /\ LaunchOK(launch[p]) /\ WorktreeOK(launch[p], content[p] # BaseContent)
      /\ command[p] \in Command /\ Knows(command[p]) /\ command[p].at = "launch"
      /\ launch[p].at = "models" /\ commands \in 0 .. Commands
    BY LaunchHeld DEF ReadModels, LaunchAt
<1> DEFINE c == [command[p] EXCEPT !.seen = catalog]
           allowed == Effective(p).models
           left == {m \in Model : catalog[m] # None /\ (allowed = {} \/ m \in allowed)}
           l == [launch[p] EXCEPT !.at = "select", !.remaining = left]
<1>2. c \in Command /\ c.at = "launch" /\ c.seen = catalog
    BY <1>1 DEF Command
<1>3. Knows(c)
    BY <1>2 DEF Knows, EndpointLabels, ProbeLabels, ForgetLabels, LaunchInv, CatalogInv, CatalogBacked
<1>4. command' = [command EXCEPT ![p] = c] /\ UNCHANGED <<served, changes, unlisted, commands, records>>
    BY DEF ReadModels, Others
<1>5. CatalogInv'
    BY <1>1, <1>2, <1>3, <1>4, QuietFrame DEF LaunchInv
<1>6. (\A q \in Proc \ {p} : command'[q] = command[q]) /\ command'[p].at = "launch"
    BY <1>1, <1>2, <1>4, TypeParts DEF LaunchInv, CatalogInv, CommandTypes
<1>7. /\ l \in Launch /\ l.at = "select" /\ l.unrecorded = launch[p].unrecorded
      /\ l.initially = launch[p].initially /\ l.unread = launch[p].unread
    BY <1>1 DEF Launch
<1>11. AccountOK(l)
  <2>1. Settled(launch[p]) /\ launch[p].unread = {}
    BY <1>1, SettledSpent DEF LaunchOK, WorkLabels
  <2> QED BY <1>7, <2>1, SettledSpent DEF Settled, WorkLabels
<1>8. LaunchOK(l) /\ WorktreeOK(l, content[p] # BaseContent)
    BY <1>1, <1>7, <1>11 DEF LaunchOK, WorktreeOK, WorkLabels
<1>9. content' = [content EXCEPT ![p] = content[p]] /\ launch' = [launch EXCEPT ![p] = l]
    BY DEF LaunchInv, ReadModels
<1> HIDE DEF l
<1>10. PICK w \in Content, k \in Launch : w = content[p] /\ k = l
    BY <1>1, <1>7
<1> QED BY <1>5, <1>6, <1>8, <1>9, <1>10, LaunchFrame

(* What a composed policy allows, every layer allows.                      *)
LEMMA ComposedAllows ==
    ASSUME NEW p \in Launcher
    PROVE  /\ Effective(p).cloud => \A layer \in launch[p].layers : layer.cloud
           /\ Effective(p).fallback => \A layer \in launch[p].layers : layer.fallback
BY DEF Effective, Compose

LEMMA SelectModelGood ==
    ASSUME LaunchInv, NEW p \in Launcher, SelectModel(p)
    PROVE  LaunchInv'
<1>1. /\ RecordTypes /\ launch[p] \in Launch
      /\ LaunchOK(launch[p]) /\ WorktreeOK(launch[p], content[p] # BaseContent)
      /\ launch[p].at = "select"
    BY LaunchHeld DEF SelectModel, LaunchAt
<1>2. /\ launch[p].remaining \subseteq Model /\ launch[p].unread \subseteq Model
      /\ launch[p].unrecorded \in Int
    BY <1>1 DEF Launch
<1>6. Settled(launch[p]) /\ launch[p].unread \cap launch[p].remaining = {}
    BY <1>1, SettledSpent DEF LaunchOK, WorkLabels
<1>3. health' \in [Endpoint -> {"unknown", "up", "down"}] /\ selections' \subseteq Model
    BY <1>1, <1>2 DEF RecordTypes, SelectModel
<1>4. CASE EndLaunch(p, launch[p])
    BY <1>2, <1>3, <1>4, <1>6, EndLaunchGood DEF SelectModel
<1>5. ASSUME NEW m \in Eligible(p),
             launch' = [launch EXCEPT ![p].at = "get", ![p].model = m], UNCHANGED command
      PROVE  LaunchInv'
  <2> DEFINE l == [launch[p] EXCEPT !.at = "get", !.model = m]
  <2>1. /\ m \in Model /\ m \in launch[p].remaining
        /\ EndpointOf[m] \in Local \/ \A layer \in launch[p].layers : layer.cloud
    BY <1>2, ComposedAllows DEF Eligible
  <2>2. /\ l \in Launch /\ l.at = "get" /\ l.model = m
        /\ l.unrecorded = launch[p].unrecorded /\ l.unread = launch[p].unread
        /\ l.remaining = launch[p].remaining
        /\ l.layers = launch[p].layers /\ l.initially = launch[p].initially
    BY <1>1, <1>2, <2>1 DEF Launch
  <2>6. AccountOK(l)
    BY <1>6, <2>1, <2>2, SettledSpent DEF Settled, WorkLabels
  <2>3. LaunchOK(l) /\ WorktreeOK(l, content[p] # BaseContent)
    BY <1>1, <2>1, <2>2, <2>6 DEF LaunchOK, WorktreeOK, WorkLabels
  <2>4. launch' = [launch EXCEPT ![p] = l]
    BY <1>5
  <2> HIDE DEF l
  <2>5. PICK k \in Launch : k = l
    BY <2>2
  <2> QED BY <1>1, <1>3, <1>5, <2>3, <2>4, <2>5, AttemptFrame DEF SelectModel, Others
<1> QED BY <1>4, <1>5 DEF SelectModel

LEMMA GetModelGood ==
    ASSUME LaunchInv, NEW p \in Launcher, GetModel(p)
    PROVE  LaunchInv'
<1>1. /\ RecordTypes /\ launch[p] \in Launch
      /\ LaunchOK(launch[p]) /\ WorktreeOK(launch[p], content[p] # BaseContent)
      /\ launch[p].at = "get"
    BY LaunchHeld DEF GetModel, LaunchAt
<1>2. /\ launch[p].model \in Model /\ launch[p].unread \subseteq Model
      /\ launch[p].unrecorded \in Int
    BY <1>1 DEF LaunchOK, WorkLabels, Launch
<1>6. /\ Settled(launch[p]) /\ launch[p].unread \cap launch[p].remaining = {}
      /\ launch[p].model \in launch[p].remaining
    BY <1>1, SettledSpent DEF LaunchOK, WorkLabels
<1>3. health' \in [Endpoint -> {"unknown", "up", "down"}] /\ selections' \subseteq Model
    BY <1>1 DEF RecordTypes, GetModel, records
<1>4. CASE EndLaunch(p, launch[p])
    BY <1>2, <1>3, <1>4, <1>6, EndLaunchGood DEF GetModel, records
<1>5. CASE /\ MayFallBack(p, launch[p].model) /\ UNCHANGED command
           /\ launch' = [launch EXCEPT ![p].at = "turn", ![p].turns = 0, ![p].tools = 0,
                                       ![p].before = Status(p)]
  <2> DEFINE l == [launch[p] EXCEPT !.at = "turn", !.turns = 0, !.tools = 0, !.before = Status(p)]
  <2>6. 0 \in 0 .. MaxTurns /\ 0 \in 0 .. MaxTools
    BY LaunchAssumption
  <2>7. PICK s \in BOOLEAN : s = Status(p) /\ s = (content[p] # BaseContent)
    BY DEF Status
  <2>1. /\ l \in Launch /\ l.at = "turn" /\ l.turns = 0 /\ l.before = (content[p] # BaseContent)
        /\ l.model = launch[p].model /\ l.first = launch[p].first
        /\ l.unrecorded = launch[p].unrecorded /\ l.unread = launch[p].unread
        /\ l.remaining = launch[p].remaining
        /\ l.layers = launch[p].layers /\ l.initially = launch[p].initially
    BY <1>1, <1>2, <2>6, <2>7 DEF Launch
  <2>2. \/ EndpointOf[launch[p].model] \in Local \/ launch[p].first
        \/ \A layer \in launch[p].layers : layer.fallback
    BY <1>5, ComposedAllows DEF MayFallBack
  <2>8. AccountOK(l)
    <3>1. Cardinality(l.unread) + 0 = Cardinality(l.unread) /\ IsFiniteSet(l.unread)
      BY <1>6, <2>1, CardinalityNat DEF Settled
    <3> QED BY <1>6, <2>1, <3>1 DEF AccountOK, Spent, Settled, WorkLabels
  <2>3. LaunchOK(l) /\ WorktreeOK(l, content[p] # BaseContent)
    BY <1>1, <2>1, <2>2, <2>8 DEF LaunchOK, WorktreeOK, WorkLabels
  <2>4. launch' = [launch EXCEPT ![p] = l]
    BY <1>5
  <2> HIDE DEF l
  <2>5. PICK k \in Launch : k = l
    BY <2>1
  <2> QED BY <1>1, <1>3, <1>5, <2>3, <2>4, <2>5, AttemptFrame DEF GetModel, Others, records
<1> QED BY <1>4, <1>5 DEF GetModel

(* What holds of the account while a worker works, and when it has failed. *)
Accounted(l) ==
    /\ IsFiniteSet(l.unread)
    /\ l.unrecorded = Cardinality(l.unread) + l.turns
    /\ l.unread \cap l.remaining \subseteq {l.model} /\ l.model \in l.remaining

LEMMA SpentMore ==
    ASSUME NEW l, NEW k, Accounted(l), NEW n \in Nat, l.turns \in Nat,
           k.unread = l.unread, k.remaining = l.remaining, k.model = l.model,
           k.turns = l.turns + n, k.unrecorded = l.unrecorded + n
    PROVE  Accounted(k)
<1>1. Cardinality(l.unread) \in Nat
    BY CardinalityNat DEF Accounted
<1>2. k.unrecorded = Cardinality(l.unread) + k.turns
    BY <1>1 DEF Accounted
<1> QED BY <1>2 DEF Accounted

LEMMA SpentUnread ==
    ASSUME NEW l, NEW k, Accounted(l), l.turns \in Nat, l.unread \cap l.remaining = {},
           k.unread = l.unread \cup {l.model}, k.remaining = l.remaining, k.model = l.model,
           k.turns = l.turns, k.unrecorded = l.unrecorded + 1
    PROVE  Accounted(k)
<1>1. l.model \notin l.unread
    BY DEF Accounted
<1>2. IsFiniteSet(k.unread) /\ Cardinality(k.unread) = Cardinality(l.unread) + 1
    BY <1>1, FS_AddElement DEF Accounted
<1>3. Cardinality(l.unread) \in Nat
    BY CardinalityNat DEF Accounted
<1>4. k.unrecorded = Cardinality(k.unread) + k.turns
    BY <1>2, <1>3 DEF Accounted
<1> QED BY <1>2, <1>4 DEF Accounted

LEMMA SpentLess ==
    ASSUME NEW l, AccountOK(l), l.at \in {"done", "failed"}, l.turns \in Nat
    PROVE  /\ IsFiniteSet(l.unread) /\ l.unrecorded - l.turns = Cardinality(l.unread)
           /\ l.unread \cap l.remaining \subseteq {l.model} /\ l.model \in l.remaining
           /\ l.at = "done" => l.unread \cap l.remaining = {}
<1>1. Cardinality(l.unread) \in Nat
    BY CardinalityNat DEF AccountOK
<1>2. l.unrecorded - l.turns = Cardinality(l.unread)
    BY <1>1 DEF AccountOK, Spent, WorkLabels
<1> QED BY <1>2 DEF AccountOK, WorkLabels

(* The turns and tool calls of a worker leave the catalog alone.           *)
LEMMA TurnGood ==
    ASSUME LaunchInv, NEW p \in Launcher, Turn(p)
    PROVE  LaunchInv'
<1>1. /\ launch[p] \in Launch /\ content[p] \in Content /\ RecordTypes
      /\ LaunchOK(launch[p]) /\ WorktreeOK(launch[p], content[p] # BaseContent)
    BY LaunchHeld
<1>2. MaxTurns \in Nat /\ MaxTools \in Nat /\ MaxCalls \in Nat
    BY LaunchAssumption
<1>3. launch[p].at \in {"turn", "tools"} /\ UNCHANGED cvars
    BY DEF Turn, Complete, CompleteUnread, CompleteFails, OutOfTurns, ToolCall, MayTurn, LaunchAt
<1>4. /\ launch[p].turns \in 0 .. MaxTurns /\ launch[p].tools \in 0 .. MaxTools
      /\ launch[p].calls \in 0 .. MaxCalls /\ launch[p].unrecorded \in Int
      /\ launch[p].before = launch[p].initially
    BY <1>1, <1>3 DEF Launch, LaunchOK, WorktreeOK, WorkLabels
<1>12. Accounted(launch[p]) /\ launch[p].unread \cap launch[p].remaining = {}
    BY <1>1, <1>3 DEF LaunchOK, AccountOK, Accounted, Spent, WorkLabels
<1>13. launch[p].turns \in Nat
    BY <1>2, <1>4
(* What a step of the work may change, and what it keeps.                  *)
<1> DEFINE Works(l) ==
        /\ l \in Launch
        /\ Accounted(l) /\ (l.at # "failed" => l.unread \cap l.remaining = {})
        /\ l.model = launch[p].model /\ l.layers = launch[p].layers /\ l.first = launch[p].first
        /\ l.before = launch[p].before /\ l.initially = launch[p].initially
        /\ l.at \in {"turn", "tools"} => l.turns > 0
        /\ l.at = "tools" => l.calls > 0
<1>5. ASSUME NEW l, Works(l), l.at \in WorkLabels, NEW w \in Content,
             launch' = [launch EXCEPT ![p] = l], content' = [content EXCEPT ![p] = w]
      PROVE  LaunchInv'
  <2>1. LaunchOK(l) /\ WorktreeOK(l, w # BaseContent)
    <3>1. l.turns \in 0 .. MaxTurns
      BY <1>5 DEF Launch
    <3>2. AccountOK(l)
      BY <1>5 DEF AccountOK, Accounted, Spent, WorkLabels
    <3> QED BY <1>1, <1>3, <1>4, <1>5, <3>1, <3>2 DEF LaunchOK, WorktreeOK, WorkLabels
  <2>2. CatalogInv'
    <3>1. CatalogInv /\ [NextCatalog]_cvars
      BY <1>3 DEF LaunchInv
    <3> QED BY <3>1, CatalogStays
  <2>3. UNCHANGED command /\ command[p].at = "launch"
    BY <1>3, LaunchHeld DEF cvars
  <2>4. PICK k \in Launch : k = l
    BY <1>5
  <2> QED BY <1>5, <2>1, <2>2, <2>3, <2>4, LaunchFrame
<1>6. content = [content EXCEPT ![p] = content[p]]
    BY DEF LaunchInv
(* An attempt that fails, with what it has used.                           *)
<1>7. ASSUME NEW new, Fail(p, new, TRUE) \/ Fail(p, new, FALSE), UNCHANGED content,
             new \in Launch, Accounted(new), new.turns \in Nat,
             new.model = launch[p].model, new.layers = launch[p].layers, new.first = launch[p].first,
             new.before = launch[p].before, new.initially = launch[p].initially
      PROVE  LaunchInv'
  <2>1. PICK reached \in BOOLEAN : Fail(p, new, reached)
    BY <1>7
  <2> DEFINE l == [new EXCEPT !.at = "failed", !.reached = reached, !.tools = 0, !.calls = 0]
  <2>2. 0 \in 0 .. MaxTools /\ 0 \in 0 .. MaxCalls
    BY <1>2
  <2>5. /\ l.unread = new.unread /\ l.remaining = new.remaining /\ l.model = new.model
        /\ l.turns = new.turns /\ l.unrecorded = new.unrecorded
    BY <1>7 DEF Launch
  <2>6. Accounted(l)
    BY <1>7, <2>5 DEF Accounted
  <2>3. Works(l) /\ l.at = "failed"
    BY <1>7, <2>2, <2>6 DEF Launch
  <2>4. launch' = [launch EXCEPT ![p] = l]
    BY <2>1 DEF Fail
  <2> HIDE DEF l
  <2> QED BY <1>1, <1>5, <1>6, <1>7, <2>3, <2>4 DEF WorkLabels
<1>8. ASSUME NEW calls \in 0 .. MaxCalls, NEW exceeds \in BOOLEAN, Complete(p, calls, exceeds)
      PROVE  LaunchInv'
  <2> DEFINE new == [launch[p] EXCEPT !.turns = @ + 1, !.unrecorded = @ + 1, !.calls = calls]
  <2>1. launch[p].turns + 1 \in 0 .. MaxTurns /\ launch[p].turns + 1 \in Int /\ launch[p].turns + 1 > 0
    BY <1>2, <1>4, <1>8 DEF Complete, MayTurn
  <2>2. /\ new \in Launch /\ new.turns = launch[p].turns + 1
        /\ new.unrecorded = launch[p].unrecorded + 1
        /\ new.unread = launch[p].unread /\ new.remaining = launch[p].remaining
        /\ new.calls = calls /\ new.at = "turn"
        /\ new.model = launch[p].model /\ new.layers = launch[p].layers
        /\ new.first = launch[p].first /\ new.before = launch[p].before
        /\ new.initially = launch[p].initially
    <3>1. launch[p].at = "turn" /\ launch[p] \in Launch
      BY <1>1, <1>8 DEF Complete, MayTurn, LaunchAt
    <3>2. PICK u \in Int, t \in 0 .. MaxTurns :
              u = launch[p].unrecorded + 1 /\ t = launch[p].turns + 1
      BY <1>4, <2>1
    <3>3. new = [launch[p] EXCEPT !.turns = t, !.unrecorded = u, !.calls = calls]
      BY <3>2
    <3> HIDE DEF new
    <3>4. /\ new \in Launch /\ new.turns = t /\ new.unrecorded = u
          /\ new.unread = launch[p].unread /\ new.remaining = launch[p].remaining
          /\ new.calls = calls /\ new.at = "turn"
          /\ new.model = launch[p].model /\ new.layers = launch[p].layers
          /\ new.first = launch[p].first /\ new.before = launch[p].before
          /\ new.initially = launch[p].initially
      BY <3>1, <3>3 DEF Launch
    <3> QED BY <3>2, <3>4
  <2>3. \/ exceeds /\ Fail(p, new, TRUE)
        \/ launch' = [launch EXCEPT ![p] = [new EXCEPT !.at = "done", !.tools = 0]]
        \/ calls # 0 /\ launch' = [launch EXCEPT ![p] = [new EXCEPT !.at = "tools"]]
    BY <1>8 DEF Complete
  <2>4. UNCHANGED content
    BY <1>8 DEF Complete
  <2> HIDE DEF new
  <2>8. Accounted(new) /\ new.turns \in Nat /\ new.unread \cap new.remaining = {}
    BY <1>12, <1>13, <2>2, SpentMore
  <2>5. CASE exceeds /\ Fail(p, new, TRUE)
    BY <1>7, <2>2, <2>4, <2>5, <2>8
  <2>6. CASE launch' = [launch EXCEPT ![p] = [new EXCEPT !.at = "done", !.tools = 0]]
    <3> DEFINE l == [new EXCEPT !.at = "done", !.tools = 0]
    <3>1. 0 \in 0 .. MaxTools
      BY <1>2
    <3>3. /\ l.unread = new.unread /\ l.remaining = new.remaining /\ l.model = new.model
          /\ l.turns = new.turns /\ l.unrecorded = new.unrecorded
      BY <2>2 DEF Launch
    <3>4. Accounted(l) /\ l.unread \cap l.remaining = {}
      BY <2>8, <3>3 DEF Accounted
    <3>2. Works(l) /\ l.at = "done"
      BY <2>2, <3>1, <3>4 DEF Launch
    <3> HIDE DEF l
    <3> QED BY <1>1, <1>5, <1>6, <2>4, <2>6, <3>2 DEF WorkLabels, l
  <2>7. CASE calls # 0 /\ launch' = [launch EXCEPT ![p] = [new EXCEPT !.at = "tools"]]
    <3> DEFINE l == [new EXCEPT !.at = "tools"]
    <3>1. calls > 0
      BY <2>7, <1>2
    <3>4. /\ l.unread = new.unread /\ l.remaining = new.remaining /\ l.model = new.model
          /\ l.turns = new.turns /\ l.unrecorded = new.unrecorded
      BY <2>2 DEF Launch
    <3>5. Accounted(l) /\ l.unread \cap l.remaining = {}
      BY <2>8, <3>4 DEF Accounted
    <3>2. Works(l) /\ l.at = "tools"
      BY <2>1, <2>2, <3>1, <3>5 DEF Launch
    <3>3. launch' = [launch EXCEPT ![p] = l]
      BY <2>7
    <3> HIDE DEF l
    <3> QED BY <1>1, <1>5, <1>6, <2>4, <3>2, <3>3 DEF WorkLabels
  <2> QED BY <2>3, <2>5, <2>6, <2>7
<1>9. ASSUME NEW reached \in BOOLEAN, CompleteFails(p, reached) PROVE LaunchInv'
    BY <1>1, <1>7, <1>9, <1>12, <1>13 DEF CompleteFails
<1>10. CASE OutOfTurns(p)
    BY <1>1, <1>7, <1>10, <1>12, <1>13 DEF OutOfTurns
<1>14. CASE CompleteUnread(p)
  <2> DEFINE more == launch[p].unread \cup {launch[p].model}
             new == [launch[p] EXCEPT !.unread = more, !.unrecorded = @ + 1]
  <2>1. launch[p].unread \cup {launch[p].model} \in SUBSET Model
    BY <1>1, <1>3 DEF Launch, LaunchOK, WorkLabels
  <2>2. /\ new \in Launch /\ new.turns = launch[p].turns
        /\ new.unrecorded = launch[p].unrecorded + 1
        /\ new.unread = launch[p].unread \cup {launch[p].model}
        /\ new.remaining = launch[p].remaining
        /\ new.model = launch[p].model /\ new.layers = launch[p].layers
        /\ new.first = launch[p].first /\ new.before = launch[p].before
        /\ new.initially = launch[p].initially
    <3>1. launch[p] \in Launch
      BY <1>1
    <3>2. PICK u \in Int : u = launch[p].unrecorded + 1
      BY <1>4
    <3> HIDE DEF more
    <3>5. PICK unread \in SUBSET Model : unread = more
      BY <2>1 DEF more
    <3>3. new = [launch[p] EXCEPT !.unread = unread, !.unrecorded = u]
      BY <3>2, <3>5
    <3> HIDE DEF new
    <3>4. /\ new \in Launch /\ new.turns = launch[p].turns /\ new.unrecorded = u
          /\ new.unread = unread /\ new.remaining = launch[p].remaining
          /\ new.model = launch[p].model /\ new.layers = launch[p].layers
          /\ new.first = launch[p].first /\ new.before = launch[p].before
          /\ new.initially = launch[p].initially
      BY <3>1, <3>3 DEF Launch
    <3> QED BY <3>2, <3>4, <3>5 DEF more
  <2>3. Fail(p, new, FALSE) /\ UNCHANGED content
    BY <1>14 DEF CompleteUnread
  <2> HIDE DEF new
  <2>4. PICK spoiled : spoiled = new
    OBVIOUS
  <2>5. Accounted(spoiled) /\ spoiled.turns \in Nat
    BY <1>12, <1>13, <2>2, <2>4, SpentUnread
  <2> QED BY <1>7, <2>2, <2>3, <2>4, <2>5
<1>11. ASSUME NEW written \in Content, NEW refused \in BOOLEAN, ToolCall(p, written, refused)
       PROVE  LaunchInv'
  <2> DEFINE new == [launch[p] EXCEPT !.tools = @ + 1, !.calls = @ - 1]
  <2>1. launch[p].at = "tools" /\ launch[p].calls > 0 /\ launch[p].turns > 0
    BY <1>1, <1>11 DEF ToolCall, LaunchAt, LaunchOK
  <2>2. /\ new.tools = launch[p].tools + 1 /\ new.calls = launch[p].calls - 1
        /\ launch[p].calls - 1 \in 0 .. MaxCalls
    BY <1>1, <1>2, <1>4, <2>1 DEF Launch
  <2>5. ASSUME NEW l, l.unread = launch[p].unread, l.remaining = launch[p].remaining,
               l.model = launch[p].model, l.turns = launch[p].turns,
               l.unrecorded = launch[p].unrecorded
        PROVE  Accounted(l) /\ l.unread \cap l.remaining = {}
    BY <1>12, <2>5 DEF Accounted
  <2>3. CASE new.tools > MaxTools \/ refused
    <3> DEFINE l == [new EXCEPT !.at = "failed", !.reached = TRUE, !.tools = 0, !.calls = 0]
    <3>1. launch' = [launch EXCEPT ![p] = l] /\ UNCHANGED content
      BY <1>11, <2>3 DEF ToolCall, Fail
    <3>2. 0 \in 0 .. MaxTools /\ 0 \in 0 .. MaxCalls
      BY <1>2
    <3>4. /\ l.unread = launch[p].unread /\ l.remaining = launch[p].remaining
          /\ l.model = launch[p].model /\ l.turns = launch[p].turns
          /\ l.unrecorded = launch[p].unrecorded
      BY <1>1 DEF Launch
    <3>5. Accounted(l)
      <4> HIDE DEF l
      <4> QED BY <2>5, <3>4
    <3>3. Works(l) /\ l.at = "failed"
      BY <1>1, <1>4, <3>2, <3>5 DEF Launch
    <3> HIDE DEF l, new
    <3> QED BY <1>1, <1>5, <1>6, <3>1, <3>3 DEF WorkLabels
  <2>4. CASE ~(new.tools > MaxTools \/ refused)
    <3> DEFINE at == IF new.calls = 0 THEN "turn" ELSE "tools"
               l == [new EXCEPT !.at = at]
    <3>1. launch' = [launch EXCEPT ![p] = l] /\ content' = [content EXCEPT ![p] = written]
      BY <1>11, <2>4 DEF ToolCall
    <3>2. launch[p].tools + 1 \in 0 .. MaxTools
      BY <1>2, <1>4, <2>2, <2>4
    <3>3. at \in {"turn", "tools"} /\ (at = "tools" => launch[p].calls - 1 > 0)
      BY <1>2, <1>4, <2>1, <2>2
    <3>5. /\ l.unread = launch[p].unread /\ l.remaining = launch[p].remaining
          /\ l.model = launch[p].model /\ l.turns = launch[p].turns
          /\ l.unrecorded = launch[p].unrecorded
      BY <1>1 DEF Launch
    <3>6. Accounted(l) /\ l.unread \cap l.remaining = {}
      <4> HIDE DEF l
      <4> QED BY <2>5, <3>5
    <3>4. Works(l) /\ l.at \in {"turn", "tools"}
      BY <1>1, <1>4, <2>1, <2>2, <3>2, <3>3, <3>6 DEF Launch
    <3> HIDE DEF l, new, at
    <3> QED BY <1>5, <3>1, <3>4 DEF WorkLabels
  <2> QED BY <2>3, <2>4
<1> QED BY <1>8, <1>9, <1>10, <1>11, <1>14 DEF Turn

LEMMA AttemptFailsGood ==
    ASSUME LaunchInv, NEW p \in Launcher, AttemptFails(p)
    PROVE  LaunchInv'
<1>1. /\ RecordTypes /\ launch[p] \in Launch
      /\ LaunchOK(launch[p]) /\ WorktreeOK(launch[p], content[p] # BaseContent)
      /\ launch[p].at = "failed"
    BY LaunchHeld DEF AttemptFails, LaunchAt
<1>2. /\ launch[p].model \in Model /\ launch[p].unrecorded \in Int
      /\ launch[p].before = launch[p].initially /\ launch[p].turns \in Nat
    BY <1>1, LaunchAssumption DEF LaunchOK, WorktreeOK, WorkLabels, Launch
<1>3. health' \in [Endpoint -> {"unknown", "up", "down"}] /\ selections' \subseteq Model
    BY <1>1, <1>2, CatalogAssumption DEF RecordTypes, AttemptFails, SetHealth
<1> DEFINE new == [launch[p] EXCEPT !.unrecorded = @ - launch[p].turns, !.turns = 0,
                                    !.remaining = Left(p), !.first = FALSE]
<1>9. /\ IsFiniteSet(launch[p].unread) /\ launch[p].unread \subseteq Model
      /\ launch[p].unrecorded - launch[p].turns = Cardinality(launch[p].unread)
      /\ launch[p].unread \cap launch[p].remaining \subseteq {launch[p].model}
    BY <1>1, <1>2, SpentLess DEF LaunchOK, Launch
<1>4. /\ 0 \in 0 .. MaxTurns /\ None \in Model \cup {None}
      /\ launch[p].unrecorded - launch[p].turns \in Int
    BY <1>2, LaunchAssumption
<1>5. Left(p) \in SUBSET Model
    BY <1>1 DEF Left, Launch
<1>6. /\ new \in Launch /\ Settled(new) /\ new.initially = launch[p].initially
      /\ new.unread \cap new.remaining = {} /\ new.unread \subseteq Model
      /\ new.unrecorded \in Int
  <2>1. launch[p] \in Launch
    BY <1>1
  <2>2. PICK u \in Int, left \in SUBSET Model :
            /\ u = launch[p].unrecorded - launch[p].turns /\ u = Cardinality(launch[p].unread)
            /\ left = Left(p)
    BY <1>4, <1>5, <1>9
  <2>3. new = [launch[p] EXCEPT !.unrecorded = u, !.turns = 0, !.remaining = left, !.first = FALSE]
    BY <2>2
  <2>4. /\ new.at = launch[p].at /\ new.layers = launch[p].layers /\ new.model = launch[p].model
        /\ new.before = launch[p].before /\ new.initially = launch[p].initially
        /\ new.unrecorded = u /\ new.turns = 0 /\ new.unread = launch[p].unread
        /\ new.remaining = left
    BY <2>1, <2>3 DEF Launch
  <2> HIDE DEF new
  <2>6. 0 \in 0 .. MaxTurns
    BY <1>4
  <2>5. new \in Launch
    BY <2>1, <2>3, <2>6 DEF Launch
  <2>7. Settled(new) /\ new.unread \subseteq Model
    BY <1>9, <2>2, <2>4 DEF Settled
  <2>8. new.unread \cap new.remaining = {}
    BY <1>9, <2>2, <2>4 DEF Left
  <2> QED BY <2>2, <2>4, <2>5, <2>7, <2>8
<1>7. CASE NoTrace(p)
  <2> DEFINE l == [new EXCEPT !.at = "select", !.model = None]
  <2>1. launch' = [launch EXCEPT ![p] = l] /\ UNCHANGED command
    BY <1>7 DEF AttemptFails
  <2>2. /\ l \in Launch /\ l.at = "select" /\ l.initially = launch[p].initially
        /\ l.unrecorded = new.unrecorded /\ l.unread = new.unread /\ l.remaining = new.remaining
    <3> HIDE DEF new
    <3> QED BY <1>6 DEF Launch
  <2>5. AccountOK(l)
    <3> HIDE DEF new, l
    <3> QED BY <1>6, <2>2, SettledSpent DEF Settled, WorkLabels
  <2>3. LaunchOK(l) /\ WorktreeOK(l, content[p] # BaseContent)
    BY <1>2, <1>7, <2>2, <2>5 DEF LaunchOK, WorktreeOK, WorkLabels, NoTrace, Status
  <2> HIDE DEF l
  <2>4. PICK k \in Launch : k = l
    BY <2>2
  <2> QED BY <1>1, <1>3, <2>1, <2>3, <2>4, AttemptFrame DEF AttemptFails, Others
<1>8. CASE ~NoTrace(p)
  <2>1. EndLaunch(p, new)
    BY <1>8 DEF AttemptFails
  <2> HIDE DEF new
  <2>2. PICK last : last = new
    OBVIOUS
  <2> QED BY <1>3, <1>6, <2>1, <2>2, EndLaunchGood DEF AttemptFails
<1> QED BY <1>7, <1>8

LEMMA AttemptEndsGood ==
    ASSUME LaunchInv, NEW p \in Launcher, NEW refused \in BOOLEAN, AttemptEnds(p, refused)
    PROVE  LaunchInv'
<1>1. /\ RecordTypes /\ launch[p] \in Launch
      /\ LaunchOK(launch[p]) /\ WorktreeOK(launch[p], content[p] # BaseContent)
      /\ launch[p].at = "done"
    BY LaunchHeld DEF AttemptEnds, LaunchAt
<1>2. /\ launch[p].model \in Model /\ launch[p].unrecorded \in Int
      /\ launch[p].before = launch[p].initially /\ launch[p].turns \in Nat
    BY <1>1, LaunchAssumption DEF LaunchOK, WorktreeOK, WorkLabels, Launch
<1>3. health' \in [Endpoint -> {"unknown", "up", "down"}] /\ selections' \subseteq Model
    BY <1>1, <1>2, CatalogAssumption DEF RecordTypes, AttemptEnds, SetHealth
<1> DEFINE new == [launch[p] EXCEPT !.unrecorded = @ - launch[p].turns, !.turns = 0]
<1>8. /\ IsFiniteSet(launch[p].unread) /\ launch[p].unread \subseteq Model
      /\ launch[p].unrecorded - launch[p].turns = Cardinality(launch[p].unread)
      /\ launch[p].unread \cap launch[p].remaining = {}
      /\ launch[p].model \in launch[p].remaining
    BY <1>1, <1>2, SpentLess DEF LaunchOK, Launch
<1>4. 0 \in 0 .. MaxTurns /\ 0 \in 0 .. MaxTools /\ 0 \in 0 .. MaxCalls
        /\ launch[p].unrecorded - launch[p].turns \in Int
    BY <1>2, LaunchAssumption
<1>5. /\ new \in Launch /\ Settled(new) /\ new.turns = 0 /\ new.unrecorded \in Int
      /\ new.unread = launch[p].unread /\ new.remaining = launch[p].remaining
      /\ new.model = launch[p].model /\ new.layers = launch[p].layers
      /\ new.before = launch[p].before /\ new.initially = launch[p].initially
  <2>1. launch[p] \in Launch
    BY <1>1
  <2>2. PICK u \in Int : /\ u = launch[p].unrecorded - launch[p].turns
                        /\ u = Cardinality(launch[p].unread)
    BY <1>4, <1>8
  <2>3. new = [launch[p] EXCEPT !.unrecorded = u, !.turns = 0]
    BY <2>2
  <2>4. /\ new.at = launch[p].at /\ new.layers = launch[p].layers /\ new.model = launch[p].model
        /\ new.before = launch[p].before /\ new.initially = launch[p].initially
        /\ new.unrecorded = u /\ new.turns = 0
        /\ new.unread = launch[p].unread /\ new.remaining = launch[p].remaining
    BY <2>1, <2>3 DEF Launch
  <2> HIDE DEF new
  <2>6. 0 \in 0 .. MaxTurns
    BY <1>4
  <2>5. new \in Launch
    BY <2>1, <2>3, <2>6 DEF Launch
  <2>7. Settled(new)
    BY <1>8, <2>2, <2>4 DEF Settled
  <2> QED BY <2>2, <2>4, <2>5, <2>7
<1>6. CASE refused
  <2> DEFINE l == [new EXCEPT !.at = "failed", !.reached = FALSE, !.tools = 0, !.calls = 0]
  <2>1. launch' = [launch EXCEPT ![p] = l] /\ UNCHANGED command
    BY <1>6 DEF AttemptEnds, Fail
  <2>2. /\ l \in Launch /\ l.at = "failed" /\ l.turns = 0
        /\ l.unrecorded = new.unrecorded /\ l.unread = launch[p].unread
        /\ l.remaining = launch[p].remaining /\ l.model = launch[p].model /\ l.layers = launch[p].layers
        /\ l.before = launch[p].before /\ l.initially = launch[p].initially
    <3> HIDE DEF new
    <3> QED BY <1>4, <1>5 DEF Launch
  <2>5. AccountOK(l)
    <3> HIDE DEF new, l
    <3>1. IsFiniteSet(l.unread) /\ l.unrecorded = Cardinality(l.unread)
      BY <1>5, <2>2 DEF Settled
    <3>2. l.unrecorded = Cardinality(l.unread) + l.turns
      BY <2>2, <3>1, CardinalityNat
    <3> QED BY <1>8, <2>2, <3>1, <3>2 DEF AccountOK, Spent, WorkLabels
  <2>3. LaunchOK(l) /\ WorktreeOK(l, content[p] # BaseContent)
    BY <1>1, <1>2, <2>2, <2>5 DEF LaunchOK, WorktreeOK, WorkLabels
  <2> HIDE DEF l
  <2>4. PICK k \in Launch : k = l
    BY <2>2
  <2> QED BY <1>1, <1>3, <2>1, <2>3, <2>4, AttemptFrame DEF AttemptEnds, Others
<1>7. CASE ~refused
  <2>1. EndLaunch(p, new)
    BY <1>7 DEF AttemptEnds
  <2> HIDE DEF new
  <2>2. PICK last : last = new
    OBVIOUS
  <2> QED BY <1>3, <1>5, <1>8, <2>1, <2>2, EndLaunchGood DEF AttemptEnds
<1> QED BY <1>6, <1>7

-----------------------------------------------------------------------------
(* No other command is run by a process that is launching a worker.        *)
LEMMA LaunchersStay ==
    ASSUME LaunchInv, NextCatalog, NEW q \in Proc, command[q].at = "launch"
    PROVE  command'[q] = command[q]
<1>1. CommandTypes
    BY TypeParts DEF LaunchInv, CatalogInv
<1>2. CASE Provider
    BY <1>2 DEF Provider
<1>3. ASSUME NEW p \in Proc, BeginCommand(p) PROVE command'[q] = command[q]
  <2>1. command[p].at = "idle" /\ \E new : command' = [command EXCEPT ![p] = new]
    BY <1>3 DEF BeginCommand, AddEndpoint, Disable, Discover, Refresh, Probe, Forget, Select, Begin
  <2> QED BY <1>1, <2>1 DEF CommandTypes
<1>4. ASSUME NEW p \in Proc, CommandStep(p) PROVE command'[q] = command[q]
  <2>1. command[p].at # "launch"
    BY <1>4 DEF CommandStep, SaveDisabled, ReadPrevious, Ask, AskFails, ReportFailure, Written, Report,
       RunProbe, SaveProbed, CheckReferences, DeleteModel, Choose, MarkUnreachable, ReadModel,
       WriteModel, MarkMissing, ProbeNext, SaveEndpoint, At
  <2>2. \E new : command' = [command EXCEPT ![p] = new]
    <3>1. CASE SaveDisabled(p) \/ ReadPrevious(p) \/ Ask(p) \/ AskFails(p) \/ ReportFailure(p)
      BY <3>1 DEF SaveDisabled, ReadPrevious, Ask, AskFails, ReportFailure, End
    <3>2. CASE Written(p) \/ Report(p) \/ SaveProbed(p) \/ RunProbe(p)
      BY <3>2 DEF Written, Report, RunProbe, SaveProbed, Goto
    <3>3. CASE CheckReferences(p) \/ DeleteModel(p) \/ Choose(p)
      BY <3>3 DEF CheckReferences, DeleteModel, Choose, Goto, End
    <3>4. CASE \E m \in Model : MarkUnreachable(p, m) \/ ReadModel(p, m) \/ WriteModel(p, m)
                                \/ MarkMissing(p, m) \/ ProbeNext(p, m)
      BY <3>4 DEF MarkUnreachable, ReadModel, WriteModel, MarkMissing, ProbeNext
    <3>5. CASE \E new, stale \in BOOLEAN : SaveEndpoint(p, new, stale)
      BY <3>5 DEF SaveEndpoint
    <3> QED BY <1>4, <3>1, <3>2, <3>3, <3>4, <3>5 DEF CommandStep
  <2> QED BY <1>1, <2>1, <2>2 DEF CommandTypes
<1> QED BY <1>2, <1>3, <1>4 DEF NextCatalog

LEMMA LaunchStays == LaunchInv /\ [NextLaunch]_lvars => LaunchInv'
<1> SUFFICES ASSUME LaunchInv, [NextLaunch]_lvars PROVE LaunchInv'
    OBVIOUS
<1>1. CASE UNCHANGED <<launch, content>> /\ [NextCatalog]_cvars
  <2>1. CatalogInv'
    BY <1>1, CatalogStays DEF LaunchInv
  <2>2. ASSUME NEW p \in Launcher, command[p].at = "launch" PROVE command'[p].at = "launch"
    BY <1>1, <2>2, LaunchersStay, LaunchAssumption DEF cvars
  <2> QED BY <1>1, <2>1, <2>2 DEF LaunchInv, Status, LaunchOK, WorktreeOK, AccountOK, Spent
<1>2. ASSUME NEW p \in Launcher, LaunchStep(p) PROVE LaunchInv'
    BY <1>2, ReadModelsGood, SelectModelGood, GetModelGood, TurnGood, AttemptFailsGood,
       AttemptEndsGood DEF LaunchStep
<1> QED BY <1>1, <1>2, LaunchApiGood DEF NextLaunch, lvars

LEMMA LaunchStarts == InitLaunch => LaunchInv
<1> SUFFICES ASSUME InitLaunch PROVE LaunchInv
    OBVIOUS
<1>1. CatalogInv
    BY CatalogStarts DEF InitLaunch
<1>2. \A p \in Launcher : launch[p] = NoLaunch
    BY DEF InitLaunch
<1>3. launch \in [Launcher -> Launch] /\ content \in [Launcher -> Content]
    BY NoLaunchGood, LaunchAssumption DEF InitLaunch
<1>5. AccountOK(NoLaunch)
    BY NoLaunchGood, SettledSpent, FS_EmptySet DEF Settled, WorkLabels
<1>4. LaunchOK(NoLaunch) /\ \A s : WorktreeOK(NoLaunch, s)
    BY <1>5, NoLaunchGood DEF LaunchOK, WorktreeOK, WorkLabels
<1> QED BY <1>1, <1>2, <1>3, <1>4, NoLaunchGood DEF LaunchInv

LEMMA LaunchInvariant == SpecLaunch => []LaunchInv
BY LaunchStarts, LaunchStays, PTL DEF SpecLaunch

-----------------------------------------------------------------------------
(* The doctor and the selection agree on a model, whatever is recorded.    *)
LEMMA StatusAgrees == TypeOK => ReadyIsNotRejected
<1> SUFFICES ASSUME TypeOK, NEW m \in Model, NEW required \in {"implementation", "advisory"},
                    catalog[m] # None, NEW e, e = EndpointOf[m]
             PROVE  ModelStatus(m, required) = "ready" <=>
                    ~Rejected(catalog[m], endpoints[e], health[e], e \in Ollama, required)
    BY DEF ReadyIsNotRejected
<1>1. /\ catalog[m].state \in {"current", "stale", "absent"} /\ catalog[m].stale \in BOOLEAN
    BY TypeParts DEF RecordTypes, Catalog, ModelRecord
<1>2. endpoints[e] # None => endpoints[e].enabled \in BOOLEAN
    BY TypeParts, CatalogAssumption DEF RecordTypes, EndpointRecord
<1> QED BY <1>1, <1>2 DEF ModelStatus, Rejected

(* What the catalog says of a model is backed: a current probe has its     *)
(* record, a missing model was once not listed, and the doctor's word for  *)
(* a model is the selection's.                                             *)
THEOREM CatalogStaysSound == SpecLaunch => []CatalogIsSound
<1>1. LaunchInv => CatalogIsSound
  <2> SUFFICES ASSUME LaunchInv PROVE CatalogIsSound
      OBVIOUS
  <2>1. LaunchTypeOK /\ ReadyIsNotRejected
      BY StatusAgrees DEF LaunchInv, CatalogInv, LaunchTypeOK
  <2>2. CurrentIsProbed /\ MissingWasUnlisted
      BY DEF LaunchInv, CatalogInv, CatalogBacked, Backed, Evidence, CurrentIsProbed, MissingWasUnlisted
  <2> QED BY <2>1, <2>2 DEF CatalogIsSound
<1> QED BY <1>1, LaunchInvariant, PTL

(* A cloud model works only where every layer of the policy allows the     *)
(* cloud, and after a failure only where every layer allows to fall back.  *)
THEOREM CloudStaysAuthorized == SpecLaunch => []CloudIsAuthorized
<1>1. LaunchInv => CloudIsAuthorized
    BY DEF LaunchInv, LaunchOK, WorkLabels, CloudIsAuthorized
<1> QED BY <1>1, LaunchInvariant, PTL

(* The next worker of a launch begins in a worktree that git status shows  *)
(* as it was when the launch began.                                        *)
THEOREM NextWorkersFindNoChange == SpecLaunch => []NextWorkerFindsNoChange
<1>1. LaunchInv => NextWorkerFindsNoChange
    BY DEF LaunchInv, WorktreeOK, NextWorkerFindsNoChange
<1> QED BY <1>1, LaunchInvariant, PTL

(* Every response paid for is in a usage record when its attempt is over,  *)
(* and in one only, but for those that could not be read: of each model    *)
(* tried one at most (APIWorkerHarness.run, ai_worker.py).                 *)
THEOREM SpendStaysRecorded == SpecLaunch => []SpendIsRecorded
<1>1. LaunchInv => SpendIsRecorded
  <2> SUFFICES ASSUME LaunchInv, NEW p \in Launcher, launch[p].at \in {"none", "select"}
               PROVE  launch[p].unrecorded = Cardinality(launch[p].unread)
    BY DEF SpendIsRecorded
  <2>1. AccountOK(launch[p])
    BY DEF LaunchInv, LaunchOK
  <2> QED BY <2>1, SettledSpent DEF Settled, WorkLabels
<1> QED BY <1>1, LaunchInvariant, PTL
=============================================================================
