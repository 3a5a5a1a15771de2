------------------------- MODULE StateMigrationProofs -------------------------
(***************************************************************************)
(* Proofs about StateMigration, for every number of jobs, approvals and    *)
(* plans, and whatever the legacy state has of them.                       *)
(***************************************************************************)
EXTENDS StateMigration, SequenceTheorems, TLAPS

(* The steps: every row and every log, and nothing else.                   *)
StepSet == Row \cup ({"events"} \X Job)

LEMMA ElementsOf ==
    ASSUME NEW S, NEW s \in Seq(S)
    PROVE  /\ Elements(s) \subseteq S /\ s \in Seq(Elements(s))
           /\ \A n \in 1 .. Len(s) : s[n] \in Elements(s)
           /\ \A e \in Elements(s) : \E n \in 1 .. Len(s) : s[n] = e
<1>1. Len(s) \in Nat /\ s \in [1 .. Len(s) -> S] /\ DOMAIN s = 1 .. Len(s)
    BY LenProperties
<1> QED BY <1>1 DEF Elements

LEMMA ConcatElements ==
    ASSUME NEW S, NEW s \in Seq(S), NEW t \in Seq(S)
    PROVE  s \o t \in Seq(S) /\ Elements(s \o t) = Elements(s) \cup Elements(t)
<1>1. /\ s \o t \in Seq(S) /\ Len(s \o t) = Len(s) + Len(t)
      /\ \A i \in 1 .. Len(s) + Len(t) : (s \o t)[i] = IF i <= Len(s) THEN s[i] ELSE t[i - Len(s)]
    BY ConcatProperties
<1>2. Len(s) \in Nat /\ Len(t) \in Nat
    BY LenProperties
<1>3. /\ DOMAIN s = 1 .. Len(s) /\ DOMAIN t = 1 .. Len(t) /\ DOMAIN (s \o t) = 1 .. Len(s \o t)
    BY <1>1, LenProperties
<1>4. Elements(s \o t) \subseteq Elements(s) \cup Elements(t)
  <2> SUFFICES ASSUME NEW i \in 1 .. Len(s) + Len(t) PROVE (s \o t)[i] \in Elements(s) \cup Elements(t)
    BY <1>1, <1>3 DEF Elements
  <2>1. CASE i <= Len(s)
    BY <1>1, <1>2, <1>3, <2>1 DEF Elements
  <2>2. CASE ~(i <= Len(s))
    <3>1. i - Len(s) \in 1 .. Len(t)
      BY <1>2, <2>2
    <3> QED BY <1>1, <1>3, <2>2, <3>1 DEF Elements
  <2> QED BY <2>1, <2>2
<1>5. Elements(s) \subseteq Elements(s \o t)
    BY <1>1, <1>2, <1>3 DEF Elements
<1>6. Elements(t) \subseteq Elements(s \o t)
  <2> SUFFICES ASSUME NEW i \in 1 .. Len(t) PROVE t[i] \in Elements(s \o t)
    BY <1>3 DEF Elements
  <2>1. Len(s) + i \in 1 .. Len(s) + Len(t) /\ ~(Len(s) + i <= Len(s)) /\ (Len(s) + i) - Len(s) = i
    BY <1>2
  <2>2. (s \o t)[Len(s) + i] = t[i]
    BY <1>1, <2>1
  <2> QED BY <1>1, <1>3, <2>1, <2>2 DEF Elements
<1> QED BY <1>1, <1>4, <1>5, <1>6

LEMMA EachElements ==
    ASSUME NEW kind, NEW S, NEW ids \in Seq(S)
    PROVE  /\ Each(kind, ids) \in Seq({kind} \X Elements(ids))
           /\ Elements(Each(kind, ids)) = {kind} \X Elements(ids)
<1>1. Len(ids) \in Nat /\ DOMAIN ids = 1 .. Len(ids)
    BY LenProperties
<1>2. Each(kind, ids) = [n \in 1 .. Len(ids) |-> <<kind, ids[n]>>]
    BY <1>1 DEF Each
<1>3. \A n \in 1 .. Len(ids) : <<kind, ids[n]>> \in {kind} \X Elements(ids)
    BY ElementsOf
<1>4. Each(kind, ids) \in Seq({kind} \X Elements(ids))
    BY <1>1, <1>2, <1>3
<1>5. Elements(Each(kind, ids)) \subseteq {kind} \X Elements(ids)
    BY <1>2, <1>3 DEF Elements
<1>6. {kind} \X Elements(ids) \subseteq Elements(Each(kind, ids))
    BY <1>1, <1>2 DEF Elements
<1> QED BY <1>4, <1>5, <1>6

OfJobs == [n \in 1 .. 3 * Len(JobIds) |-> <<Parts[1 + ((n - 1) % 3)], JobIds[1 + ((n - 1) \div 3)]>>]

LEMMA JobSteps ==
    /\ OfJobs \in Seq({"job", "events", "artifacts"} \X Job)
    /\ Elements(OfJobs) = {"job", "events", "artifacts"} \X Job
<1>1. JobIds \in Seq(Job) /\ Len(JobIds) \in Nat
    BY MigrationAssumption, LenProperties
<1>2. ASSUME NEW n \in 1 .. 3 * Len(JobIds)
      PROVE  1 + ((n - 1) % 3) \in 1 .. 3 /\ 1 + ((n - 1) \div 3) \in 1 .. Len(JobIds)
    BY <1>1
<1>3. \A i \in 1 .. 3 : Parts[i] \in {"job", "events", "artifacts"}
    BY DEF Parts
<1>4. \A n \in 1 .. Len(JobIds) : JobIds[n] \in Job
    BY <1>1, ElementOfSeq
<1>5. ASSUME NEW n \in 1 .. 3 * Len(JobIds) PROVE OfJobs[n] \in {"job", "events", "artifacts"} \X Job
    BY <1>2, <1>3, <1>4 DEF OfJobs
<1>6. OfJobs \in [1 .. 3 * Len(JobIds) -> {"job", "events", "artifacts"} \X Job]
    BY <1>5 DEF OfJobs
<1>7. 3 * Len(JobIds) \in Nat
    BY <1>1
<1>8. OfJobs \in Seq({"job", "events", "artifacts"} \X Job)
    BY <1>6, <1>7
<1>9. ASSUME NEW part \in {"job", "events", "artifacts"}, NEW j \in Job
      PROVE  <<part, j>> \in Elements(OfJobs)
  <2>1. PICK i \in 1 .. 3 : Parts[i] = part
    <3>1. Parts[1] = "job" /\ Parts[2] = "events" /\ Parts[3] = "artifacts"
      BY DEF Parts
    <3> QED BY <3>1
  <2>2. PICK k \in 1 .. Len(JobIds) : JobIds[k] = j
    BY <1>1, ElementsOf DEF Job
  <2> DEFINE n == 3 * (k - 1) + i
  <2>3. n \in 1 .. 3 * Len(JobIds) /\ 1 + ((n - 1) % 3) = i /\ 1 + ((n - 1) \div 3) = k
    BY <1>1
  <2>4. OfJobs[n] = <<part, j>>
    BY <2>1, <2>2, <2>3 DEF OfJobs
  <2> QED BY <1>6, <2>3, <2>4 DEF Elements
<1>10. Elements(OfJobs) \subseteq {"job", "events", "artifacts"} \X Job
    BY <1>8, ElementsOf
<1> QED BY <1>8, <1>9, <1>10

LEMMA SeqInSeq ==
    ASSUME NEW S, NEW T, S \subseteq T, NEW s \in Seq(S)
    PROVE  s \in Seq(T)
<1>1. Len(s) \in Nat /\ s \in [1 .. Len(s) -> S]
    BY LenProperties
<1>2. s \in [1 .. Len(s) -> T]
    BY <1>1
<1> QED BY <1>1, <1>2

LEMMA AllSteps == Steps \in Seq(StepSet) /\ Elements(Steps) = StepSet
<1> DEFINE A == OfJobs
           B == Each("approval", ApprovalIds)
           C == <<Registry>>
           D == Each("plan", PlanIds)
<1>1. A \in Seq(StepSet) /\ Elements(A) = {"job", "events", "artifacts"} \X Job
  <2>1. {"job", "events", "artifacts"} \X Job \subseteq StepSet
    BY DEF StepSet, Row
  <2> QED BY <2>1, JobSteps, SeqInSeq
<1>2. B \in Seq(StepSet) /\ Elements(B) = {"approval"} \X Approval
  <2>1. {"approval"} \X Approval \subseteq StepSet
    BY DEF StepSet, Row
  <2>2. B \in Seq({"approval"} \X Approval) /\ Elements(B) = {"approval"} \X Approval
    <3>1. ApprovalIds \in Seq(Approval)
      BY MigrationAssumption
    <3> QED BY <3>1, EachElements DEF Approval
  <2> QED BY <2>1, <2>2, SeqInSeq
<1>3. C \in Seq(StepSet) /\ Elements(C) = {"registry"} \X {None}
    BY DEF StepSet, Row, Registry, Elements
<1>4. D \in Seq(StepSet) /\ Elements(D) = {"plan"} \X Plan
  <2>1. {"plan"} \X Plan \subseteq StepSet
    BY DEF StepSet, Row
  <2>2. D \in Seq({"plan"} \X Plan) /\ Elements(D) = {"plan"} \X Plan
    <3>1. PlanIds \in Seq(Plan)
      BY MigrationAssumption
    <3> QED BY <3>1, EachElements DEF Plan
  <2> QED BY <2>1, <2>2, SeqInSeq
<1> DEFINE AB == A \o B
           ABC == AB \o C
<1>5. Steps = ABC \o D
    BY DEF Steps, OfJobs
<1> HIDE DEF A, B, C, D
<1>6. AB \in Seq(StepSet) /\ Elements(AB) = Elements(A) \cup Elements(B)
    BY <1>1, <1>2, ConcatElements
<1> HIDE DEF AB
<1>7. ABC \in Seq(StepSet) /\ Elements(ABC) = Elements(AB) \cup Elements(C)
    BY <1>3, <1>6, ConcatElements
<1> HIDE DEF ABC
<1>8. Steps \in Seq(StepSet) /\ Elements(Steps) = Elements(ABC) \cup Elements(D)
    BY <1>4, <1>5, <1>7, ConcatElements
<1> QED BY <1>1, <1>2, <1>3, <1>4, <1>6, <1>7, <1>8 DEF StepSet, Row

LEMMA StepsListAll ==
    /\ Len(Steps) \in Nat
    /\ \A n \in 1 .. Len(Steps) : Steps[n] \in StepSet
    /\ \A s \in StepSet : \E n \in 1 .. Len(Steps) : Steps[n] = s
BY AllSteps, ElementsOf, LenProperties

LEMMA StepShape ==
    ASSUME NEW s \in StepSet
    PROVE  /\ s[1] = "events" => s[2] \in Job /\ s = <<"events", s[2]>>
           /\ s[1] # "events" => s \in Row
BY DEF StepSet, Row

-----------------------------------------------------------------------------
(* The log of a job: the first k legacy events, and at z, unless that is   *)
(* 0, the one event of a service.                                          *)
Shape(log, k, z) ==
    /\ k \in Nat /\ z \in 0 .. k + 1
    /\ Len(log) = IF z = 0 THEN k ELSE k + 1
    /\ \A n \in 1 .. Len(log) : log[n] = IF z = 0 \/ n < z THEN n ELSE IF n = z THEN 0 ELSE n - 1

Copying(j) == Runs /\ absent /\ Here = <<"events", j>>

Logged(j) ==
    IF j \in finished THEN 0 \in Elements(events[j])
    ELSE state[<<"job", j>>] = "later" /\ j \notin unlogged

(* A log that is not being copied has all or nothing, unless it is known   *)
(* to be disturbed.                                                        *)
LogAt(j, k, z) ==
    /\ Shape(events[j], k, z) /\ k <= legacyEvents[j]
    /\ z # 0 <=> Logged(j)
    /\ Copying(j) => k = copied /\ k < legacyEvents[j]
    /\ ~Copying(j) /\ j \notin disturbed => k \in {0, legacyEvents[j]}

LogInv == \A j \in Job : \E k, z \in Nat : LogAt(j, k, z)

(* What has been passed is there, and what was found absent still is, but  *)
(* for the registry.                                                       *)
Done(s) ==
    IF s[1] = "events" THEN s[2] \notin disturbed => Copied(s[2])
    ELSE legacy[s] # None => state[s] # None

ProgressInv ==
    /\ \A n \in 1 .. Len(Steps) : n < at => Done(Steps[n])
    /\ outcome = "completed" => \A n \in 1 .. Len(Steps) : Done(Steps[n])
    /\ absent => Runs
    /\ absent /\ ~InLog => (state[Here] = None \/ Here = Registry) /\ legacy[Here] # None
    /\ copied > 0 => absent /\ InLog

(* A service works on copied jobs that had not ended, which have no legacy *)
(* artifacts.                                                              *)
ServiceInv ==
    /\ \A j \in unlogged : state[<<"job", j>>] = "later"
    /\ \A j \in Job : /\ state[<<"job", j>>] = "later" => j \notin finished
                      /\ state[<<"artifacts", j>>] = "later" => state[<<"job", j>>] = "later"
                      /\ j \notin finished => legacy[<<"artifacts", j>>] = None

Typed ==
    /\ legacy \in [Row -> {"legacy", "unreadable", None}]
    /\ legacyEvents \in [Job -> 0 .. MaxEvents]
    /\ finished \in SUBSET Job
    /\ state \in [Row -> {"legacy", "later", None}]
    /\ events \in [Job -> Seq(0 .. MaxEvents)]
    /\ at \in 0 .. Len(Steps) + 1
    /\ absent \in BOOLEAN /\ copied \in 0 .. MaxEvents
    /\ outcome \in {"completed", "failed", "killed", None}
    /\ runs \in 0 .. MaxRuns
    /\ unlogged \in SUBSET Job /\ disturbed \in SUBSET Job

MigrationInv == Typed /\ LogInv /\ ProgressInv /\ ServiceInv

LEMMA ShapeFacts ==
    ASSUME NEW log \in Seq(Nat), NEW k \in Nat, NEW z \in Nat, Shape(log, k, z)
    PROVE  /\ Len(log) \in Nat /\ DOMAIN log = 1 .. Len(log) /\ Len(log) <= k + 1
           /\ Elements(log) = (1 .. k) \cup (IF z = 0 THEN {} ELSE {0})
           /\ log = <<>> => k = 0 /\ z = 0
           /\ log # <<>> /\ z = 0 => k > 0
<1>1. Len(log) \in Nat /\ DOMAIN log = 1 .. Len(log)
    BY LenProperties
<1>2. Len(log) = IF z = 0 THEN k ELSE k + 1
    BY DEF Shape
<1>3. z \in 0 .. k + 1
    BY DEF Shape
<1>4. \A n \in 1 .. Len(log) : log[n] = IF z = 0 \/ n < z THEN n ELSE IF n = z THEN 0 ELSE n - 1
    BY DEF Shape
<1>5. Elements(log) \subseteq (1 .. k) \cup (IF z = 0 THEN {} ELSE {0})
    BY <1>1, <1>2, <1>3, <1>4 DEF Elements
<1>6. ASSUME NEW e \in 1 .. k PROVE e \in Elements(log)
  <2>1. CASE z = 0 \/ e < z
    <3>1. e \in 1 .. Len(log) /\ log[e] = e
      BY <1>2, <1>4, <2>1
    <3> QED BY <1>1, <3>1 DEF Elements
  <2>2. CASE ~(z = 0 \/ e < z)
    <3>1. e + 1 \in 1 .. Len(log) /\ log[e + 1] = e
      BY <1>2, <1>4, <2>2
    <3> QED BY <1>1, <3>1 DEF Elements
  <2> QED BY <2>1, <2>2
<1>7. z # 0 => 0 \in Elements(log)
  <2>1. z # 0 => z \in 1 .. Len(log) /\ log[z] = 0
    BY <1>2, <1>3, <1>4
  <2> QED BY <1>1, <2>1 DEF Elements
<1>8. log = <<>> => Len(log) = 0
    OBVIOUS
<1>9. Len(log) = 0 => log = <<>>
    OBVIOUS
<1> QED BY <1>1, <1>2, <1>5, <1>6, <1>7, <1>8, <1>9

(* One more event, of the legacy log or of a service.                      *)
LEMMA ShapeAppend ==
    ASSUME NEW log \in Seq(Nat), NEW k \in Nat, NEW z \in Nat, Shape(log, k, z)
    PROVE  /\ Shape(Append(log, k + 1), k + 1, z)
           /\ z = 0 => Shape(Append(log, 0), k, k + 1)
<1>1. Len(log) \in Nat /\ Len(log) = IF z = 0 THEN k ELSE k + 1
    BY LenProperties DEF Shape
<1>2. /\ z \in 0 .. k + 1
      /\ \A n \in 1 .. Len(log) : log[n] = IF z = 0 \/ n < z THEN n ELSE IF n = z THEN 0 ELSE n - 1
    BY DEF Shape
<1>3. ASSUME NEW e \in Nat
      PROVE  /\ Len(Append(log, e)) = Len(log) + 1 /\ Append(log, e)[Len(log) + 1] = e
             /\ \A n \in 1 .. Len(log) : Append(log, e)[n] = log[n]
    BY AppendProperties
<1>4. Shape(Append(log, k + 1), k + 1, z)
  <2> DEFINE new == Append(log, k + 1)
  <2>1. /\ Len(new) = Len(log) + 1 /\ new[Len(log) + 1] = k + 1
        /\ \A n \in 1 .. Len(log) : new[n] = log[n]
    BY <1>3
  <2> HIDE DEF new
  <2>2. \A n \in 1 .. Len(new) : new[n] = IF z = 0 \/ n < z THEN n ELSE IF n = z THEN 0 ELSE n - 1
    BY <1>1, <1>2, <2>1
  <2>3. Shape(new, k + 1, z)
    BY <1>1, <1>2, <2>1, <2>2 DEF Shape
  <2> QED BY <2>3 DEF new
<1>5. ASSUME z = 0 PROVE Shape(Append(log, 0), k, k + 1)
  <2> DEFINE new == Append(log, 0)
  <2>1. /\ Len(new) = Len(log) + 1 /\ new[Len(log) + 1] = 0
        /\ \A n \in 1 .. Len(log) : new[n] = log[n]
    BY <1>3
  <2> HIDE DEF new
  <2>2. \A n \in 1 .. Len(new) : new[n] = IF n < k + 1 THEN n ELSE IF n = k + 1 THEN 0 ELSE n - 1
    BY <1>1, <1>2, <1>5, <2>1
  <2>3. Shape(new, k, k + 1)
    BY <1>1, <1>5, <2>1, <2>2 DEF Shape
  <2> QED BY <2>3 DEF new
<1> QED BY <1>4, <1>5

LEMMA TypedLog ==
    ASSUME Typed, NEW j \in Job
    PROVE  /\ events[j] \in Seq(0 .. MaxEvents) /\ events[j] \in Seq(Nat)
           /\ legacyEvents[j] \in 0 .. MaxEvents /\ legacyEvents[j] \in Nat /\ MaxEvents \in Nat
           /\ <<"job", j>> \in Row /\ <<"artifacts", j>> \in Row
<1>1. MaxEvents \in Nat /\ events[j] \in Seq(0 .. MaxEvents)
    BY MigrationAssumption DEF Typed
<1>2. 0 .. MaxEvents \subseteq Nat
    BY <1>1
<1>3. events[j] \in Seq(Nat)
    BY <1>1, <1>2, SeqInSeq
<1>4. legacyEvents[j] \in 0 .. MaxEvents
    BY DEF Typed
<1>5. legacyEvents[j] \in Nat
    BY <1>2, <1>4
<1> QED BY <1>1, <1>3, <1>4, <1>5 DEF Row

LEMMA HereIs ==
    ASSUME Typed, Runs
    PROVE  /\ at \in 1 .. Len(Steps) /\ Here \in StepSet
           /\ InLog => Here[2] \in Job /\ Here = <<"events", Here[2]>>
           /\ ~InLog => Here \in Row
           /\ \A j : Here = <<"events", j>> => InLog /\ Here[2] = j
<1>1. at \in 1 .. Len(Steps) /\ Here \in StepSet
    BY StepsListAll DEF Runs, Here
<1> QED BY <1>1, StepShape DEF InLog

-----------------------------------------------------------------------------
(* Every step leaves the source as it is, but for a plan that is repaired, *)
(* and takes nothing away from the target.                                 *)
Grows ==
    /\ legacyEvents' = legacyEvents /\ finished' = finished
    /\ \A r \in Row : legacy[r] = None => legacy'[r] = None
    /\ \A r \in Row : state[r] # None => state'[r] # None
    /\ \A j \in Job : Elements(events[j]) \subseteq Elements(events'[j])
    /\ disturbed \subseteq disturbed'

LEMMA AppendGrows ==
    ASSUME NEW log \in Seq(Nat), NEW e \in Nat
    PROVE  /\ Append(log, e) \in Seq(Nat)
           /\ Elements(Append(log, e)) = Elements(log) \cup {e}
<1>1. /\ Len(log) \in Nat /\ DOMAIN log = 1 .. Len(log)
      /\ Append(log, e) \in Seq(Nat) /\ Len(Append(log, e)) = Len(log) + 1
      /\ Append(log, e)[Len(log) + 1] = e
      /\ \A n \in 1 .. Len(log) : Append(log, e)[n] = log[n]
    BY AppendProperties, LenProperties
<1>2. DOMAIN Append(log, e) = 1 .. Len(log) + 1
    BY <1>1, LenProperties
<1> QED BY <1>1, <1>2 DEF Elements

(* An event that is copied, and one that a service logs.                   *)
LEMMA EventAppended ==
    ASSUME Typed, NEW j \in Job, NEW e \in 0 .. MaxEvents,
           events' = [events EXCEPT ![j] = Append(events[j], e)]
    PROVE  /\ events' \in [Job -> Seq(0 .. MaxEvents)]
           /\ events'[j] = Append(events[j], e) /\ \A i \in Job : i # j => events'[i] = events[i]
           /\ \A i \in Job : Elements(events[i]) \subseteq Elements(events'[i])
<1>1. events \in [Job -> Seq(0 .. MaxEvents)] /\ events[j] \in Seq(Nat) /\ e \in Nat
  <2>1. MaxEvents \in Nat
    BY MigrationAssumption
  <2>2. e \in Nat
    BY <2>1
  <2> QED BY <2>2, TypedLog DEF Typed
<1>2. Append(events[j], e) \in Seq(0 .. MaxEvents)
    BY <1>1, AppendProperties
<1>3. /\ events' \in [Job -> Seq(0 .. MaxEvents)]
      /\ events'[j] = Append(events[j], e) /\ \A i \in Job : i # j => events'[i] = events[i]
    BY <1>1, <1>2
<1>4. \A i \in Job : Elements(events[i]) \subseteq Elements(events'[i])
    BY <1>1, <1>3, AppendGrows
<1> QED BY <1>3, <1>4

LEMMA CopiesNext ==
    ASSUME Typed, LogInv, CopyEvent
    PROVE  /\ Here[2] \in Job /\ Copying(Here[2]) /\ copied + 1 \in 0 .. legacyEvents[Here[2]]
           /\ copied + 1 \in 0 .. MaxEvents
           /\ events' = [events EXCEPT ![Here[2]] = Append(events[Here[2]], copied + 1)]
<1>1. Runs /\ absent /\ InLog
    BY DEF CopyEvent
<1>2. Here[2] \in Job /\ Copying(Here[2])
    BY <1>1, HereIs DEF Copying
<1>3. PICK k, z \in Nat : LogAt(Here[2], k, z)
    BY <1>2 DEF LogInv
<1>4. copied < legacyEvents[Here[2]]
    BY <1>2, <1>3 DEF LogAt
<1>5. copied \in Nat /\ legacyEvents[Here[2]] \in 0 .. MaxEvents /\ MaxEvents \in Nat
  <2>1. MaxEvents \in Nat /\ copied \in 0 .. MaxEvents
    BY MigrationAssumption DEF Typed
  <2>2. copied \in Nat
    BY <2>1
  <2> QED BY <1>2, <2>1, <2>2, TypedLog
<1>6. events' = [events EXCEPT ![Here[2]] = Append(events[Here[2]], copied + 1)]
    BY <1>2 DEF CopyEvent, Typed
<1> QED BY <1>2, <1>4, <1>5, <1>6

LEMMA TypedNext ==
    ASSUME Typed, LogInv, ProgressInv, [Next]_mvars PROVE Typed' /\ Grows
<1>1. Len(Steps) \in Nat /\ MaxEvents \in Nat /\ MaxRuns \in Nat
      /\ None \notin {"legacy", "later", "unreadable"}
    BY StepsListAll, MigrationAssumption
<1>2. CASE UNCHANGED mvars
    BY <1>2 DEF mvars, source, Typed, Grows
<1>3. CASE Start
  <2>1. runs + 1 \in 0 .. MaxRuns
    BY <1>1, <1>3 DEF Start, Typed
  <2> QED BY <1>1, <1>3, <2>1 DEF Start, source, Typed, Grows
<1>4. ASSUME at' \in 0 .. Len(Steps) + 1, absent' \in BOOLEAN, copied' \in 0 .. MaxEvents,
             outcome' \in {"completed", "failed", "killed", None},
             disturbed' \in SUBSET Job, disturbed \subseteq disturbed',
             UNCHANGED <<source, state, events, runs, unlogged>>
      PROVE  Typed' /\ Grows
    BY <1>4 DEF Typed, Grows, source
<1>5. Runs => at + 1 \in 0 .. Len(Steps) + 1 /\ 0 \in 0 .. Len(Steps) + 1 /\ 0 \in 0 .. MaxEvents
    BY <1>1 DEF Runs, Typed
<1>6. CASE SkipThis
  <2>1. disturbed' \in SUBSET Job /\ disturbed \subseteq disturbed'
    BY <1>6, HereIs DEF SkipThis, Typed
  <2> QED BY <1>4, <1>5, <1>6, <2>1 DEF SkipThis, GoOn, Typed
<1>7. CASE FindAbsent
    BY <1>4, <1>7 DEF FindAbsent, Typed
<1>8. CASE ReadPlanFails \/ Complete
  <2>1. 0 \in 0 .. Len(Steps) + 1 /\ 0 \in 0 .. MaxEvents
    BY <1>1
  <2> QED BY <1>4, <1>8, <2>1 DEF ReadPlanFails, Complete, Stops, Typed
<1>9. CASE Kill
  <2>1. 0 \in 0 .. Len(Steps) + 1 /\ 0 \in 0 .. MaxEvents
    BY <1>1
  <2>2. disturbed' \in SUBSET Job /\ disturbed \subseteq disturbed'
    BY <1>9, HereIs DEF Kill, Typed, ProgressInv
  <2> QED BY <1>4, <1>9, <2>1, <2>2 DEF Kill, Stops, Typed
<1>10. CASE CopyRow
  <2>1. Here \in Row /\ state' = [state EXCEPT ![Here] = "legacy"]
    BY <1>10, HereIs DEF CopyRow
  <2>2. state' \in [Row -> {"legacy", "later", None}] /\ \A r \in Row : state[r] # None => state'[r] # None
    BY <1>1, <2>1 DEF Typed
  <2> QED BY <1>1, <1>5, <1>10, <2>2 DEF CopyRow, GoOn, source, Typed, Grows
<1>11. CASE CopyEvent
  <2>1. /\ events' \in [Job -> Seq(0 .. MaxEvents)]
        /\ \A i \in Job : Elements(events[i]) \subseteq Elements(events'[i])
        /\ copied + 1 \in 0 .. MaxEvents
    BY <1>11, CopiesNext, EventAppended
  <2>2. at' \in 0 .. Len(Steps) + 1 /\ absent' \in BOOLEAN /\ copied' \in 0 .. MaxEvents
    BY <1>5, <1>11, <2>1 DEF CopyEvent, GoOn, Typed
  <2> QED BY <1>11, <2>1, <2>2 DEF CopyEvent, source, Typed, Grows
<1>12. ASSUME NEW q \in Plan, RepairPlan(q) PROVE Typed' /\ Grows
  <2>1. PICK r \in {"legacy", None} : legacy' = [legacy EXCEPT ![<<"plan", q>>] = r]
    BY <1>12 DEF RepairPlan
  <2>2. <<"plan", q>> \in Row /\ legacy[<<"plan", q>>] = "unreadable"
    BY <1>12 DEF RepairPlan, Row
  <2>3. /\ legacy' \in [Row -> {"legacy", "unreadable", None}]
        /\ \A s \in Row : legacy[s] = None => legacy'[s] = None
    BY <1>1, <2>1, <2>2 DEF Typed
  <2> QED BY <1>12, <2>3 DEF RepairPlan, Typed, Grows
<1>13. ASSUME NEW r \in Row, state' = [state EXCEPT ![r] = "later"], unlogged' \in SUBSET Job,
             UNCHANGED <<source, events, at, absent, copied, outcome, runs, disturbed>>
       PROVE Typed' /\ Grows
  <2>2. state' \in [Row -> {"legacy", "later", None}] /\ \A s \in Row : state[s] # None => state'[s] # None
    BY <1>1, <1>13 DEF Typed
  <2> QED BY <1>13, <2>2 DEF source, Typed, Grows
<1>16. CASE \E j \in Job : MoveOn(j) \/ SetArtifacts(j)
  <2>1. PICK j \in Job : MoveOn(j) \/ SetArtifacts(j)
    BY <1>16
  <2>2. unlogged' \in SUBSET Job
    BY <2>1 DEF MoveOn, SetArtifacts, Typed
  <2>3. CASE MoveOn(j)
    BY <1>13, <2>2, <2>3, TypedLog DEF MoveOn
  <2>4. CASE SetArtifacts(j)
    BY <1>13, <2>2, <2>4, TypedLog DEF SetArtifacts
  <2> QED BY <2>1, <2>3, <2>4
<1>17. CASE SetRegistry
    BY <1>13, <1>17 DEF SetRegistry, Row, Registry, Typed
<1>18. CASE \E r \in Row : Change(r)
    BY <1>13, <1>18 DEF Change, Typed
<1>14. ASSUME NEW j \in Job, Log(j) \/ Request(j) PROVE Typed' /\ Grows
  <2>1. 0 \in 0 .. MaxEvents /\ events' = [events EXCEPT ![j] = Append(events[j], 0)]
    BY <1>1, <1>14 DEF Log, Request, Typed
  <2>2. /\ events' \in [Job -> Seq(0 .. MaxEvents)]
        /\ \A i \in Job : Elements(events[i]) \subseteq Elements(events'[i])
    BY <2>1, EventAppended
  <2> QED BY <1>14, <2>2 DEF Log, Request, source, Typed, Grows
<1> QED BY <1>2, <1>3, <1>6, <1>7, <1>8, <1>9, <1>10, <1>11, <1>12, <1>14, <1>16, <1>17, <1>18
        DEF Next, Migrates, Serves

-----------------------------------------------------------------------------
(* The logs.                                                               *)
LEMMA LogKept ==
    ASSUME NEW j \in Job, NEW k \in Nat, NEW z \in Nat, LogAt(j, k, z), Grows,
           events'[j] = events[j], Logged(j)' <=> Logged(j),
           Copying(j)' => Copying(j) /\ copied' = copied,
           Copying(j) /\ ~Copying(j)' => j \in disturbed' \/ k \in {0, legacyEvents[j]}
    PROVE  LogAt(j, k, z)'
<1>1. Shape(events'[j], k, z) /\ k <= legacyEvents'[j]
    BY DEF LogAt, Grows
<1>2. z # 0 <=> Logged(j)'
    BY DEF LogAt
<1>3. Copying(j)' => k = copied' /\ k < legacyEvents'[j]
    BY DEF LogAt, Grows
<1>4. ~Copying(j)' /\ j \notin disturbed' => k \in {0, legacyEvents'[j]}
    BY DEF LogAt, Grows
<1> QED BY <1>1, <1>2, <1>3, <1>4 DEF LogAt

(* Where the migration is copying, and where it is not.                    *)
LEMMA NotCopying ==
    ASSUME NEW j
    PROVE  /\ ~absent => ~Copying(j)
           /\ ~Runs => ~Copying(j)
           /\ Runs /\ ~InLog => ~Copying(j)
           /\ Runs /\ Here[2] # j => ~Copying(j)
BY DEF Copying, InLog

LEMMA LogNext ==
    ASSUME MigrationInv, Typed', Grows, [Next]_mvars PROVE LogInv'
<1> SUFFICES ASSUME NEW j \in Job PROVE \E k, z \in Nat : LogAt(j, k, z)'
    BY DEF LogInv
<1>1. Typed /\ LogInv /\ ProgressInv /\ ServiceInv
    BY DEF MigrationInv
<1>2. PICK k, z \in Nat : LogAt(j, k, z)
    BY <1>1 DEF LogInv
<1>3. /\ events[j] \in Seq(Nat) /\ <<"job", j>> \in Row /\ legacyEvents[j] \in Nat
      /\ None \notin {"legacy", "later"}
  <2>1. MaxEvents \in Nat /\ None \notin {"legacy", "later"}
    BY MigrationAssumption
  <2> QED BY <1>1, <2>1, TypedLog
<1>4. ASSUME ~Copying(j)', events'[j] = events[j], state' = state, unlogged' = unlogged,
             ~Copying(j) \/ j \in disturbed' \/ k \in {0, legacyEvents[j]}
      PROVE  LogAt(j, k, z)'
  <2>1. Logged(j)' <=> Logged(j)
    BY <1>4 DEF Logged, Grows
  <2> QED BY <1>2, <1>4, <2>1, LogKept
<1>5. CASE UNCHANGED mvars
  <2>1. (Logged(j)' <=> Logged(j)) /\ (Copying(j)' <=> Copying(j)) /\ copied' = copied /\ events' = events
    BY <1>5 DEF mvars, source, Logged, Copying, Runs, Here
  <2> QED BY <1>2, <2>1, LogKept
<1>6. CASE Start
  <2>1. ~Runs /\ ~absent /\ absent' = absent
    BY <1>1, <1>6 DEF Start, Runs, ProgressInv
  <2>2. ~Copying(j) /\ ~Copying(j)'
    BY <2>1 DEF Copying
  <2> QED BY <1>4, <1>6, <2>2 DEF Start
<1>7. CASE SkipThis \/ Complete \/ ReadPlanFails
  <2>1. ~Copying(j) /\ ~Copying(j)'
    <3>1. ~absent' /\ (~absent \/ ~Runs \/ (Runs /\ ~InLog))
      BY <1>7 DEF SkipThis, Complete, ReadPlanFails, GoOn, Stops, Runs, Unreadable, InLog
    <3> QED BY <3>1, NotCopying DEF Copying
  <2> QED BY <1>4, <1>7, <2>1 DEF SkipThis, Complete, ReadPlanFails
<1>8. CASE Kill
  <2>1. ~Copying(j)' /\ UNCHANGED <<events, state, unlogged>>
    BY <1>8 DEF Kill, Stops, Copying
  <2>2. CASE Copying(j) /\ copied > 0
    <3>1. Here[2] = j
      BY <2>2 DEF Copying
    <3>2. j \in disturbed'
      BY <1>8, <2>2, <3>1 DEF Kill, Copying
    <3> QED BY <1>4, <2>1, <3>2
  <2>3. CASE Copying(j) /\ ~(copied > 0)
    <3>1. k = 0
      <4>1. copied \in Nat
        BY <1>1, MigrationAssumption DEF Typed
      <4> QED BY <1>2, <2>3, <4>1 DEF LogAt
    <3> QED BY <1>4, <2>1, <3>1
  <2>4. CASE ~Copying(j)
    BY <1>4, <2>1, <2>4
  <2> QED BY <2>2, <2>3, <2>4
<1>9. CASE FindAbsent
  <2>1. /\ ~Copying(j) /\ Runs /\ UNCHANGED <<at, events, state, unlogged, copied>>
        /\ ~Missing /\ ~InTarget
    BY <1>9 DEF FindAbsent, Copying
  <2>2. CASE Here # <<"events", j>>
    <3>1. ~Copying(j)'
      BY <2>1, <2>2 DEF Copying, Here
    <3> QED BY <1>4, <2>1, <3>1
  <2>3. CASE Here = <<"events", j>>
    <3>1. InLog /\ Here[2] = j
      BY <2>3 DEF InLog
    <3>2. events[j] = <<>> /\ legacyEvents[j] # 0
      BY <2>1, <3>1 DEF Missing, InTarget
    <3>3. k = 0
      <4>1. Shape(events[j], k, z)
        BY <1>2 DEF LogAt
      <4> QED BY <1>3, <3>2, <4>1, ShapeFacts
    <3>4. copied = 0
      <4>1. copied \in Nat /\ ~absent
        BY <1>1, <1>9, MigrationAssumption DEF Typed, FindAbsent
      <4> QED BY <1>1, <4>1 DEF ProgressInv
    <3>5. Logged(j)' <=> Logged(j)
      BY <2>1 DEF Logged, Grows
    <3>6. LogAt(j, k, z)'
      BY <1>2, <1>3, <2>1, <3>2, <3>3, <3>4, <3>5 DEF LogAt, Grows
    <3> QED BY <3>6
  <2> QED BY <2>2, <2>3
<1>10. CASE CopyRow
  <2>1. /\ ~Copying(j) /\ ~Copying(j)' /\ UNCHANGED <<events, unlogged>>
        /\ state' = [state EXCEPT ![Here] = "legacy"] /\ Here \in Row
        /\ state[Here] = None \/ Here = Registry
    BY <1>1, <1>10, NotCopying, HereIs DEF CopyRow, GoOn, Copying, ProgressInv
  <2>3. state'[<<"job", j>>] = "later" <=> state[<<"job", j>>] = "later"
    <3> DEFINE r == <<"job", j>>
    <3>1. r \in Row /\ r # Registry
      BY <1>3 DEF Registry
    <3> HIDE DEF r
    <3>2. ASSUME Here = r PROVE state'[r] = "later" <=> state[r] = "later"
      BY <1>1, <1>3, <2>1, <3>1, <3>2 DEF Typed
    <3>3. ASSUME Here # r PROVE state'[r] = "later" <=> state[r] = "later"
      BY <1>1, <2>1, <3>1, <3>3 DEF Typed
    <3>4. state'[r] = "later" <=> state[r] = "later"
      BY <3>2, <3>3
    <3> QED BY <3>4 DEF r
  <2>2. Logged(j)' <=> Logged(j)
    BY <2>1, <2>3 DEF Logged, Grows
  <2> QED BY <1>2, <2>1, <2>2, LogKept
<1>11. CASE CopyEvent
  <2>1. /\ Here[2] \in Job /\ Copying(Here[2]) /\ copied + 1 \in 0 .. MaxEvents
        /\ events' = [events EXCEPT ![Here[2]] = Append(events[Here[2]], copied + 1)]
    BY <1>1, <1>11, CopiesNext
  <2>2. /\ events'[Here[2]] = Append(events[Here[2]], copied + 1)
        /\ \A i \in Job : i # Here[2] => events'[i] = events[i]
    BY <1>1, <2>1, EventAppended
  <2>3. Runs /\ absent /\ InLog /\ UNCHANGED <<state, unlogged>>
    BY <1>11 DEF CopyEvent
  <2>7. copied + 1 # 0 /\ copied + 1 \in Nat /\ finished' = finished
    <3>1. copied \in Nat
      BY <1>1, MigrationAssumption DEF Typed
    <3> QED BY <3>1 DEF Grows
  <2>8. 0 \in Elements(events'[j]) <=> 0 \in Elements(events[j])
    <3>1. CASE Here[2] = j
      <4>1. Elements(events'[j]) = Elements(events[j]) \cup {copied + 1}
        BY <1>3, <2>2, <2>7, <3>1, AppendGrows
      <4> QED BY <2>7, <4>1
    <3>2. CASE Here[2] # j
      BY <2>2, <3>2
    <3> QED BY <3>1, <3>2
  <2>4. Logged(j)' <=> Logged(j)
    BY <2>3, <2>7, <2>8 DEF Logged
  <2>5. CASE Here[2] # j
    <3>1. ~Copying(j)
      BY <2>3, <2>5, NotCopying
    <3>2. ~Copying(j)'
      <4>1. ~absent' \/ at' = at
        BY <1>11 DEF CopyEvent, GoOn
      <4> QED BY <2>5, <4>1 DEF Copying, Here
    <3> QED BY <1>2, <2>2, <2>4, <2>5, <3>1, <3>2, LogKept
  <2>6. CASE Here[2] = j
    <3>1. k = copied /\ k < legacyEvents[j] /\ Shape(events[j], k, z)
      BY <1>2, <2>1, <2>6 DEF LogAt
    <3>2. Shape(events'[j], k + 1, z)
      BY <1>3, <2>2, <2>6, <3>1, ShapeAppend
    <3>3. k + 1 \in Nat /\ k + 1 <= legacyEvents[j]
      BY <1>3, <3>1
    <3>4. CASE copied + 1 = legacyEvents[j]
      <4>1. ~Copying(j)' /\ k + 1 = legacyEvents[j]
        BY <1>11, <2>6, <3>1, <3>4 DEF CopyEvent, GoOn, Copying
      <4>2. LogAt(j, k + 1, z)'
        BY <1>2, <2>4, <3>2, <3>3, <4>1 DEF LogAt, Grows
      <4> QED BY <3>3, <4>2
    <3>5. CASE copied + 1 # legacyEvents[j]
      <4>1. copied' = k + 1 /\ at' = at /\ absent' = absent
        BY <1>11, <2>6, <3>1, <3>5 DEF CopyEvent
      <4>2. Copying(j)' /\ k + 1 < legacyEvents[j]
        <5>1. Copying(j)'
          BY <2>1, <2>6, <4>1 DEF Copying, Runs, Here
        <5>2. k + 1 < legacyEvents[j]
          BY <1>3, <3>1, <3>3, <3>5
        <5> QED BY <5>1, <5>2
      <4>3. LogAt(j, k + 1, z)'
        BY <1>2, <2>4, <3>2, <3>3, <4>1, <4>2 DEF LogAt, Grows
      <4> QED BY <3>3, <4>3
    <3> QED BY <3>4, <3>5
  <2> QED BY <2>5, <2>6
<1>12. ASSUME UNCHANGED <<at, absent, copied>>, events'[j] = events[j], Logged(j)' <=> Logged(j)
       PROVE  \E k2, z2 \in Nat : LogAt(j, k2, z2)'
  <2>1. Copying(j)' <=> Copying(j)
    BY <1>12 DEF Copying, Runs, Here
  <2> QED BY <1>2, <1>12, <2>1, LogKept
<1>13. ASSUME NEW q \in Plan, RepairPlan(q) PROVE \E k2, z2 \in Nat : LogAt(j, k2, z2)'
    BY <1>12, <1>13 DEF RepairPlan, Logged
<1>16. CASE SetRegistry \/ \E r \in Row : Change(r)
  <2>1. UNCHANGED <<at, absent, copied, events, unlogged, finished>>
    BY <1>16 DEF SetRegistry, Change, source
  <2>2. PICK r : r[1] # "job" /\ state' = [state EXCEPT ![r] = "later"]
    BY <1>16 DEF SetRegistry, Change, Registry
  <2>3. state'[<<"job", j>>] = state[<<"job", j>>]
    BY <1>1, <1>3, <2>2 DEF Typed
  <2>4. Logged(j)' <=> Logged(j)
    BY <2>1, <2>3 DEF Logged
  <2> QED BY <1>12, <2>1, <2>4
<1>14. ASSUME NEW i \in Job, MoveOn(i) \/ SetArtifacts(i)
       PROVE  \E k2, z2 \in Nat : LogAt(j, k2, z2)'
  <2>1. UNCHANGED <<at, absent, copied, events>>
    BY <1>14 DEF MoveOn, SetArtifacts
  <2>2. Logged(j)' <=> Logged(j)
    <3>1. CASE SetArtifacts(i)
      <4>1. state' = [state EXCEPT ![<<"artifacts", i>>] = "later"] /\ unlogged' = unlogged
        BY <3>1 DEF SetArtifacts
      <4>2. <<"artifacts", i>> # <<"job", j>>
        OBVIOUS
      <4>3. state'[<<"job", j>>] = state[<<"job", j>>]
        BY <1>1, <1>3, <4>1, <4>2 DEF Typed
      <4> QED BY <2>1, <4>1, <4>3 DEF Logged, Grows
    <3>2. CASE MoveOn(i)
      <4>1. /\ state' = [state EXCEPT ![<<"job", i>>] = "later"] /\ unlogged' = unlogged \cup {i}
            /\ state[<<"job", i>>] = "legacy" /\ i \notin finished
        BY <3>2 DEF MoveOn
      <4>2. CASE i = j
        BY <1>3, <4>1, <4>2 DEF Logged, Grows
      <4>3. CASE i # j
        <5>1. state'[<<"job", j>>] = state[<<"job", j>>] /\ (j \in unlogged' <=> j \in unlogged)
          BY <1>1, <1>3, <4>1, <4>3 DEF Typed
        <5> QED BY <2>1, <5>1 DEF Logged, Grows
      <4> QED BY <4>2, <4>3
    <3> QED BY <1>14, <3>1, <3>2
  <2> QED BY <1>12, <2>1, <2>2
<1>15. ASSUME NEW i \in Job, Log(i) \/ Request(i) PROVE \E k2, z2 \in Nat : LogAt(j, k2, z2)'
  <2>1. /\ UNCHANGED <<at, absent, copied, state>> /\ unlogged' = unlogged \ {i}
        /\ finished' = finished
        /\ i \in unlogged \/ (i \in finished /\ 0 \notin Elements(events[i]))
        /\ i \in finished => i \notin unlogged
        /\ events' = [events EXCEPT ![i] = Append(events[i], 0)]
    BY <1>1, <1>15 DEF Log, Request, Typed, ServiceInv, source
  <2>2. /\ events'[i] = Append(events[i], 0) /\ \A l \in Job : l # i => events'[l] = events[l]
    <3>1. 0 \in 0 .. MaxEvents
      BY MigrationAssumption
    <3> QED BY <1>1, <2>1, <3>1, EventAppended
  <2>3. CASE i # j
    <3>1. Logged(j)' <=> Logged(j)
      BY <2>1, <2>2, <2>3 DEF Logged
    <3> QED BY <1>12, <2>1, <2>2, <2>3, <3>1
  <2>4. CASE i = j
    <3>1. ~Logged(j) /\ Logged(j)'
      <4>1. Elements(events'[j]) = Elements(events[j]) \cup {0}
        BY <1>3, <2>2, <2>4, AppendGrows
      <4> QED BY <1>1, <2>1, <2>4, <4>1 DEF Logged, ServiceInv
    <3>2. z = 0 /\ Shape(events[j], k, z)
      BY <1>2, <3>1 DEF LogAt
    <3>3. Shape(events'[j], k, k + 1) /\ k + 1 \in Nat /\ k + 1 # 0
      <4>1. Shape(Append(events[j], 0), k, k + 1)
        BY <1>3, <3>2, ShapeAppend
      <4>2. k + 1 \in Nat /\ k + 1 # 0
        OBVIOUS
      <4> QED BY <2>2, <2>4, <4>1, <4>2
    <3>4. Copying(j)' <=> Copying(j)
      BY <2>1 DEF Copying, Runs, Here
    <3>5. LogAt(j, k, k + 1)'
      BY <1>2, <2>1, <3>1, <3>3, <3>4 DEF LogAt, Grows
    <3> QED BY <3>3, <3>5
  <2> QED BY <2>3, <2>4
<1> QED BY <1>2, <1>5, <1>6, <1>7, <1>8, <1>9, <1>10, <1>11, <1>13, <1>14, <1>15, <1>16
        DEF Next, Migrates, Serves

-----------------------------------------------------------------------------
(* The service.                                                            *)
LEMMA ServiceNext ==
    ASSUME MigrationInv, Typed', Grows, [Next]_mvars PROVE ServiceInv'
<1>1. Typed /\ ProgressInv /\ ServiceInv /\ None \notin {"legacy", "later"}
    BY MigrationAssumption DEF MigrationInv
<1>2. \A j \in Job : <<"job", j>> \in Row /\ <<"artifacts", j>> \in Row
    BY DEF Row
<1>3. ASSUME unlogged' \subseteq unlogged, state' = state,
             \A j \in Job : legacy'[<<"artifacts", j>>] = legacy[<<"artifacts", j>>]
      PROVE  ServiceInv'
    BY <1>1, <1>3 DEF ServiceInv, Grows
<1>4. CASE UNCHANGED <<legacy, state, unlogged>>
    BY <1>3, <1>4
<1>5. CASE CopyRow
  <2>1. /\ state' = [state EXCEPT ![Here] = "legacy"] /\ Here \in Row
        /\ state[Here] = None \/ Here = Registry
        /\ UNCHANGED <<legacy, unlogged>>
    BY <1>1, <1>5, HereIs DEF CopyRow, ProgressInv, source
  <2>2. \A r \in Row : r # Registry => (state'[r] = "later" <=> state[r] = "later")
    BY <1>1, <2>1 DEF Typed
  <2>3. \A j \in Job : <<"job", j>> # Registry /\ <<"artifacts", j>> # Registry
    BY DEF Registry
  <2> QED BY <1>1, <1>2, <2>1, <2>2, <2>3 DEF ServiceInv, Grows, Typed
<1>11. CASE SetRegistry \/ \E r \in Row : Change(r)
  <2>1. UNCHANGED <<legacy, unlogged>>
    BY <1>11 DEF SetRegistry, Change, source
  <2>2. PICK r : r[1] \notin {"job", "artifacts"} /\ state' = [state EXCEPT ![r] = "later"]
    BY <1>11 DEF SetRegistry, Change, Registry
  <2>3. \A j \in Job : /\ state'[<<"job", j>>] = state[<<"job", j>>]
                       /\ state'[<<"artifacts", j>>] = state[<<"artifacts", j>>]
    <3>1. \A j \in Job : <<"job", j>> # r /\ <<"artifacts", j>> # r
      BY <2>2
    <3> QED BY <1>1, <1>2, <2>2, <3>1 DEF Typed
  <2> QED BY <1>1, <2>1, <2>3 DEF ServiceInv, Grows, Typed
<1>6. ASSUME NEW q \in Plan, RepairPlan(q) PROVE ServiceInv'
  <2>1. PICK r : legacy' = [legacy EXCEPT ![<<"plan", q>>] = r]
    BY <1>6 DEF RepairPlan
  <2>2. \A j \in Job : legacy'[<<"artifacts", j>>] = legacy[<<"artifacts", j>>]
    <3>1. \A j \in Job : <<"artifacts", j>> # <<"plan", q>>
      OBVIOUS
    <3> QED BY <1>1, <1>2, <2>1, <3>1 DEF Typed
  <2> QED BY <1>3, <1>6, <2>2 DEF RepairPlan
<1>7. ASSUME NEW i \in Job, MoveOn(i) PROVE ServiceInv'
  <2>1. /\ state[<<"job", i>>] = "legacy" /\ i \notin finished
        /\ state' = [state EXCEPT ![<<"job", i>>] = "later"] /\ unlogged' = unlogged \cup {i}
        /\ legacy' = legacy
    BY <1>7 DEF MoveOn, source
  <2>2. \A j \in Job : /\ state'[<<"job", j>>] = IF j = i THEN "later" ELSE state[<<"job", j>>]
                       /\ state'[<<"artifacts", j>>] = state[<<"artifacts", j>>]
    <3>1. \A j \in Job : <<"artifacts", j>> # <<"job", i>>
      OBVIOUS
    <3> QED BY <1>1, <1>2, <2>1, <3>1 DEF Typed
  <2> QED BY <1>1, <2>1, <2>2 DEF ServiceInv, Grows, Typed
<1>8. ASSUME NEW i \in Job, SetArtifacts(i) PROVE ServiceInv'
  <2>1. /\ state[<<"job", i>>] = "later"
        /\ state' = [state EXCEPT ![<<"artifacts", i>>] = "later"] /\ unlogged' = unlogged
        /\ legacy' = legacy
    BY <1>8 DEF SetArtifacts, source
  <2>2. \A j \in Job :
            /\ state'[<<"artifacts", j>>] = IF j = i THEN "later" ELSE state[<<"artifacts", j>>]
            /\ state'[<<"job", j>>] = state[<<"job", j>>]
    <3>1. \A j \in Job : <<"artifacts", i>> # <<"job", j>>
      OBVIOUS
    <3> QED BY <1>1, <1>2, <2>1, <3>1 DEF Typed
  <2> QED BY <1>1, <2>1, <2>2 DEF ServiceInv, Grows, Typed
<1>9. ASSUME NEW i \in Job, Log(i) \/ Request(i) PROVE ServiceInv'
    BY <1>3, <1>9 DEF Log, Request, source
<1>10. CASE Start \/ SkipThis \/ FindAbsent \/ CopyEvent \/ ReadPlanFails \/ Complete \/ Kill
    BY <1>4, <1>10 DEF Start, SkipThis, FindAbsent, CopyEvent, ReadPlanFails, Complete, Kill, source
<1> QED BY <1>4, <1>5, <1>6, <1>7, <1>8, <1>9, <1>10, <1>11
        DEF Next, Migrates, Serves, mvars, source

-----------------------------------------------------------------------------
(* The progress.                                                           *)
LEMMA DoneStays ==
    ASSUME Typed, Grows, NEW s \in StepSet, Done(s)
    PROVE  Done(s)'
<1>1. CASE s[1] = "events"
  <2>1. s[2] \in Job
    BY <1>1, StepShape
  <2>2. s[2] \notin disturbed' => Copied(s[2])'
    BY <1>1, <2>1 DEF Done, Grows, Copied
  <2> QED BY <1>1, <2>2 DEF Done
<1>2. CASE s[1] # "events"
  <2>1. s \in Row
    BY <1>2, StepShape
  <2> QED BY <1>2, <2>1 DEF Done, Grows
<1> QED BY <1>1, <1>2

(* A step that leaves the migration where it is, or ends it.               *)
LEMMA ProgressStays ==
    ASSUME Typed, ProgressInv, Grows, at' = at \/ at' = 0, outcome' # "completed" \/ outcome' = outcome,
           absent' => absent /\ at' = at /\ copied' = copied /\
                      (~InLog => (state'[Here] = None \/ Here = Registry) /\ legacy'[Here] # None),
           ~absent' => copied' = 0
    PROVE  ProgressInv'
<1>1. \A n \in 1 .. Len(Steps) : n < at' => Done(Steps[n])'
  <2> SUFFICES ASSUME NEW n \in 1 .. Len(Steps), n < at' PROVE Done(Steps[n])'
    OBVIOUS
  <2>1. n < at /\ Steps[n] \in StepSet
    BY StepsListAll
  <2>2. Done(Steps[n])
    BY <2>1 DEF ProgressInv
  <2> QED BY <2>1, <2>2, DoneStays DEF Done
<1>2. outcome' = "completed" => \A n \in 1 .. Len(Steps) : Done(Steps[n])'
  <2> SUFFICES ASSUME outcome' = "completed", NEW n \in 1 .. Len(Steps) PROVE Done(Steps[n])'
    OBVIOUS
  <2>1. Steps[n] \in StepSet /\ Done(Steps[n])
    BY StepsListAll DEF ProgressInv
  <2> QED BY <2>1, DoneStays
<1>3. /\ absent' => Runs' /\ (~InLog' => /\ state'[Here'] = None \/ Here' = Registry
                                        /\ legacy'[Here'] # None)
      /\ copied' > 0 => absent' /\ InLog'
  <2>1. CASE absent'
    <3>1. Runs' /\ Here' = Here /\ InLog' = InLog
      BY <2>1 DEF ProgressInv, Runs, Here, InLog
    <3> QED BY <2>1, <3>1 DEF ProgressInv
  <2>2. CASE ~absent'
    BY <2>2
  <2> QED BY <2>1, <2>2
<1> QED BY <1>1, <1>2, <1>3 DEF ProgressInv

(* A step that does what it has to do, and goes on.                        *)
LEMMA ProgressGoesOn ==
    ASSUME Typed, ProgressInv, Grows, Runs, GoOn, outcome' = outcome,
           NEW s \in StepSet, s = Here, Done(s)'
    PROVE  ProgressInv'
<1>1. \A n \in 1 .. Len(Steps) : n < at' => Done(Steps[n])'
  <2> SUFFICES ASSUME NEW n \in 1 .. Len(Steps), n < at' PROVE Done(Steps[n])'
    OBVIOUS
  <2>1. at \in 1 .. Len(Steps) /\ at' = at + 1 /\ Len(Steps) \in Nat
    BY StepsListAll DEF Runs, GoOn
  <2>2. CASE n = at
    BY <2>2 DEF Here
  <2>3. CASE n # at
    <3>1. n < at /\ Steps[n] \in StepSet
      BY <2>1, <2>3, StepsListAll
    <3> QED BY <3>1, DoneStays DEF ProgressInv
  <2> QED BY <2>2, <2>3
<1>2. outcome' = "completed" => \A n \in 1 .. Len(Steps) : Done(Steps[n])'
  <2> SUFFICES ASSUME outcome' = "completed", NEW n \in 1 .. Len(Steps) PROVE Done(Steps[n])'
    OBVIOUS
  <2>1. Steps[n] \in StepSet /\ Done(Steps[n])
    BY StepsListAll DEF ProgressInv
  <2> QED BY <2>1, DoneStays
<1>3. absent' = FALSE /\ copied' = 0
    BY DEF GoOn
<1> QED BY <1>1, <1>2, <1>3 DEF ProgressInv

LEMMA SkippedIsDone ==
    ASSUME MigrationInv, Grows, SkipThis, NEW s \in StepSet, s = Here
    PROVE  Done(s)'
<1>1. Typed /\ LogInv /\ Runs /\ ~absent
    BY DEF MigrationInv, SkipThis
<1>2. CASE ~InLog
  <2>1. legacy[s] = None \/ state[s] # None
    BY <1>2 DEF SkipThis, Missing, InTarget
  <2>2. Done(s)
    BY <1>2, <2>1 DEF Done, InLog
  <2> QED BY <1>1, <2>2, DoneStays
<1>3. CASE InLog
  <2> DEFINE j == s[2]
  <2>1. s[1] = "events" /\ j \in Job
    BY <1>1, <1>3, HereIs DEF InLog
  <2>2. legacyEvents[j] \in Nat /\ events[j] \in Seq(Nat)
    BY <1>1, <2>1, TypedLog
  <2>3. CASE legacyEvents[j] = 0
    <3>1. Copied(j)
      BY <2>3 DEF Copied
    <3>2. Done(s)
      BY <2>1, <3>1 DEF Done
    <3> QED BY <1>1, <3>2, DoneStays
  <2>4. CASE legacyEvents[j] # 0 /\ 0 \in Elements(events[j])
    <3>1. j \in disturbed'
      BY <1>3, <2>4 DEF SkipThis, Missing
    <3> QED BY <2>1, <3>1 DEF Done
  <2>5. CASE legacyEvents[j] # 0 /\ 0 \notin Elements(events[j])
    <3>1. events[j] # <<>>
      BY <1>3, <2>5 DEF SkipThis, Missing, InTarget
    <3>2. PICK k, z \in Nat : LogAt(j, k, z)
      BY <1>1, <2>1 DEF LogInv
    <3>3. Shape(events[j], k, z) /\ ~Copying(j)
      BY <1>1, <3>2 DEF LogAt, Copying
    <3>4. /\ Elements(events[j]) = (1 .. k) \cup (IF z = 0 THEN {} ELSE {0})
          /\ events[j] # <<>> /\ z = 0 => k > 0
      BY <2>2, <3>3, ShapeFacts
    <3>5. z = 0 /\ k > 0
      BY <2>5, <3>1, <3>4
    <3>6. j \notin disturbed => k = legacyEvents[j]
      BY <3>2, <3>3, <3>5 DEF LogAt
    <3>7. j \notin disturbed => Copied(j)
      BY <3>4, <3>6 DEF Copied
    <3>8. Done(s)
      BY <2>1, <3>7 DEF Done
    <3> QED BY <1>1, <3>8, DoneStays
  <2> QED BY <2>3, <2>4, <2>5
<1> QED BY <1>2, <1>3

LEMMA LastEventCopied ==
    ASSUME MigrationInv, Grows, CopyEvent, copied + 1 = legacyEvents[Here[2]], NEW s \in StepSet, s = Here
    PROVE  Done(s)'
<1> DEFINE j == s[2]
<1>1. Typed /\ LogInv /\ Runs /\ InLog
    BY DEF MigrationInv, CopyEvent
<1>2. /\ s[1] = "events" /\ j \in Job /\ Copying(j) /\ copied + 1 \in 0 .. MaxEvents
      /\ events' = [events EXCEPT ![j] = Append(events[j], copied + 1)]
    BY <1>1, CopiesNext DEF InLog
<1>3. events'[j] = Append(events[j], copied + 1)
    BY <1>1, <1>2, EventAppended
<1>4. PICK k, z \in Nat : LogAt(j, k, z)
    BY <1>1, <1>2 DEF LogInv
<1>5. k = copied /\ Shape(events[j], k, z) /\ events[j] \in Seq(Nat)
    BY <1>1, <1>2, <1>4, TypedLog DEF LogAt
<1>6. 1 .. k \subseteq Elements(events[j])
  <2>1. Shape(events[j], k, z) /\ events[j] \in Seq(Nat)
    BY <1>5
  <2>2. Elements(events[j]) = (1 .. k) \cup (IF z = 0 THEN {} ELSE {0})
    BY <2>1, ShapeFacts
  <2> QED BY <2>2
<1>7. Elements(Append(events[j], k + 1)) = Elements(events[j]) \cup {k + 1}
    BY <1>5, AppendGrows
<1>8. 1 .. k + 1 \subseteq Elements(events'[j])
    BY <1>3, <1>5, <1>6, <1>7
<1>9. legacyEvents'[j] = k + 1
    BY <1>5 DEF Grows
<1>10. Copied(j)'
    BY <1>8, <1>9 DEF Copied
<1> QED BY <1>2, <1>10 DEF Done

LEMMA ProgressNext ==
    ASSUME MigrationInv, Typed', Grows, [Next]_mvars PROVE ProgressInv'
<1>1. /\ Typed /\ LogInv /\ ProgressInv /\ ServiceInv
      /\ None \notin {"legacy", "later", "unreadable"}
    BY MigrationAssumption DEF MigrationInv
<1>2. ~absent => copied = 0
  <2>1. copied \in Nat
    BY <1>1, MigrationAssumption DEF Typed
  <2> QED BY <1>1, <2>1 DEF ProgressInv
<1>3. ASSUME at' = at, UNCHANGED <<absent, copied, outcome>>,
             absent /\ ~InLog => (state'[Here] = None \/ Here = Registry) /\ legacy'[Here] # None
      PROVE  ProgressInv'
    BY <1>1, <1>2, <1>3, ProgressStays
<1>4. ASSUME UNCHANGED <<legacy, state, at, absent, copied, outcome>> PROVE ProgressInv'
    BY <1>1, <1>3, <1>4 DEF ProgressInv
<1>5. CASE UNCHANGED mvars
    BY <1>4, <1>5 DEF mvars
<1>6. CASE Start
  <2>1. ~absent /\ copied = 0
    BY <1>1, <1>2, <1>6 DEF Start, ProgressInv, Runs
  <2>2. at' = 1 /\ outcome' = None /\ ~absent' /\ copied' = 0
    BY <1>6, <2>1 DEF Start
  <2>3. outcome' # "completed"
    BY <1>6, <2>2, MigrationAssumption DEF Start
  <2>4. \A n \in 1 .. Len(Steps) : ~(n < at')
    BY <2>2
  <2> QED BY <2>2, <2>3, <2>4 DEF ProgressInv
<1>7. CASE SkipThis
  <2>1. Runs /\ GoOn /\ outcome' = outcome
    BY <1>7 DEF SkipThis
  <2>2. PICK s \in StepSet : s = Here
    BY <1>1, <2>1, HereIs
  <2>3. Done(s)'
    BY <1>7, <2>2, SkippedIsDone
  <2> QED BY <1>1, <2>1, <2>2, <2>3, ProgressGoesOn
<1>8. CASE FindAbsent
  <2>1. /\ ~absent /\ absent' /\ Runs /\ at' = at /\ UNCHANGED <<legacy, state, copied, outcome>>
        /\ ~Missing /\ ~InTarget
    BY <1>8 DEF FindAbsent, source
  <2>2. Runs' /\ Here' = Here /\ InLog' = InLog
    BY <2>1 DEF Runs, Here, InLog
  <2>3. ~InLog' => state'[Here'] = None /\ legacy'[Here'] # None
    BY <2>1, <2>2 DEF Missing, InTarget
  <2>4. ~(copied' > 0)
    BY <1>2, <2>1
  <2>5. \A n \in 1 .. Len(Steps) : Done(Steps[n]) => Done(Steps[n])'
    BY <1>1, StepsListAll, DoneStays
  <2> QED BY <1>1, <2>1, <2>2, <2>3, <2>4, <2>5 DEF ProgressInv
<1>9. CASE CopyRow
  <2>1. /\ Runs /\ ~InLog /\ GoOn /\ outcome' = outcome /\ legacy' = legacy
        /\ state' = [state EXCEPT ![Here] = "legacy"]
    BY <1>9 DEF CopyRow, source
  <2>2. PICK s \in StepSet : s = Here
    BY <1>1, <2>1, HereIs
  <2>3. s \in Row /\ s[1] # "events"
    BY <1>1, <2>1, <2>2, HereIs DEF InLog
  <2>4. state'[s] # None
    BY <1>1, <2>1, <2>2, <2>3 DEF Typed
  <2>5. Done(s)'
    BY <2>3, <2>4 DEF Done
  <2> QED BY <1>1, <2>1, <2>2, <2>5, ProgressGoesOn
<1>10. CASE CopyEvent
  <2>1. Runs /\ absent /\ InLog /\ outcome' = outcome
    BY <1>10 DEF CopyEvent
  <2>2. CASE copied + 1 = legacyEvents[Here[2]]
    <3>1. GoOn
      BY <1>10, <2>2 DEF CopyEvent
    <3>2. PICK s \in StepSet : s = Here
      BY <1>1, <2>1, HereIs
    <3>3. Done(s)'
      BY <1>10, <2>2, <3>2, LastEventCopied
    <3> QED BY <1>1, <2>1, <3>1, <3>2, <3>3, ProgressGoesOn
  <2>3. CASE copied + 1 # legacyEvents[Here[2]]
    <3>1. at' = at /\ absent' = absent
      BY <1>10, <2>3 DEF CopyEvent
    <3>2. Runs' /\ Here' = Here /\ InLog' = InLog
      BY <2>1, <3>1 DEF Runs, Here, InLog
    <3>3. \A n \in 1 .. Len(Steps) : Done(Steps[n]) => Done(Steps[n])'
      BY <1>1, StepsListAll, DoneStays
    <3> QED BY <1>1, <2>1, <3>1, <3>2, <3>3 DEF ProgressInv
  <2> QED BY <2>2, <2>3
<1>11. CASE ReadPlanFails \/ Kill
  <2>1. at' = 0 /\ ~absent' /\ copied' = 0 /\ outcome' # "completed"
    BY <1>11 DEF ReadPlanFails, Kill, Stops
  <2> QED BY <1>1, <2>1, ProgressStays
<1>12. CASE Complete
  <2>1. at = Len(Steps) + 1 /\ at' = 0 /\ ~absent' /\ copied' = 0
    BY <1>12 DEF Complete, Stops
  <2>2. Len(Steps) \in Nat
    BY StepsListAll
  <2>3. \A n \in 1 .. Len(Steps) : ~(n < at') /\ Done(Steps[n])
    BY <1>1, <2>1, <2>2 DEF ProgressInv
  <2>4. \A n \in 1 .. Len(Steps) : Done(Steps[n]) => Done(Steps[n])'
    BY <1>1, StepsListAll, DoneStays
  <2> QED BY <2>1, <2>3, <2>4 DEF ProgressInv
<1>13. ASSUME NEW q \in Plan, RepairPlan(q) PROVE ProgressInv'
  <2>1. ~absent
    BY <1>1, <1>13 DEF RepairPlan, ProgressInv, Runs
  <2> QED BY <1>3, <1>13, <2>1 DEF RepairPlan
<1>14. ASSUME NEW j \in Job, Log(j) \/ Request(j) PROVE ProgressInv'
    BY <1>4, <1>14 DEF Log, Request, source
<1>16. CASE SetRegistry \/ \E r \in Row : Change(r)
  <2>1. UNCHANGED <<legacy, at, absent, copied, outcome>>
    BY <1>16 DEF SetRegistry, Change, source
  <2>2. absent /\ ~InLog => (state[Here] = None \/ Here = Registry) /\ legacy[Here] # None /\ Here \in Row
    BY <1>1, HereIs DEF ProgressInv
  <2>3. PICK r : (r = Registry \/ state[r] = "legacy") /\ state' = [state EXCEPT ![r] = "later"]
    BY <1>16 DEF SetRegistry, Change
  <2>4. absent /\ ~InLog => state'[Here] = None \/ Here = Registry
    BY <1>1, <2>2, <2>3 DEF Typed
  <2> QED BY <1>3, <2>1, <2>2, <2>4
<1>15. ASSUME NEW j \in Job, MoveOn(j) \/ SetArtifacts(j) PROVE ProgressInv'
  <2>1. UNCHANGED <<legacy, at, absent, copied, outcome>>
    BY <1>15 DEF MoveOn, SetArtifacts, source
  <2>2. /\ absent /\ ~InLog => /\ Here \in Row /\ legacy[Here] # None
                               /\ state[Here] = None \/ Here = Registry
        /\ <<"job", j>> # Registry /\ <<"artifacts", j>> # Registry
    BY <1>1, HereIs DEF ProgressInv, Registry
  <2>3. CASE MoveOn(j)
    <3>1. state[<<"job", j>>] = "legacy" /\ state' = [state EXCEPT ![<<"job", j>>] = "later"]
      BY <2>3 DEF MoveOn
    <3>2. absent /\ ~InLog => Here # <<"job", j>>
      BY <1>1, <2>2, <3>1
    <3>3. absent /\ ~InLog => state'[Here] = state[Here]
      BY <1>1, <2>2, <3>1, <3>2 DEF Typed
    <3>4. absent /\ ~InLog => (state'[Here] = None \/ Here = Registry) /\ legacy'[Here] # None
      BY <2>1, <2>2, <3>3
    <3>5. at' = at /\ UNCHANGED <<absent, copied, outcome>>
      BY <2>1
    <3> QED BY <1>3, <3>4, <3>5
  <2>4. CASE SetArtifacts(j)
    <3>1. /\ state[<<"job", j>>] = "later"
          /\ state' = [state EXCEPT ![<<"artifacts", j>>] = "later"]
      BY <2>4 DEF SetArtifacts
    <3>2. legacy[<<"artifacts", j>>] = None
      BY <1>1, <3>1 DEF ServiceInv
    <3>3. absent /\ ~InLog => Here # <<"artifacts", j>>
      BY <2>2, <3>2
    <3>4. absent /\ ~InLog => state'[Here] = state[Here]
      BY <1>1, <2>2, <3>1, <3>3 DEF Typed
    <3>5. absent /\ ~InLog => (state'[Here] = None \/ Here = Registry) /\ legacy'[Here] # None
      BY <2>1, <2>2, <3>4
    <3>6. at' = at /\ UNCHANGED <<absent, copied, outcome>>
      BY <2>1
    <3> QED BY <1>3, <3>5, <3>6
  <2> QED BY <1>15, <2>3, <2>4
<1> QED BY <1>5, <1>6, <1>7, <1>8, <1>9, <1>10, <1>11, <1>12, <1>13, <1>14, <1>15, <1>16
        DEF Next, Migrates, Serves

-----------------------------------------------------------------------------
(* The invariant.                                                          *)
LEMMA MigrationInit == Init => MigrationInv
<1> SUFFICES ASSUME Init PROVE MigrationInv
    OBVIOUS
<1>1. /\ Len(Steps) \in Nat /\ MaxEvents \in Nat /\ MaxRuns \in Nat
      /\ None \notin {"legacy", "later", "unreadable"}
    BY StepsListAll, MigrationAssumption
<1>2. \A j \in Job : events[j] = <<>> /\ <<"job", j>> \in Row /\ <<"artifacts", j>> \in Row
    BY DEF Init, Row
<1>3. Typed
  <2>1. <<>> \in Seq(0 .. MaxEvents)
    OBVIOUS
  <2>2. events \in [Job -> Seq(0 .. MaxEvents)] /\ state \in [Row -> {"legacy", "later", None}]
    BY <2>1 DEF Init
  <2>3. 0 \in 0 .. Len(Steps) + 1 /\ 0 \in 0 .. MaxEvents /\ 0 \in 0 .. MaxRuns
    BY <1>1
  <2> QED BY <2>2, <2>3 DEF Init, Typed
<1>4. ~Runs /\ ~absent /\ copied = 0 /\ outcome # "completed" /\ at = 0
    BY MigrationAssumption DEF Init, Runs
<1>5. LogInv
  <2> SUFFICES ASSUME NEW j \in Job PROVE LogAt(j, 0, 0)
    BY DEF LogInv
  <2>1. Shape(events[j], 0, 0)
    <3>1. events[j] = <<>> /\ Len(<<>>) = 0
      BY <1>2
    <3>2. Len(events[j]) = 0
      BY <3>1
    <3> QED BY <3>2 DEF Shape
  <2>2. legacyEvents[j] \in Nat
    BY <1>3, TypedLog
  <2>3. ~Logged(j) /\ ~Copying(j)
    <3>1. Elements(<<>>) = {}
      BY DEF Elements
    <3> QED BY <1>1, <1>2, <1>4, <3>1 DEF Logged, Copying, Init
  <2> QED BY <2>1, <2>2, <2>3 DEF LogAt
<1>6. ProgressInv
  <2>1. \A n \in 1 .. Len(Steps) : ~(n < at)
    BY <1>4
  <2> QED BY <1>4, <2>1 DEF ProgressInv
<1>7. ServiceInv
    BY <1>1, <1>2 DEF ServiceInv, Init
<1> QED BY <1>3, <1>5, <1>6, <1>7 DEF MigrationInv

LEMMA MigrationNext == MigrationInv /\ [Next]_mvars => MigrationInv'
<1> SUFFICES ASSUME MigrationInv, [Next]_mvars PROVE MigrationInv'
    OBVIOUS
<1>1. Typed' /\ Grows
    BY TypedNext DEF MigrationInv
<1> QED BY <1>1, LogNext, ProgressNext, ServiceNext DEF MigrationInv

LEMMA MigrationInvariant == Spec => []MigrationInv
BY MigrationInit, MigrationNext, PTL DEF Spec

-----------------------------------------------------------------------------
(* The properties.                                                         *)
LEMMA InvariantSuffices == MigrationInv => CopyIsFaithful
<1> SUFFICES ASSUME MigrationInv PROVE CopyIsFaithful
    OBVIOUS
<1>1. Typed /\ LogInv /\ ProgressInv
    BY DEF MigrationInv
<1>2. ASSUME NEW j \in Job
      PROVE  /\ Len(events[j]) <= MaxEvents + 1
             /\ \A n \in DOMAIN events[j] :
                    /\ \A m \in 1 .. n - 1 : \/ 0 \in {events[j][m], events[j][n]}
                                             \/ events[j][m] < events[j][n]
                    /\ 1 .. events[j][n] \subseteq Elements(events[j])
                    /\ events[j][n] <= legacyEvents[j]
  <2>1. PICK k, z \in Nat : LogAt(j, k, z)
    BY <1>1, <1>2 DEF LogInv
  <2>2. /\ events[j] \in Seq(Nat) /\ legacyEvents[j] \in Nat /\ MaxEvents \in Nat
        /\ legacyEvents[j] <= MaxEvents
    <3>1. legacyEvents[j] \in 0 .. MaxEvents /\ MaxEvents \in Nat /\ events[j] \in Seq(Nat)
      BY <1>1, TypedLog
    <3> QED BY <3>1
  <2>3. Shape(events[j], k, z) /\ k <= legacyEvents[j]
    BY <2>1 DEF LogAt
  <2> DEFINE log == events[j]
  <2>4. /\ Len(log) \in Nat /\ DOMAIN log = 1 .. Len(log) /\ Len(log) <= k + 1
        /\ Elements(log) = (1 .. k) \cup (IF z = 0 THEN {} ELSE {0})
    BY <2>2, <2>3, ShapeFacts
  <2>5. /\ z \in 0 .. k + 1 /\ Len(log) = IF z = 0 THEN k ELSE k + 1
        /\ \A n \in 1 .. Len(log) : log[n] = IF z = 0 \/ n < z THEN n ELSE IF n = z THEN 0 ELSE n - 1
    BY <2>3 DEF Shape
  <2>6. Len(log) <= MaxEvents + 1
    BY <2>2, <2>3, <2>4
  <2>7. ASSUME NEW n \in 1 .. Len(log) PROVE log[n] \in 0 .. k
    BY <2>5
  <2>8. ASSUME NEW n \in 1 .. Len(log), NEW m \in 1 .. n - 1
        PROVE  log[m] = 0 \/ log[n] = 0 \/ log[m] < log[n]
    BY <2>5
  <2>9. ASSUME NEW n \in 1 .. Len(log) PROVE 1 .. log[n] \subseteq Elements(log) /\ log[n] <= legacyEvents[j]
    BY <2>2, <2>3, <2>4, <2>7
  <2> QED BY <2>4, <2>6, <2>8, <2>9
<1>3. MigrationTypeOK
    BY <1>1, <1>2 DEF MigrationTypeOK, Typed
<1>4. EventsInOrder
    BY <1>2 DEF EventsInOrder
<1>5. CompletedCopyHasAll
  <2> SUFFICES ASSUME outcome = "completed"
               PROVE  /\ \A r \in Row : legacy[r] # None => state[r] # None
                      /\ \A j \in Job \ disturbed : Copied(j)
    BY DEF CompletedCopyHasAll
  <2>1. \A s \in StepSet : Done(s)
    BY <1>1, StepsListAll DEF ProgressInv
  <2>2. \A r \in Row : r \in StepSet /\ r[1] # "events"
    BY DEF Row, StepSet
  <2>3. \A j \in Job : <<"events", j>> \in StepSet
    BY DEF StepSet
  <2> QED BY <2>1, <2>2, <2>3 DEF Done
<1> QED BY <1>3, <1>4, <1>5 DEF CopyIsFaithful

(* However often the migration is killed, fails or is repeated, and        *)
(* whatever the service does meanwhile: no event is copied twice or out of *)
(* order, and a migration that completes has copied every row and every    *)
(* undisturbed log.                                                        *)
THEOREM CopyStaysFaithful == Spec => []CopyIsFaithful
<1>1. MigrationInv => CopyIsFaithful
    BY InvariantSuffices
<1> QED BY <1>1, MigrationInvariant, PTL

(* What a service has made of a row stays: the migration writes only what  *)
(* it found absent, and nobody else writes that meanwhile but the service  *)
(* that puts the snapshot of its registry there.                           *)
THEOREM LaterRowsStay == Spec => LaterStays
<1> DEFINE Stays == \A r \in Row :
        state[r] = "later" => state'[r] = "later" \/ (r = Registry /\ FoundNoRegistry)
<1>1. MigrationInv /\ [Next]_mvars => [Stays]_state
  <2> SUFFICES ASSUME MigrationInv, Next, NEW r \in Row, state[r] = "later"
               PROVE  state'[r] = "later" \/ (r = Registry /\ FoundNoRegistry)
    BY DEF mvars
  <2>1. Typed /\ ProgressInv /\ None # "later"
    BY MigrationAssumption DEF MigrationInv
  <2>2. CASE CopyRow
    <3>1. /\ Runs /\ absent /\ state' = [state EXCEPT ![Here] = "legacy"]
          /\ state[Here] = None \/ Here = Registry
      BY <2>1, <2>2 DEF CopyRow, ProgressInv
    <3>2. CASE Here = r
      BY <2>1, <3>1, <3>2 DEF FoundNoRegistry
    <3>3. CASE Here # r
      BY <2>1, <3>1, <3>3 DEF Typed
    <3> QED BY <3>2, <3>3
  <2>3. ASSUME NEW s, state' = [state EXCEPT ![s] = "later"] PROVE state'[r] = "later"
    BY <2>1, <2>3 DEF Typed
  <2>4. CASE Serves
    BY <2>3, <2>4 DEF Serves, MoveOn, SetArtifacts, Log, Request, Change, SetRegistry
  <2>5. CASE state' = state
    BY <2>5
  <2> QED BY <2>2, <2>4, <2>5 DEF Next, Migrates, Start, SkipThis, FindAbsent, CopyEvent,
             ReadPlanFails, Complete, Kill, RepairPlan
<1> QED BY <1>1, MigrationInvariant, PTL DEF Spec, LaterStays
=============================================================================
