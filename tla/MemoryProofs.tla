---------------------------- MODULE MemoryProofs ----------------------------
(***************************************************************************)
(* Proofs about Memory, for every set of processes, items and approvals,   *)
(* with any process dying at any point.                                    *)
(***************************************************************************)
EXTENDS Memory, FiniteSetTheorems, TLAPS

(* The order in which an item may go through its states: no write leads    *)
(* back, and only a link leaves it where it is.                            *)
Rank(status) ==
    CASE status = "absent" -> 0
      [] status \in {"observed", "proposed"} -> 1
      [] status = "active" -> 2
      [] status \in {"rejected", "superseded"} -> 3
      [] status = "expired" -> 4
      [] status = "deleted" -> 5
      [] OTHER -> 6

(* An approval that a row of item m refers to was asked for m.             *)
IsAbout(a, m) == a # None => approvals[a].status # "absent" /\ approvals[a].subject = m

(* A copy of an item is of a state the item was in; in the same state it   *)
(* still refers to the same approval, unless it may be linked anew.        *)
IsCopy(m, r) ==
    /\ r.status \in Stored
    /\ Rank(r.status) <= Rank(items[m].status)
    /\ items[m].status = r.status /\ r.status # "proposed" => items[m].approval = r.approval

(* What a process at label l, in a method o on item m, knows of its row r. *)
CopyFits(l, o, m, r) ==
    /\ IsAbout(r.approval, m)
    /\ l \notin {"idle", "sweep"} => m \in MemoryId
    /\ l \in {"ask", "link"} => r.status = "proposed"
    /\ l \in {"link", "decide", "settle", "expire"} => r.approval # None
    /\ l = "settle" => r.status = IF o \in {"approve", "auto"} THEN "active" ELSE "rejected"
    /\ l = "move" => IsCopy(m, r) /\ o \in {"expired", "deleted"} /\ o \in LegalTransitions[r.status]
    /\ l = "replace" => IsCopy(m, r) /\ r.status = "active"
    /\ l = "retire" => IsCopy(m, r) /\ "expired" \in LegalTransitions[r.status]
    /\ l = "record" => o = "auto"
    /\ l \in {"sweep", "expire", "again", "retire"} => o = "retain"

ListFits(list) == \A t \in list : IsAbout(t.approval, t.item)

ItemsLinked == \A m \in MemoryId : IsAbout(items[m].approval, m)

SubjectsKnown == \A a \in ApprovalId : approvals[a].status # "absent" => approvals[a].subject \in MemoryId

CopiesFit == \A p \in Proc : CopyFits(pc[p], op[p], item[p], row[p]) /\ ListFits(todo[p])

MemoryInv == TypeOK /\ ItemsLinked /\ SubjectsKnown /\ DecisionsAgree /\ CopiesFit

(* An orchestrator's activation, from the count of its task's to its       *)
(* record, and those that were recorded.                                   *)
InFlight(source) == {p \in Proc : (pc[p] = "countDay" \/ op[p] = "auto") /\ Source[item[p]] = source}
Recorded(source) == {n \in activated : Source[n] = source}

WithinBound(source) ==
    \/ Recorded(source) = {} /\ InFlight(source) = {}
    \/ Cardinality(Recorded(source)) + Cardinality(InFlight(source)) <= TaskLimit + Cardinality(Proc) - 1

ActivationsBounded == \A m \in MemoryId : WithinBound(Source[m])

-----------------------------------------------------------------------------
(* Lemmas about the operators.                                             *)

LEMMA Statuses ==
    /\ Stored = {"observed", "proposed", "active", "superseded", "expired", "rejected", "deleted"}
    /\ \A s \in Stored : "expired" \in LegalTransitions[s] <=> s \in {"observed", "proposed", "active"}
    /\ \A s \in Stored : "deleted" \in LegalTransitions[s] <=> s # "deleted"
<1>1. Stored = {"observed", "proposed", "active", "superseded", "expired", "rejected", "deleted"}
  BY DEF Stored, LegalTransitions
<1>2. ASSUME NEW s \in Stored
      PROVE  /\ "expired" \in LegalTransitions[s] <=> s \in {"observed", "proposed", "active"}
             /\ "deleted" \in LegalTransitions[s] <=> s # "deleted"
  BY <1>1 DEF LegalTransitions
<1> QED BY <1>1, <1>2

LEMMA Ranks ==
    \A s \in Stored \cup {"absent", "purged"} :
        /\ Rank(s) \in 0..6
        /\ s = "absent" <=> Rank(s) = 0
        /\ s \in {"observed", "proposed"} <=> Rank(s) = 1
        /\ s = "active" <=> Rank(s) = 2
        /\ s \in {"superseded", "rejected"} <=> Rank(s) = 3
        /\ s = "expired" <=> Rank(s) = 4
        /\ s = "deleted" <=> Rank(s) = 5
        /\ s = "purged" <=> Rank(s) = 6
BY Statuses DEF Rank

(* A set of numbers that is not empty has a lowest one.                    *)
LEMMA LowestNumber ==
    ASSUME NEW S \in SUBSET Nat, S # {}
    PROVE  \E n \in S : \A m \in S : n <= m
<1> DEFINE T == {0..i : i \in S}
<1>1. T \subseteq FiniteSubsetsOf(Nat)
  <2> SUFFICES ASSUME NEW i \in S PROVE 0..i \in FiniteSubsetsOf(Nat)
    OBVIOUS
  <2>1. IsFiniteSet(0..i)
    BY FS_Interval
  <2> QED BY <2>1 DEF FiniteSubsetsOf
<1>2. PICK t \in T : \A u \in T : <<u, t>> \notin StrictSubsetOrdering(Nat)
  <2>1. T # {}
    OBVIOUS
  <2> QED BY <1>1, <2>1, WFMin, FS_StrictSubsetOrderingWellFounded
<1>3. PICK i \in S : t = 0..i
  OBVIOUS
<1>4. ASSUME NEW k \in S PROVE i <= k
  <2> SUFFICES ASSUME k < i PROVE FALSE
    OBVIOUS
  <2>1. 0..k \in SUBSET Nat /\ 0..i \in SUBSET Nat /\ 0..k \subseteq 0..i /\ i \in 0..i /\ i \notin 0..k
    OBVIOUS
  <2>2. <<0..k, t>> \in StrictSubsetOrdering(Nat)
    BY <2>1, <1>3 DEF StrictSubsetOrdering
  <2> QED BY <1>2, <2>2
<1> QED BY <1>4

(* A list that is not empty has a first entry.                             *)
LEMMA FirstOfList ==
    ASSUME NEW S, S # {}, \A t \in S : t.item \in Nat
    PROVE  FirstOf(S) \in S
<1>1. PICK n \in {t.item : t \in S} : \A m \in {t.item : t \in S} : n <= m
  BY LowestNumber
<1> QED BY <1>1 DEF FirstOf

LEMMA FreshOne ==
    ASSUME NEW m, Fresh(m) # {}
    PROVE  NextFresh \in ApprovalId /\ approvals[NextFresh].status = "absent"
<1>1. \E a \in ApprovalId : approvals[a].status = "absent"
  BY DEF Fresh
<1> QED BY <1>1 DEF NextFresh

LEMMA AbsentItemTyped ==
    AbsentItem \in ItemRow /\ AbsentItem.status = "absent" /\ AbsentItem.approval = None
BY DEF AbsentItem, ItemRow

LEMMA StatusTyped ==
    ASSUME NEW r \in ItemRow, NEW status \in Stored \cup {"absent", "purged"}
    PROVE  /\ [r EXCEPT !.status = status] \in ItemRow
           /\ [r EXCEPT !.status = status].status = status
           /\ [r EXCEPT !.status = status].approval = r.approval
BY DEF ItemRow

-----------------------------------------------------------------------------
(* Types.                                                                  *)

StoreTypes ==
    /\ items \in [MemoryId -> ItemRow]
    /\ approvals \in [ApprovalId -> ApprovalRow]
    /\ conflicted \subseteq MemoryId /\ activated \subseteq MemoryId

ListRow == [item: MemoryId, status: Stored, approval: ApprovalId \cup {None}]

LocalTypes ==
    /\ pc \in [Proc -> Label] /\ op \in [Proc -> Method] /\ item \in [Proc -> MemoryId \cup {None}]
    /\ row \in [Proc -> ItemRow] /\ todo \in [Proc -> SUBSET ListRow]

LEMMA TypesSplit == (TypeOK <=> StoreTypes /\ LocalTypes) /\ (TypeOK' <=> StoreTypes' /\ LocalTypes')
BY DEF TypeOK, StoreTypes, LocalTypes, ListRow

LEMMA ReturnTypes ==
    ASSUME LocalTypes, NEW p \in Proc, Return(p)
    PROVE  LocalTypes'
BY AbsentItemTyped DEF LocalTypes, Return, Goto, Label, Method

LEMMA BeginTypes ==
    ASSUME LocalTypes, NEW p \in Proc, NEW m \in MemoryId, NEW method \in Method, NEW l \in Label,
           NEW r \in ItemRow, Begin(p, method, l, m, r)
    PROVE  LocalTypes'
BY DEF LocalTypes, Begin, Goto

(* A method goes on with everything but its label left alone.              *)
LEMMA GotoTypes ==
    ASSUME LocalTypes, NEW p \in Proc, NEW l \in Label, Goto(p, l), UNCHANGED <<op, item, row, todo>>
    PROVE  LocalTypes'
BY DEF LocalTypes, Goto

LEMMA CopyOf ==
    ASSUME MemoryInv, NEW p \in Proc
    PROVE  /\ CopyFits(pc[p], op[p], item[p], row[p]) /\ row[p] \in ItemRow /\ ListFits(todo[p])
           /\ (pc[p] \notin {"idle", "sweep"} => item[p] \in MemoryId)
           /\ StoreTypes /\ LocalTypes
BY TypesSplit DEF MemoryInv, CopiesFit, CopyFits, LocalTypes

LEMMA CallTypes ==
    ASSUME MemoryInv, NEW p \in Proc, ProposeSome(p) \/ Develop(p) \/ Operate(p)
    PROVE  TypeOK'
<1> USE DEF Label, Method
<1>1. StoreTypes /\ LocalTypes /\ Curated \subseteq MemoryId
  BY CopyOf, MemoryConstantsAssumption
<1>2. CASE ProposeSome(p)
  <2>1. PICK m \in MemoryId, status \in {"proposed", "observed"} : Propose(p, m, status)
    BY <1>2 DEF ProposeSome
  <2>2. PICK r : r = [AbsentItem EXCEPT !.status = status]
    OBVIOUS
  <2>3. r \in ItemRow
    BY <2>2, AbsentItemTyped, StatusTyped, Statuses
  <2>4. LocalTypes'
    BY <1>1, <2>1, <2>2, <2>3, BeginTypes DEF Propose
  <2>5. StoreTypes'
    BY <1>1, <2>1, <2>2, <2>3 DEF Propose, SetItem, StoreTypes
  <2> QED BY <2>4, <2>5, TypesSplit
<1>3. ASSUME NEW m \in MemoryId, RequestApproval(p, m) PROVE TypeOK'
  BY <1>1, <1>3, BeginTypes, AbsentItemTyped, TypesSplit DEF RequestApproval, store, StoreTypes
<1>4. ASSUME NEW a \in ApprovalId, NEW method \in {"approve", "reject"}, Decide(p, a, method) PROVE TypeOK'
  <2>1. approvals[a].subject \in MemoryId
    BY <1>4 DEF Decide, MemoryInv, SubjectsKnown
  <2>2. PICK r : r = [AbsentItem EXCEPT !.approval = a]
    OBVIOUS
  <2>3. r \in ItemRow
    BY <2>2, AbsentItemTyped DEF ItemRow
  <2>4. LocalTypes'
    BY <1>1, <1>4, <2>1, <2>2, <2>3, BeginTypes DEF Decide
  <2> QED BY <1>1, <1>4, <2>4, TypesSplit DEF Decide, store, StoreTypes
<1>5. ASSUME NEW m \in MemoryId, NEW target \in {"expired", "deleted"}, Transition(p, m, target) PROVE TypeOK'
  <2>1. items[m] \in ItemRow
    BY <1>1 DEF StoreTypes
  <2> QED BY <1>1, <1>5, <2>1, BeginTypes, TypesSplit DEF Transition, store, StoreTypes
<1>6. ASSUME NEW m \in MemoryId, NEW n \in MemoryId, Supersede(p, m, n) PROVE TypeOK'
  <2>1. PICK r : r = [items[m] EXCEPT !.successor = n]
    OBVIOUS
  <2>2. r \in ItemRow
    BY <1>1, <2>1 DEF StoreTypes, ItemRow
  <2>3. LocalTypes'
    BY <1>1, <1>6, <2>1, <2>2, BeginTypes DEF Supersede
  <2> QED BY <1>1, <1>6, <2>3, TypesSplit DEF Supersede, store, StoreTypes
<1>7. ASSUME NEW m \in MemoryId, Purge(p, m) PROVE TypeOK'
  <2>1. [AbsentItem EXCEPT !.status = "purged"] \in ItemRow
    BY AbsentItemTyped, StatusTyped
  <2>2. StoreTypes'
    BY <1>1, <1>7, <2>1 DEF Purge, SetItem, StoreTypes
  <2>3. LocalTypes'
    BY <1>1, <1>7 DEF Purge, locals, LocalTypes
  <2> QED BY <2>2, <2>3, TypesSplit
<1>8. ASSUME NEW due \in SUBSET Curated, Retain(p, due) PROVE TypeOK'
  <2>1. \A m \in due : items[m].status \in Stored
    BY <1>8, Statuses DEF Retain, MayAge
  <2>2. {[item |-> m, status |-> items[m].status, approval |-> items[m].approval] : m \in due} \in SUBSET ListRow
    BY <1>1, <2>1 DEF ListRow, StoreTypes, ItemRow
  <2>3. LocalTypes'
    BY <1>1, <1>8, <2>2 DEF Retain, Goto, LocalTypes
  <2> QED BY <1>1, <1>8, <2>3, TypesSplit DEF Retain, store, StoreTypes
<1> QED BY <1>1, <1>2, <1>3, <1>4, <1>5, <1>6, <1>7, <1>8 DEF Develop, Operate

LEMMA StepTypes ==
    ASSUME MemoryInv, NEW p \in Proc, Step(p)
    PROVE  TypeOK'
<1> USE DEF Label, Method
<1>1. StoreTypes /\ LocalTypes /\ CopyFits(pc[p], op[p], item[p], row[p]) /\ row[p] \in ItemRow
      /\ (pc[p] \notin {"idle", "sweep"} => item[p] \in MemoryId)
  BY CopyOf
<1>2. ASSUME UNCHANGED store PROVE StoreTypes'
  BY <1>1, <1>2 DEF store, StoreTypes
<1>3. ASSUME AfterConflicts(p) PROVE LocalTypes'
  BY <1>1, <1>3, ReturnTypes, GotoTypes DEF AfterConflicts
<1>4. CASE FindConflicts(p)
  <2>1. LocalTypes'
    BY <1>1, <1>3, <1>4, GotoTypes DEF FindConflicts
  <2> QED BY <1>2, <1>4, <2>1, TypesSplit DEF FindConflicts
<1>5. CASE MarkConflict(p)
  <2>1. LocalTypes'
    BY <1>1, <1>3, <1>5, ReturnTypes DEF MarkConflict
  <2>2. StoreTypes'
    BY <1>1, <1>5 DEF MarkConflict, StoreTypes
  <2> QED BY <2>1, <2>2, TypesSplit
<1>6. CASE Consider(p) \/ CountTask(p)
  <2>1. LocalTypes' /\ UNCHANGED store
    BY <1>1, <1>6, ReturnTypes, GotoTypes DEF Consider, CountTask
  <2> QED BY <1>2, <2>1, TypesSplit
<1>7. CASE CountDay(p)
  <2>1. LocalTypes'
    <3>1. CASE Return(p)
      BY <1>1, <3>1, ReturnTypes
    <3>2. CASE Goto(p, "read") /\ op' = [op EXCEPT ![p] = "auto"] /\ UNCHANGED <<item, row, todo>>
      BY <1>1, <3>2 DEF Goto, LocalTypes
    <3> QED BY <1>7, <3>1, <3>2 DEF CountDay
  <2> QED BY <1>2, <1>7, <2>1, TypesSplit DEF CountDay
<1>8. CASE ReadProposal(p)
  <2>1. LocalTypes'
    <3>1. CASE Return(p)
      BY <1>1, <3>1, ReturnTypes
    <3>2. CASE /\ row' = [row EXCEPT ![p] = items[item[p]]]
               /\ Goto(p, IF items[item[p]].approval = None THEN "ask" ELSE "decide")
               /\ UNCHANGED <<op, item, todo>>
      <4>1. items[item[p]] \in ItemRow
        BY <1>1, <1>8 DEF ReadProposal, StoreTypes
      <4> QED BY <1>1, <3>2, <4>1 DEF Goto, LocalTypes
    <3> QED BY <1>8, <3>1, <3>2 DEF ReadProposal
  <2> QED BY <1>2, <1>8, <2>1, TypesSplit DEF ReadProposal
<1>9. CASE AskApproval(p)
  <2>1. item[p] \in MemoryId /\ NextFresh \in ApprovalId
    BY <1>1, <1>9, FreshOne DEF AskApproval
  <2>2. [row[p] EXCEPT !.approval = NextFresh] \in ItemRow
    BY <1>1, <2>1 DEF ItemRow
  <2>3. LocalTypes'
    BY <1>1, <1>9, <2>2 DEF AskApproval, Goto, LocalTypes
  <2>4. StoreTypes'
    BY <1>1, <1>9, <2>1 DEF AskApproval, StoreTypes, ApprovalRow
  <2> QED BY <2>3, <2>4, TypesSplit
<1>10. CASE LinkApproval(p)
  <2>1. LocalTypes'
    BY <1>1, <1>10, ReturnTypes, GotoTypes DEF LinkApproval
  <2>2. StoreTypes'
    BY <1>1, <1>10 DEF LinkApproval, SetItem, StoreTypes
  <2> QED BY <2>1, <2>2, TypesSplit
<1>11. CASE CheckDecision(p)
  <2>1. LocalTypes'
    <3>1. CASE Return(p)
      BY <1>1, <3>1, ReturnTypes
    <3>2. CASE /\ row' = [row EXCEPT ![p] =
                      [items[item[p]] EXCEPT !.status = IF Approves(p) THEN "active" ELSE "rejected"]]
               /\ Goto(p, "settle") /\ UNCHANGED <<op, item, todo>>
      <4>1. items[item[p]] \in ItemRow
        BY <1>1, <1>11 DEF CheckDecision, StoreTypes
      <4>2. [items[item[p]] EXCEPT !.status = IF Approves(p) THEN "active" ELSE "rejected"] \in ItemRow
        BY <4>1, StatusTyped, Statuses
      <4> QED BY <1>1, <3>2, <4>2 DEF Goto, LocalTypes
    <3> QED BY <1>11, <3>1, <3>2 DEF CheckDecision
  <2> QED BY <1>2, <1>11, <2>1, TypesSplit DEF CheckDecision
<1>12. CASE Settle(p)
  <2>1. LocalTypes'
    BY <1>1, <1>12, ReturnTypes, GotoTypes DEF Settle
  <2>2. Decision(p) \in {"approved", "rejected"}
    BY DEF Decision
  <2>3. StoreTypes'
    BY <1>1, <1>12, <2>2 DEF Settle, TransitionApproval, SetItem, StoreTypes, ApprovalRow
  <2> QED BY <2>1, <2>3, TypesSplit
<1>13. CASE RecordActivation(p)
  <2>1. LocalTypes'
    BY <1>1, <1>13, ReturnTypes DEF RecordActivation
  <2>2. StoreTypes'
    BY <1>1, <1>13 DEF RecordActivation, StoreTypes
  <2> QED BY <2>1, <2>2, TypesSplit
<1>14. CASE Move(p) \/ SupersedeOld(p)
  <2>1. LocalTypes'
    BY <1>1, <1>14, ReturnTypes DEF Move, SupersedeOld
  <2>2. [row[p] EXCEPT !.status = "superseded"] \in ItemRow
    BY <1>1, StatusTyped, Statuses
  <2>3. pc[p] = "move" => [row[p] EXCEPT !.status = op[p]] \in ItemRow
    BY <1>1, StatusTyped, Statuses DEF CopyFits
  <2>4. StoreTypes'
    BY <1>1, <1>14, <2>2, <2>3 DEF Move, SupersedeOld, StoreTypes
  <2> QED BY <2>1, <2>4, TypesSplit
<1>15. CASE SweepNext(p)
  <2>1. todo[p] \subseteq ListRow /\ todo[p] # {}
    BY <1>1, <1>15 DEF SweepNext, LocalTypes
  <2>2. PICK t : t = FirstOf(todo[p])
    OBVIOUS
  <2>3. t \in ListRow
    <3>1. \A u \in todo[p] : u.item \in Nat
      BY <2>1, MemoryConstantsAssumption DEF ListRow
    <3> QED BY <2>1, <2>2, <3>1, FirstOfList
  <2>4. [AbsentItem EXCEPT !.status = t.status, !.approval = t.approval] \in ItemRow
    BY <2>3, AbsentItemTyped DEF ListRow, ItemRow
  <2>5. LocalTypes'
    BY <1>1, <1>15, <2>2, <2>3, <2>4 DEF SweepNext, Goto, LocalTypes, ListRow
  <2> QED BY <1>2, <1>15, <2>5, TypesSplit DEF SweepNext
<1>16. CASE SweepDone(p)
  BY <1>1, <1>2, <1>16, ReturnTypes, TypesSplit DEF SweepDone
<1>17. CASE ExpireLinked(p)
  <2>1. LocalTypes'
    BY <1>1, <1>17, GotoTypes DEF ExpireLinked
  <2>2. [row[p] EXCEPT !.status = "expired"] \in ItemRow
    BY <1>1, StatusTyped, Statuses
  <2>3. StoreTypes'
    BY <1>1, <1>17, <2>2 DEF ExpireLinked, TransitionApproval, SetItem, StoreTypes, ApprovalRow
  <2> QED BY <2>1, <2>3, TypesSplit
<1>18. CASE ReadAgain(p)
  <2>1. LocalTypes'
    <3>1. CASE Return(p)
      BY <1>1, <3>1, ReturnTypes
    <3>2. CASE row' = [row EXCEPT ![p] = items[item[p]]] /\ Goto(p, "retire") /\ UNCHANGED <<op, item, todo>>
      <4>1. items[item[p]] \in ItemRow
        BY <1>1, <1>18 DEF ReadAgain, StoreTypes
      <4> QED BY <1>1, <3>2, <4>1 DEF Goto, LocalTypes
    <3> QED BY <1>18, <3>1, <3>2 DEF ReadAgain
  <2> QED BY <1>2, <1>18, <2>1, TypesSplit DEF ReadAgain
<1>19. CASE ExpireUnlinked(p)
  <2>1. LocalTypes'
    BY <1>1, <1>19, ReturnTypes, GotoTypes DEF ExpireUnlinked
  <2>2. [row[p] EXCEPT !.status = "expired"] \in ItemRow
    BY <1>1, StatusTyped, Statuses
  <2>3. StoreTypes'
    BY <1>1, <1>19, <2>2 DEF ExpireUnlinked, SetItem, StoreTypes
  <2> QED BY <2>1, <2>3, TypesSplit
<1> QED BY <1>4, <1>5, <1>6, <1>7, <1>8, <1>9, <1>10, <1>11, <1>12, <1>13, <1>14, <1>15, <1>16, <1>17,
           <1>18, <1>19 DEF Step

LEMMA TypesStay ==
    ASSUME MemoryInv, [Next]_vars
    PROVE  TypeOK'
<1>1. StoreTypes /\ LocalTypes
  BY TypesSplit DEF MemoryInv
<1>2. ASSUME NEW p \in Proc, Die(p) PROVE TypeOK'
  BY <1>1, <1>2, ReturnTypes, TypesSplit DEF Die, store, StoreTypes
<1>3. CASE UNCHANGED vars
  BY <1>1, <1>3, TypesSplit DEF vars, locals, store, StoreTypes, LocalTypes
<1> QED BY <1>2, <1>3, CallTypes, StepTypes, MemoryConstantsAssumption DEF Next

-----------------------------------------------------------------------------
(* What a step may do to the items and the approvals.                      *)

Forward ==
    /\ \A a \in ApprovalId : approvals[a].status # "absent" =>
          approvals'[a].status # "absent" /\ approvals'[a].subject = approvals[a].subject
    /\ \A m \in MemoryId :
          \/ items'[m] = items[m]
          \/ Rank(items[m].status) < Rank(items'[m].status)
          \/ items[m].status = "proposed" /\ items'[m].status = "proposed"

LEMMA AboutStays ==
    ASSUME Forward, NEW a \in ApprovalId \cup {None}, NEW m, IsAbout(a, m)
    PROVE  IsAbout(a, m)'
BY DEF IsAbout, Forward

LEMMA CopyStays ==
    ASSUME TypeOK, TypeOK', Forward, NEW m \in MemoryId, NEW r \in ItemRow, IsCopy(m, r)
    PROVE  IsCopy(m, r)'
<1>1. r.status \in Stored /\ items[m].status \in Stored \cup {"absent", "purged"}
      /\ items'[m].status \in Stored \cup {"absent", "purged"}
  BY DEF IsCopy, TypeOK, ItemRow
<1>2. /\ Rank(r.status) \in 0..6 /\ Rank(items[m].status) \in 0..6 /\ Rank(items'[m].status) \in 0..6
  BY <1>1, Ranks
<1>3. CASE items'[m] = items[m]
  BY <1>3 DEF IsCopy
<1>4. CASE Rank(items[m].status) < Rank(items'[m].status)
  <2>1. Rank(r.status) < Rank(items'[m].status)
    BY <1>2, <1>4 DEF IsCopy
  <2> QED BY <1>1, <1>2, <2>1 DEF IsCopy
<1>5. CASE items[m].status = "proposed" /\ items'[m].status = "proposed"
  BY <1>5 DEF IsCopy
<1> QED BY <1>3, <1>4, <1>5 DEF Forward

LEMMA FitsStays ==
    ASSUME TypeOK, TypeOK', Forward, NEW l, NEW o, NEW m, NEW r \in ItemRow, CopyFits(l, o, m, r)
    PROVE  CopyFits(l, o, m, r)'
<1>1. IsAbout(r.approval, m)'
  BY AboutStays DEF CopyFits, ItemRow
<1>2. l \in {"move", "replace", "retire"} => IsCopy(m, r)'
  BY CopyStays DEF CopyFits
<1> QED BY <1>1, <1>2 DEF CopyFits

LEMMA ListStays ==
    ASSUME Forward, NEW list \in SUBSET ListRow, ListFits(list)
    PROVE  ListFits(list)'
<1> SUFFICES ASSUME NEW t \in list PROVE IsAbout(t.approval, t.item)'
  BY DEF ListFits
<1> QED BY AboutStays DEF ListFits, ListRow

LEMMA LinksStay ==
    ASSUME MemoryInv, TypeOK', Forward,
           \A m \in MemoryId : items'[m].approval # items[m].approval => IsAbout(items[m].approval, m)'
    PROVE  ItemsLinked'
<1> SUFFICES ASSUME NEW m \in MemoryId PROVE IsAbout(items[m].approval, m)'
  BY DEF ItemsLinked
<1>1. CASE items'[m].approval # items[m].approval
  BY <1>1
<1>2. CASE items'[m].approval = items[m].approval
  <2>1. PICK a : a = items[m].approval
    OBVIOUS
  <2>2. a \in ApprovalId \cup {None} /\ IsAbout(a, m)
    BY <2>1 DEF MemoryInv, TypeOK, ItemRow, ItemsLinked
  <2>3. IsAbout(a, m)'
    BY <2>2, AboutStays
  <2> QED BY <1>2, <2>1, <2>3
<1> QED BY <1>1, <1>2

(* A step of one process: what it has to establish.                        *)
OthersStand(p) ==
    \A q \in Proc \ {p} : pc'[q] = pc[q] /\ op'[q] = op[q] /\ item'[q] = item[q] /\ row'[q] = row[q]
                          /\ todo'[q] = todo[q]

LEMMA ProcessSteps ==
    ASSUME MemoryInv, TypeOK', Forward, DecisionsAgree', NEW p \in Proc, OthersStand(p),
           \A m \in MemoryId : items'[m].approval # items[m].approval => IsAbout(items[m].approval, m)',
           \A a \in ApprovalId : approvals[a].status = "absent" /\ approvals'[a].status # "absent" =>
               approvals'[a].subject \in MemoryId,
           CopyFits(pc[p], op[p], item[p], row[p])', ListFits(todo[p])'
    PROVE  MemoryInv'
<1> TypeOK
  BY DEF MemoryInv
<1>1. ItemsLinked'
  BY LinksStay
<1>2. SubjectsKnown'
  <2> SUFFICES ASSUME NEW a \in ApprovalId, approvals'[a].status # "absent"
               PROVE  approvals'[a].subject \in MemoryId
    BY DEF SubjectsKnown
  <2> QED BY DEF MemoryInv, SubjectsKnown, Forward
<1>3. CopiesFit'
  <2> SUFFICES ASSUME NEW q \in Proc
               PROVE  (CopyFits(pc[q], op[q], item[q], row[q]) /\ ListFits(todo[q]))'
    BY DEF CopiesFit
  <2>1. CASE q = p
    BY <2>1
  <2>2. CASE q # p
    <3>1. PICK l, o, m, r, list : l = pc[q] /\ o = op[q] /\ m = item[q] /\ r = row[q] /\ list = todo[q]
      OBVIOUS
    <3>2. CopyFits(l, o, m, r) /\ r \in ItemRow /\ ListFits(list) /\ list \in SUBSET ListRow
      BY <3>1, CopyOf DEF LocalTypes
    <3>3. CopyFits(l, o, m, r)' /\ ListFits(list)'
      BY <3>2, FitsStays, ListStays
    <3>4. pc'[q] = l /\ op'[q] = o /\ item'[q] = m /\ row'[q] = r /\ todo'[q] = list
      BY <2>2, <3>1 DEF OthersStand
    <3> QED BY <3>3, <3>4
  <2> QED BY <2>1, <2>2
<1> QED BY <1>1, <1>2, <1>3 DEF MemoryInv

LEMMA SameRows ==
    ASSUME UNCHANGED <<items, approvals>>
    PROVE  /\ Forward /\ (DecisionsAgree' <=> DecisionsAgree)
           /\ \A l, o, m, r : CopyFits(l, o, m, r)' <=> CopyFits(l, o, m, r)
           /\ \A list : ListFits(list)' <=> ListFits(list)
BY DEF Forward, DecisionsAgree, CopyFits, ListFits, IsAbout, IsCopy

(* A step of a process that leaves the items and the approvals alone.      *)
LEMMA LocalSteps ==
    ASSUME MemoryInv, TypeOK', UNCHANGED <<items, approvals>>, NEW p \in Proc, OthersStand(p),
           CopyFits(pc'[p], op'[p], item'[p], row'[p]), ListFits(todo'[p])
    PROVE  MemoryInv'
<1>1. PICK l, o, m, r, list : l = pc'[p] /\ o = op'[p] /\ m = item'[p] /\ r = row'[p] /\ list = todo'[p]
  OBVIOUS
<1>2. CopyFits(l, o, m, r)' /\ ListFits(list)'
  BY <1>1, SameRows
<1>3. CopyFits(pc[p], op[p], item[p], row[p])' /\ ListFits(todo[p])'
  BY <1>1, <1>2
<1>4. Forward /\ DecisionsAgree'
  BY SameRows DEF MemoryInv
<1> QED BY <1>3, <1>4, ProcessSteps

LEMMA Returned ==
    ASSUME LocalTypes, NEW p \in Proc, Return(p)
    PROVE  /\ OthersStand(p) /\ pc'[p] = "idle" /\ op'[p] = "none" /\ item'[p] = None
           /\ row'[p] = AbsentItem /\ todo'[p] = {}
BY DEF Return, Goto, LocalTypes, OthersStand

LEMMA IdleFits ==
    /\ CopyFits("idle", "none", None, AbsentItem) /\ ListFits({})
    /\ CopyFits("idle", "none", None, AbsentItem)' /\ ListFits({})'
BY AbsentItemTyped DEF CopyFits, ListFits, IsAbout

LEMMA Returns ==
    ASSUME MemoryInv, TypeOK', UNCHANGED <<items, approvals>>, NEW p \in Proc, Return(p)
    PROVE  MemoryInv'
<1>1. LocalTypes
  BY CopyOf
<1> QED BY <1>1, Returned, IdleFits, LocalSteps

(* The label alone changes.                                                *)
LEMMA Went ==
    ASSUME LocalTypes, NEW p \in Proc, NEW l, Goto(p, l), UNCHANGED <<op, item, row, todo>>
    PROVE  /\ OthersStand(p) /\ pc'[p] = l /\ op'[p] = op[p] /\ item'[p] = item[p]
           /\ row'[p] = row[p] /\ todo'[p] = todo[p]
BY DEF Goto, LocalTypes, OthersStand

LEMMA Goes ==
    ASSUME MemoryInv, TypeOK', UNCHANGED <<items, approvals>>, NEW p \in Proc, NEW l, Goto(p, l),
           UNCHANGED <<op, item, row, todo>>, CopyFits(l, op[p], item[p], row[p])
    PROVE  MemoryInv'
<1>1. LocalTypes /\ ListFits(todo[p])
  BY CopyOf
<1>2. /\ OthersStand(p) /\ pc'[p] = l /\ op'[p] = op[p] /\ item'[p] = item[p]
      /\ row'[p] = row[p] /\ todo'[p] = todo[p]
  BY <1>1, Went
<1> QED BY <1>1, <1>2, LocalSteps

LEMMA Begins ==
    ASSUME MemoryInv, TypeOK', UNCHANGED <<items, approvals>>, NEW p \in Proc, NEW method, NEW l,
           NEW m \in MemoryId, NEW r, Begin(p, method, l, m, r), CopyFits(l, method, m, r)
    PROVE  MemoryInv'
<1>1. LocalTypes /\ ListFits(todo[p])
  BY CopyOf
<1>2. /\ OthersStand(p) /\ pc'[p] = l /\ op'[p] = method /\ item'[p] = m
      /\ row'[p] = r /\ todo'[p] = todo[p]
  BY <1>1 DEF Begin, Goto, LocalTypes, OthersStand
<1> QED BY <1>1, <1>2, LocalSteps

-----------------------------------------------------------------------------
(* The steps that read.                                                    *)

LEMMA ReadingCalls ==
    ASSUME MemoryInv, TypeOK', NEW p \in Proc, Develop(p)
    PROVE  MemoryInv'
<1>1. Curated \subseteq MemoryId /\ TypeOK
  BY MemoryConstantsAssumption DEF MemoryInv
<1>2. ASSUME NEW m \in MemoryId, RequestApproval(p, m) PROVE MemoryInv'
  <2>1. CopyFits("read", "request", m, AbsentItem)
    BY AbsentItemTyped DEF CopyFits, IsAbout
  <2> QED BY <1>2, <2>1, Begins DEF RequestApproval, store
<1>3. ASSUME NEW a \in ApprovalId, NEW method \in {"approve", "reject"}, Decide(p, a, method) PROVE MemoryInv'
  <2>1. approvals[a].subject \in MemoryId
    BY <1>3 DEF Decide, MemoryInv, SubjectsKnown
  <2>2. PICK r : r = [AbsentItem EXCEPT !.approval = a]
    OBVIOUS
  <2>3. r.approval = a /\ a # None
    BY <2>2, MemoryConstantsAssumption DEF AbsentItem
  <2>4. CopyFits("decide", method, approvals[a].subject, r)
    BY <1>3, <2>1, <2>3 DEF CopyFits, IsAbout, Decide
  <2> QED BY <1>3, <2>1, <2>2, <2>4, Begins DEF Decide, store
<1> QED BY <1>1, <1>2, <1>3 DEF Develop

LEMMA ReadingCommands ==
    ASSUME MemoryInv, TypeOK', NEW p \in Proc, NEW m \in MemoryId,
           \/ \E target \in {"expired", "deleted"} : Transition(p, m, target)
           \/ \E n \in MemoryId : Supersede(p, m, n)
    PROVE  MemoryInv'
<1>1. IsAbout(items[m].approval, m) /\ items[m] \in ItemRow
  BY DEF MemoryInv, ItemsLinked, TypeOK
<1>2. ASSUME NEW r \in ItemRow, r.status = items[m].status, r.approval = items[m].approval, Known(m)
      PROVE  IsCopy(m, r)
  BY <1>1, <1>2, Ranks DEF IsCopy, Known, ItemRow
<1>3. ASSUME NEW target \in {"expired", "deleted"}, Transition(p, m, target) PROVE MemoryInv'
  <2>1. CopyFits("move", target, m, items[m])
    BY <1>1, <1>2, <1>3 DEF Transition, CopyFits
  <2> QED BY <1>3, <2>1, Begins DEF Transition, store
<1>4. ASSUME NEW n \in MemoryId, Supersede(p, m, n) PROVE MemoryInv'
  <2>1. PICK r : r = [items[m] EXCEPT !.successor = n]
    OBVIOUS
  <2>2. r \in ItemRow /\ r.status = items[m].status /\ r.approval = items[m].approval
    BY <1>1, <2>1 DEF ItemRow
  <2>3. items[m].status = "active" /\ Known(m)
    BY <1>4, Statuses DEF Supersede, Known
  <2>4. CopyFits("replace", "supersede", m, r)
    BY <1>1, <1>2, <2>2, <2>3 DEF CopyFits
  <2> QED BY <1>4, <2>1, <2>4, Begins DEF Supersede, store
<1> QED BY <1>3, <1>4

LEMMA RetentionStarts ==
    ASSUME MemoryInv, TypeOK', NEW p \in Proc, NEW due \in SUBSET Curated, Retain(p, due)
    PROVE  MemoryInv'
<1>1. due \subseteq MemoryId /\ LocalTypes /\ CopyFits(pc[p], op[p], item[p], row[p])
  BY CopyOf, MemoryConstantsAssumption
<1>2. PICK list :
          list = {[item |-> m, status |-> items[m].status, approval |-> items[m].approval] : m \in due}
  OBVIOUS
<1>3. ListFits(list)
  BY <1>1, <1>2 DEF ListFits, MemoryInv, ItemsLinked
<1>4. /\ pc'[p] = "sweep" /\ op'[p] = "retain" /\ item'[p] = item[p] /\ row'[p] = row[p]
      /\ todo'[p] = list /\ OthersStand(p)
  BY <1>1, <1>2 DEF Retain, Goto, LocalTypes, OthersStand
<1>5. CopyFits("sweep", "retain", item[p], row[p])
  BY <1>1 DEF CopyFits
<1>6. UNCHANGED <<items, approvals>>
  BY DEF Retain, store
<1> QED BY <1>3, <1>4, <1>5, <1>6, LocalSteps

LEMMA ReadingSteps ==
    ASSUME MemoryInv, TypeOK', NEW p \in Proc,
           \/ FindConflicts(p) \/ MarkConflict(p) \/ Consider(p) \/ CountTask(p) \/ CountDay(p)
           \/ ReadProposal(p) \/ CheckDecision(p) \/ RecordActivation(p)
    PROVE  MemoryInv'
<1>1. /\ CopyFits(pc[p], op[p], item[p], row[p]) /\ ListFits(todo[p]) /\ LocalTypes
      /\ (pc[p] \notin {"idle", "sweep"} => item[p] \in MemoryId)
  BY CopyOf
<1>2. UNCHANGED <<items, approvals>>
  BY DEF FindConflicts, MarkConflict, Consider, CountTask, CountDay, ReadProposal, CheckDecision,
         RecordActivation, store
<1>3. CASE Return(p)
  BY <1>2, <1>3, Returns
<1>4. ASSUME NEW l \in {"mark", "consider", "countTask"}, Goto(p, l), UNCHANGED <<op, item, row, todo>>,
             pc[p] \notin {"idle", "sweep"}
      PROVE  MemoryInv'
  <2>1. CopyFits(l, op[p], item[p], row[p])
    BY <1>1, <1>4 DEF CopyFits
  <2> QED BY <1>2, <1>4, <2>1, Goes
<1>5. CASE FindConflicts(p) \/ MarkConflict(p) \/ Consider(p)
  BY <1>3, <1>4, <1>5 DEF FindConflicts, MarkConflict, AfterConflicts, Consider
<1>6. CASE CountTask(p)
  <2>1. CopyFits("countDay", op[p], item[p], row[p])
    BY <1>1, <1>6 DEF CountTask, CopyFits
  <2> QED BY <1>2, <1>3, <1>6, <2>1, Goes DEF CountTask
<1>7. CASE CountDay(p)
  <2>1. CASE Return(p)
    BY <1>3, <2>1
  <2>2. CASE Goto(p, "read") /\ op' = [op EXCEPT ![p] = "auto"] /\ UNCHANGED <<item, row, todo>>
    <3>1. CopyFits("read", "auto", item[p], row[p])
      BY <1>1, <1>7 DEF CountDay, CopyFits
    <3>2. /\ pc'[p] = "read" /\ op'[p] = "auto" /\ item'[p] = item[p] /\ row'[p] = row[p]
          /\ todo'[p] = todo[p] /\ OthersStand(p)
      BY <1>1, <2>2 DEF Goto, LocalTypes, OthersStand
    <3> QED BY <1>1, <1>2, <3>1, <3>2, LocalSteps
  <2> QED BY <1>7, <2>1, <2>2 DEF CountDay
<1>8. CASE ReadProposal(p)
  <2>1. PICK r, l : r = items[item[p]] /\ l = IF r.approval = None THEN "ask" ELSE "decide"
    OBVIOUS
  <2>2. CASE Return(p)
    BY <1>3, <2>2
  <2>3. CASE r.status = "proposed" /\ row' = [row EXCEPT ![p] = r] /\ Goto(p, l) /\ UNCHANGED <<op, item, todo>>
    <3>1. item[p] \in MemoryId /\ IsAbout(r.approval, item[p])
      BY <1>1, <1>8, <2>1 DEF ReadProposal, MemoryInv, ItemsLinked
    <3>2. CopyFits(l, op[p], item[p], r)
      BY <2>1, <2>3, <3>1 DEF CopyFits
    <3>3. /\ pc'[p] = l /\ op'[p] = op[p] /\ item'[p] = item[p] /\ row'[p] = r
          /\ todo'[p] = todo[p] /\ OthersStand(p)
      BY <1>1, <2>3 DEF Goto, LocalTypes, OthersStand
    <3> QED BY <1>1, <1>2, <3>2, <3>3, LocalSteps
  <2> QED BY <1>8, <2>1, <2>2, <2>3 DEF ReadProposal
<1>9. CASE CheckDecision(p)
  <2>1. PICK r : r = [items[item[p]] EXCEPT !.status = IF Approves(p) THEN "active" ELSE "rejected"]
    OBVIOUS
  <2>2. CASE Return(p)
    BY <1>3, <2>2
  <2>3. CASE /\ items[item[p]].approval = row[p].approval
             /\ row' = [row EXCEPT ![p] = r] /\ Goto(p, "settle") /\ UNCHANGED <<op, item, todo>>
    <3>1. item[p] \in MemoryId /\ items[item[p]] \in ItemRow /\ row[p].approval # None
      BY <1>1, <1>9 DEF CheckDecision, CopyFits, MemoryInv, TypeOK
    <3>2. r.status = (IF op[p] \in {"approve", "auto"} THEN "active" ELSE "rejected")
          /\ r.approval = row[p].approval
      BY <2>1, <2>3, <3>1 DEF ItemRow, Approves
    <3>3. CopyFits("settle", op[p], item[p], r)
      <4>1. IsAbout(r.approval, item[p])
        BY <1>1, <3>2 DEF CopyFits
      <4> QED BY <3>1, <3>2, <4>1 DEF CopyFits
    <3>4. /\ pc'[p] = "settle" /\ op'[p] = op[p] /\ item'[p] = item[p] /\ row'[p] = r
          /\ todo'[p] = todo[p] /\ OthersStand(p)
      BY <1>1, <2>3 DEF Goto, LocalTypes, OthersStand
    <3> QED BY <1>1, <1>2, <3>3, <3>4, LocalSteps
  <2> QED BY <1>9, <2>1, <2>2, <2>3 DEF CheckDecision
<1>10. CASE RecordActivation(p)
  BY <1>3, <1>10 DEF RecordActivation
<1> QED BY <1>5, <1>6, <1>7, <1>8, <1>9, <1>10

LEMMA SweepingSteps ==
    ASSUME MemoryInv, TypeOK', NEW p \in Proc, SweepNext(p) \/ SweepDone(p) \/ ReadAgain(p)
    PROVE  MemoryInv'
<1>1. /\ CopyFits(pc[p], op[p], item[p], row[p]) /\ ListFits(todo[p]) /\ LocalTypes
      /\ (pc[p] \notin {"idle", "sweep"} => item[p] \in MemoryId)
  BY CopyOf
<1>2. UNCHANGED <<items, approvals>>
  BY DEF SweepNext, SweepDone, ReadAgain, store
<1>3. CASE SweepNext(p)
  <2>1. todo[p] \subseteq ListRow /\ todo[p] # {} /\ \A u \in todo[p] : u.item \in Nat
    BY <1>1, <1>3, MemoryConstantsAssumption DEF SweepNext, LocalTypes, ListRow
  <2>2. PICK t : t = FirstOf(todo[p])
    OBVIOUS
  <2>3. t \in todo[p] /\ t \in ListRow /\ t.item \in MemoryId
    BY <2>1, <2>2, FirstOfList DEF ListRow
  <2>4. PICK r, l : /\ r = [AbsentItem EXCEPT !.status = t.status, !.approval = t.approval]
                    /\ l = IF Linked(t) THEN "expire" ELSE "again"
    OBVIOUS
  <2>5. r.approval = t.approval /\ IsAbout(t.approval, t.item)
    BY <1>1, <2>3, <2>4 DEF AbsentItem, ListFits
  <2>6. CopyFits(l, op[p], t.item, r)
    BY <1>1, <1>3, <2>3, <2>4, <2>5 DEF SweepNext, CopyFits, Linked
  <2>7. /\ pc'[p] = l /\ op'[p] = op[p] /\ item'[p] = t.item /\ row'[p] = r
        /\ todo'[p] = todo[p] \ {t} /\ OthersStand(p)
    BY <1>1, <1>3, <2>2, <2>4 DEF SweepNext, Goto, LocalTypes, OthersStand
  <2>8. ListFits(todo[p] \ {t})
    BY <1>1 DEF ListFits
  <2> QED BY <1>2, <2>6, <2>7, <2>8, LocalSteps
<1>4. CASE SweepDone(p)
  BY <1>2, <1>4, Returns DEF SweepDone
<1>5. CASE ReadAgain(p)
  <2>1. PICK r : r = items[item[p]]
    OBVIOUS
  <2>2. CASE Return(p)
    BY <1>2, <2>2, Returns
  <2>3. CASE /\ Known(item[p]) /\ "expired" \in LegalTransitions[r.status]
             /\ row' = [row EXCEPT ![p] = r] /\ Goto(p, "retire") /\ UNCHANGED <<op, item, todo>>
    <3>1. item[p] \in MemoryId /\ IsAbout(r.approval, item[p]) /\ r.status \in Stored
      BY <1>1, <1>5, <2>1, <2>3 DEF ReadAgain, Known, MemoryInv, ItemsLinked
    <3>2. IsCopy(item[p], r)
      BY <2>1, <3>1, Ranks DEF IsCopy
    <3>3. CopyFits("retire", op[p], item[p], r)
      BY <1>1, <1>5, <2>3, <3>1, <3>2 DEF ReadAgain, CopyFits
    <3>4. /\ pc'[p] = "retire" /\ op'[p] = op[p] /\ item'[p] = item[p] /\ row'[p] = r
          /\ todo'[p] = todo[p] /\ OthersStand(p)
      BY <1>1, <2>3 DEF Goto, LocalTypes, OthersStand
    <3> QED BY <1>1, <1>2, <3>3, <3>4, LocalSteps
  <2> QED BY <1>5, <2>1, <2>2, <2>3 DEF ReadAgain
<1> QED BY <1>3, <1>4, <1>5

-----------------------------------------------------------------------------
(* The steps that write.                                                   *)

(* Row r of an item goes with the outcome of its approval a.               *)
Agrees(a, status, r) ==
    \/ r.status = "purged"
    \/ /\ r.approval = a
       /\ r.status \in IF status = "approved" THEN {"active", "superseded", "expired", "deleted"}
                       ELSE {"rejected", "expired", "deleted"}

Final == {"approved", "rejected"}

(* Only item m and only approvals for it were written.                     *)
WritesOf(m) ==
    /\ \A n \in MemoryId \ {m} : items'[n] = items[n]
    /\ \A a \in ApprovalId : approvals'[a] = approvals[a] \/ approvals'[a].subject = m
    /\ \A a \in ApprovalId : approvals[a].status # "absent" =>
          approvals'[a].status # "absent" /\ approvals'[a].subject = approvals[a].subject

LEMMA WritesAgree ==
    ASSUME MemoryInv, NEW m \in MemoryId, WritesOf(m),
           \A a \in ApprovalId : approvals'[a].status \in Final /\ approvals'[a].subject = m =>
               Agrees(a, approvals'[a].status, items'[m])
    PROVE  DecisionsAgree'
<1> SUFFICES ASSUME NEW a \in ApprovalId, approvals'[a].status \in Final
             PROVE  Agrees(a, approvals'[a].status, items'[approvals'[a].subject])
  BY DEF DecisionsAgree, Agrees, Final
<1>1. CASE approvals'[a].subject = m
  BY <1>1
<1>2. CASE approvals'[a].subject # m
  <2>1. approvals'[a] = approvals[a]
    BY <1>2 DEF WritesOf
  <2>2. approvals[a].subject \in MemoryId
    BY <2>1 DEF MemoryInv, SubjectsKnown, Final
  <2>3. Agrees(a, approvals[a].status, items[approvals[a].subject])
    BY <2>1 DEF MemoryInv, DecisionsAgree, Agrees, Final
  <2> QED BY <1>2, <2>1, <2>2, <2>3 DEF WritesOf
<1> QED BY <1>1, <1>2

(* While an item may still be proposed, nothing about it is decided.       *)
LEMMA OpenIsUndecided ==
    ASSUME MemoryInv, NEW m \in MemoryId, Rank(items[m].status) < 2,
           NEW a \in ApprovalId, approvals[a].status \in Final
    PROVE  approvals[a].subject # m
<1> SUFFICES ASSUME approvals[a].subject = m PROVE FALSE
  OBVIOUS
<1>1. items[m].status \in {"purged", "active", "superseded", "expired", "deleted", "rejected"}
  BY DEF MemoryInv, DecisionsAgree, Final
<1>2. items[m].status \in Stored \cup {"absent", "purged"}
  BY DEF MemoryInv, TypeOK, ItemRow
<1> QED BY <1>1, <1>2, Ranks

LEMMA ForwardWith ==
    ASSUME NEW m \in MemoryId, WritesOf(m),
           \/ items'[m] = items[m]
           \/ Rank(items[m].status) < Rank(items'[m].status)
           \/ items[m].status = "proposed" /\ items'[m].status = "proposed"
    PROVE  Forward
BY DEF WritesOf, Forward

(* A step of a process that writes one item, and approvals for it.         *)
LEMMA WritingSteps ==
    ASSUME MemoryInv, TypeOK', NEW m \in MemoryId, WritesOf(m), Forward,
           \A a \in ApprovalId : approvals'[a].status \in Final /\ approvals'[a].subject = m =>
               Agrees(a, approvals'[a].status, items'[m]),
           NEW b \in ApprovalId \cup {None}, IsAbout(b, m), items'[m].approval \in {items[m].approval, b},
           NEW p \in Proc, OthersStand(p), CopyFits(pc[p], op[p], item[p], row[p])', ListFits(todo[p])'
    PROVE  MemoryInv'
<1>1. DecisionsAgree'
  BY WritesAgree
<1>2. ASSUME NEW n \in MemoryId, items'[n].approval # items[n].approval
      PROVE  IsAbout(items[n].approval, n)'
  <2>1. n = m /\ items'[n].approval = b
    BY <1>2 DEF WritesOf
  <2>2. IsAbout(b, m)'
    BY AboutStays
  <2> QED BY <2>1, <2>2
<1>3. ASSUME NEW a \in ApprovalId, approvals[a].status = "absent", approvals'[a].status # "absent"
      PROVE  approvals'[a].subject \in MemoryId
  BY <1>3 DEF WritesOf
<1> QED BY <1>1, <1>2, <1>3, ProcessSteps

(* No approval was written: what is decided stays true of the item as long *)
(* as it was open, or keeps its approval and goes where the decision says. *)
LEMMA MovesAgree ==
    ASSUME MemoryInv, NEW m \in MemoryId, UNCHANGED approvals,
           \/ Rank(items[m].status) < 2
           \/ items'[m].status = "purged"
           \/ /\ items[m].status # "purged" /\ items'[m].approval = items[m].approval
              /\ \/ items'[m].status \in {"expired", "deleted"}
                 \/ items[m].status = "active" /\ items'[m].status = "superseded",
           NEW a \in ApprovalId, approvals'[a].status \in Final, approvals'[a].subject = m
    PROVE  Agrees(a, approvals'[a].status, items'[m])
<1>1. approvals[a].status \in Final /\ approvals[a].subject = m
  OBVIOUS
<1>2. Rank(items[m].status) < 2 => FALSE
  BY <1>1, OpenIsUndecided
<1>3. Agrees(a, approvals[a].status, items[m])
  BY <1>1 DEF MemoryInv, DecisionsAgree, Agrees, Final
<1> QED BY <1>2, <1>3 DEF Agrees

LEMMA Proposals ==
    ASSUME MemoryInv, TypeOK', NEW p \in Proc, NEW m \in MemoryId, NEW status \in {"proposed", "observed"},
           Propose(p, m, status)
    PROVE  MemoryInv'
<1>1. PICK r : r = [AbsentItem EXCEPT !.status = status]
  OBVIOUS
<1>2. r.status = status /\ r.approval = None /\ LocalTypes /\ StoreTypes /\ ListFits(todo[p])
  BY <1>1, AbsentItemTyped, StatusTyped, Statuses, CopyOf
<1>3. items' = [items EXCEPT ![m] = r] /\ items'[m] = r /\ UNCHANGED approvals /\ items[m].status = "absent"
  BY <1>1, <1>2 DEF Propose, SetItem, StoreTypes
<1>4. WritesOf(m)
  BY <1>2, <1>3 DEF WritesOf, StoreTypes
<1>5. Rank(items[m].status) = 0 /\ Rank(r.status) = 1
  BY <1>2, <1>3, Ranks, Statuses
<1>6. Forward
  BY <1>3, <1>4, <1>5, ForwardWith
<1>7. \A a \in ApprovalId : approvals'[a].status \in Final /\ approvals'[a].subject = m =>
          Agrees(a, approvals'[a].status, items'[m])
  BY <1>3, <1>5, MovesAgree
<1>8. /\ pc'[p] = "conflicts" /\ op'[p] = "propose" /\ item'[p] = m /\ row'[p] = r
      /\ todo'[p] = todo[p] /\ OthersStand(p)
  BY <1>1, <1>2 DEF Propose, Begin, Goto, LocalTypes, OthersStand
<1>9. CopyFits("conflicts", "propose", m, r)' /\ ListFits(todo[p])'
  <2>1. CopyFits("conflicts", "propose", m, r)'
    BY <1>2 DEF CopyFits, IsAbout
  <2>2. todo[p] \in SUBSET ListRow
    BY <1>2 DEF LocalTypes
  <2>3. PICK list : list = todo[p]
    OBVIOUS
  <2>4. ListFits(list)'
    BY <1>2, <1>6, <2>2, <2>3, ListStays
  <2> QED BY <1>8, <2>1, <2>3, <2>4
<1> QED BY <1>2, <1>3, <1>4, <1>6, <1>7, <1>8, <1>9, WritingSteps DEF IsAbout

(* After a write the process is idle, or goes on with its copy.            *)
LEMMA ReturnedFits ==
    ASSUME LocalTypes, NEW p \in Proc, Return(p)
    PROVE  OthersStand(p) /\ CopyFits(pc[p], op[p], item[p], row[p])' /\ ListFits(todo[p])'
BY Returned, IdleFits

LEMMA WentOnFits ==
    ASSUME MemoryInv, TypeOK', Forward, NEW p \in Proc, NEW l \in {"sweep", "decide", "record"}, Goto(p, l),
           UNCHANGED <<op, item, row, todo>>, pc[p] \notin {"idle", "sweep"},
           l = "decide" => pc[p] = "link", l = "record" => op[p] = "auto",
           l = "sweep" => pc[p] \in {"expire", "retire"}
    PROVE  OthersStand(p) /\ CopyFits(pc[p], op[p], item[p], row[p])' /\ ListFits(todo[p])'
<1>1. /\ CopyFits(pc[p], op[p], item[p], row[p]) /\ row[p] \in ItemRow /\ ListFits(todo[p])
      /\ LocalTypes /\ item[p] \in MemoryId /\ TypeOK /\ todo[p] \in SUBSET ListRow
  BY CopyOf DEF MemoryInv, LocalTypes
<1>2. PICK o, m, r, list : o = op[p] /\ m = item[p] /\ r = row[p] /\ list = todo[p]
  OBVIOUS
<1>3. CopyFits(l, o, m, r)
  BY <1>1, <1>2 DEF CopyFits
<1>4. CopyFits(l, o, m, r)' /\ ListFits(list)'
  BY <1>1, <1>2, <1>3, FitsStays, ListStays
<1>5. OthersStand(p) /\ pc'[p] = l /\ op'[p] = o /\ item'[p] = m /\ row'[p] = r /\ todo'[p] = list
  BY <1>1, <1>2, Went
<1> QED BY <1>4, <1>5

LEMMA Purges ==
    ASSUME MemoryInv, TypeOK', NEW p \in Proc, NEW m \in MemoryId, Purge(p, m)
    PROVE  MemoryInv'
<1>1. PICK r : r = [AbsentItem EXCEPT !.status = "purged"]
  OBVIOUS
<1>2. r.status = "purged" /\ r.approval = None /\ LocalTypes /\ StoreTypes
  BY <1>1, AbsentItemTyped, StatusTyped, CopyOf
<1>3. items' = [items EXCEPT ![m] = r] /\ items'[m] = r /\ UNCHANGED approvals /\ items[m].status \in Stored
  BY <1>1, <1>2 DEF Purge, SetItem, StoreTypes, Known
<1>4. WritesOf(m)
  BY <1>2, <1>3 DEF WritesOf, StoreTypes
<1>5. Rank(items[m].status) < Rank(r.status)
  BY <1>2, <1>3, Ranks, Statuses
<1>6. Forward
  BY <1>3, <1>4, <1>5, ForwardWith
<1>7. \A a \in ApprovalId : approvals'[a].status \in Final /\ approvals'[a].subject = m =>
          Agrees(a, approvals'[a].status, items'[m])
  BY <1>2, <1>3 DEF Agrees
<1>8. CopyFits(pc[p], op[p], item[p], row[p])' /\ ListFits(todo[p])' /\ OthersStand(p)
  <2>1. PICK l, o, n, s, list : l = pc[p] /\ o = op[p] /\ n = item[p] /\ s = row[p] /\ list = todo[p]
    OBVIOUS
  <2>2. CopyFits(l, o, n, s) /\ s \in ItemRow /\ ListFits(list) /\ list \in SUBSET ListRow /\ TypeOK
    BY <2>1, CopyOf DEF LocalTypes, MemoryInv
  <2>3. CopyFits(l, o, n, s)' /\ ListFits(list)'
    BY <1>6, <2>2, FitsStays, ListStays
  <2> QED BY <2>1, <2>3 DEF Purge, locals, OthersStand
<1> QED BY <1>2, <1>3, <1>4, <1>6, <1>7, <1>8, WritingSteps DEF IsAbout

LEMMA Asks ==
    ASSUME MemoryInv, TypeOK', NEW p \in Proc, AskApproval(p)
    PROVE  MemoryInv'
<1>1. PICK a, m, r : a = NextFresh /\ m = item[p] /\ r = [row[p] EXCEPT !.approval = a]
  OBVIOUS
<1>2. /\ m \in MemoryId /\ StoreTypes /\ LocalTypes /\ row[p] \in ItemRow /\ ListFits(todo[p])
      /\ a \in ApprovalId /\ approvals[a].status = "absent"
  BY <1>1, CopyOf, FreshOne DEF AskApproval
<1>3. row[p].status = "proposed"
  BY CopyOf DEF AskApproval, CopyFits
<1>4. r.status = "proposed" /\ r.approval = a /\ a # None
  BY <1>1, <1>2, <1>3, MemoryConstantsAssumption DEF ItemRow
<1>5. /\ approvals' = [approvals EXCEPT ![a] = [status |-> "pending", subject |-> m]] /\ UNCHANGED items
      /\ approvals'[a].status = "pending" /\ approvals'[a].subject = m
  BY <1>1, <1>2 DEF AskApproval, StoreTypes
<1>6. WritesOf(m)
  <2> SUFFICES ASSUME NEW b \in ApprovalId
               PROVE  /\ approvals'[b] = approvals[b] \/ approvals'[b].subject = m
                      /\ approvals[b].status # "absent" => approvals'[b] = approvals[b]
    BY <1>5 DEF WritesOf
  <2>1. b # a => approvals'[b] = approvals[b]
    BY <1>2, <1>5 DEF StoreTypes
  <2> QED BY <1>2, <1>5, <2>1
<1>7. Forward
  BY <1>2, <1>5, <1>6, ForwardWith
<1>8. ASSUME NEW b \in ApprovalId, approvals'[b].status \in Final, approvals'[b].subject = m
      PROVE  Agrees(b, approvals'[b].status, items'[m])
  <2>1. approvals'[b] = approvals[b]
    BY <1>2, <1>5, <1>8 DEF StoreTypes, Final
  <2> QED BY <1>5, <1>8, <2>1 DEF MemoryInv, DecisionsAgree, Agrees, Final
<1>9. /\ pc'[p] = "link" /\ op'[p] = op[p] /\ item'[p] = m /\ row'[p] = r /\ todo'[p] = todo[p] /\ OthersStand(p)
  BY <1>1, <1>2 DEF AskApproval, Goto, LocalTypes, OthersStand
<1>10. CopyFits("link", op[p], m, r)'
  <2>1. IsAbout(a, m)'
    BY <1>5 DEF IsAbout
  <2> QED BY <1>2, <1>4, <2>1 DEF CopyFits
<1>11. ListFits(todo[p])'
  <2>1. PICK list : list = todo[p]
    OBVIOUS
  <2>2. ListFits(list)'
    BY <1>2, <1>7, <2>1, ListStays DEF LocalTypes
  <2> QED BY <1>9, <2>1, <2>2
<1>12. CopyFits(pc[p], op[p], item[p], row[p])'
  <2>1. PICK o : o = op[p]
    OBVIOUS
  <2> QED BY <1>9, <1>10, <2>1
<1> QED BY <1>2, <1>5, <1>6, <1>7, <1>8, <1>9, <1>11, <1>12, WritingSteps DEF IsAbout

(* One item was written, with value r, and no approval.                    *)
LEMMA ItemWritten ==
    ASSUME StoreTypes, NEW m \in MemoryId, NEW r, items' = [items EXCEPT ![m] = r], UNCHANGED approvals
    PROVE  WritesOf(m) /\ items'[m] = r
BY DEF StoreTypes, WritesOf

LEMMA Links ==
    ASSUME MemoryInv, TypeOK', NEW p \in Proc, LinkApproval(p)
    PROVE  MemoryInv'
<1>1. PICK m, r : m = item[p] /\ r = row[p]
  OBVIOUS
<1>2. /\ m \in MemoryId /\ StoreTypes /\ LocalTypes /\ r \in ItemRow /\ IsAbout(r.approval, m)
      /\ r.status = "proposed" /\ r.approval \in ApprovalId \cup {None}
  BY <1>1, CopyOf DEF LinkApproval, CopyFits, ItemRow
<1>3. CASE ~Matches(m, {"proposed"})
  BY <1>1, <1>3, Returns DEF LinkApproval
<1>4. CASE Matches(m, {"proposed"})
  <2>1. items' = [items EXCEPT ![m] = r] /\ UNCHANGED approvals /\ items[m].status = "proposed"
    BY <1>1, <1>4 DEF LinkApproval, SetItem, Matches
  <2>2. WritesOf(m) /\ items'[m] = r
    BY <1>2, <2>1, ItemWritten
  <2>3. Forward
    BY <1>2, <2>1, <2>2, ForwardWith
  <2>4. Rank(items[m].status) < 2
    BY <2>1, Statuses DEF Rank
  <2>5. \A a \in ApprovalId : approvals'[a].status \in Final /\ approvals'[a].subject = m =>
            Agrees(a, approvals'[a].status, items'[m])
    BY <1>2, <2>1, <2>4, MovesAgree
  <2>6. OthersStand(p) /\ CopyFits(pc[p], op[p], item[p], row[p])' /\ ListFits(todo[p])'
    <3>1. CASE Return(p)
      BY <1>2, <3>1, ReturnedFits
    <3>2. CASE Goto(p, "decide") /\ UNCHANGED <<op, item, row, todo>>
      BY <2>3, <3>2, WentOnFits DEF LinkApproval
    <3> QED BY <1>1, <1>4, <3>1, <3>2 DEF LinkApproval
  <2> QED BY <1>2, <2>2, <2>3, <2>5, <2>6, WritingSteps
<1> QED BY <1>3, <1>4

(* The item and its approval a are written together.                       *)
Settles(m, a, decision, r) ==
    /\ approvals[a].status = "pending" /\ approvals[a].subject = m /\ items[m].status = "proposed"
    /\ approvals' = [approvals EXCEPT ![a].status = decision]
    /\ items' = [items EXCEPT ![m] = r]
    /\ r.approval = a
    /\ r.status \in IF decision = "approved" THEN {"active"} ELSE {"rejected", "expired"}

(* The item alone is written, and goes forward.                            *)
Moves(m, r) ==
    /\ UNCHANGED approvals
    /\ items' = [items EXCEPT ![m] = r]
    /\ Rank(items[m].status) < Rank(r.status) /\ items[m].status \in Stored
    /\ \/ r.status \in {"expired", "deleted"}
       \/ items[m].status = "active" /\ r.status = "superseded"
    /\ items[m].status = "proposed" \/ r.approval = items[m].approval

LEMMA SettlesSettle ==
    ASSUME MemoryInv, NEW p \in Proc, Settle(p) \/ ExpireLinked(p),
           BothMatch(row[p].approval, item[p])
    PROVE  \E r \in ItemRow, decision \in Final : Settles(item[p], row[p].approval, decision, r)
<1>1. /\ CopyFits(pc[p], op[p], item[p], row[p]) /\ row[p] \in ItemRow
      /\ item[p] \in MemoryId /\ StoreTypes /\ LocalTypes
  BY CopyOf DEF Settle, ExpireLinked
<1>2. PICK m, a, r : m = item[p] /\ a = row[p].approval /\ r = row[p]
  OBVIOUS
<1>3. approvals[a].status = "pending" /\ items[m].status = "proposed"
  BY <1>2 DEF BothMatch, Matches
<1>4. a # None /\ a \in ApprovalId /\ IsAbout(a, m)
  BY <1>1, <1>2 DEF Settle, ExpireLinked, CopyFits, ItemRow
<1>5. approvals[a].subject = m
  BY <1>4 DEF IsAbout
<1>6. CASE Settle(p)
  <2>1. approvals' = [approvals EXCEPT ![a].status = Decision(p)] /\ items' = [items EXCEPT ![m] = r]
    BY <1>2, <1>6 DEF Settle, TransitionApproval, SetItem
  <2>2. r.status = IF Decision(p) = "approved" THEN "active" ELSE "rejected"
    BY <1>1, <1>2, <1>6 DEF Settle, CopyFits, Decision, Approves
  <2>3. Decision(p) \in Final
    BY DEF Decision, Final
  <2>4. Settles(m, a, Decision(p), r)
    BY <1>2, <1>3, <1>5, <2>1, <2>2 DEF Settles
  <2> QED BY <1>1, <1>2, <2>3, <2>4
<1>7. CASE ExpireLinked(p)
  <2>1. PICK s : s = [r EXCEPT !.status = "expired"]
    OBVIOUS
  <2>2. s \in ItemRow /\ s.status = "expired" /\ s.approval = a
    <3>1. r \in ItemRow /\ r.approval = a
      BY <1>1, <1>2
    <3>2. "expired" \in Stored
      BY Statuses
    <3> QED BY <2>1, <3>1, <3>2, StatusTyped
  <2>3. approvals' = [approvals EXCEPT ![a].status = "rejected"] /\ items' = [items EXCEPT ![m] = s]
    BY <1>2, <1>7, <2>1 DEF ExpireLinked, TransitionApproval, SetItem
  <2>4. Settles(m, a, "rejected", s)
    BY <1>3, <1>5, <2>2, <2>3 DEF Settles
  <2> QED BY <1>2, <2>2, <2>4 DEF Final
<1> QED BY <1>6, <1>7

LEMMA MovesMove ==
    ASSUME MemoryInv, NEW p \in Proc, Move(p) \/ SupersedeOld(p) \/ ExpireUnlinked(p),
           items' # items
    PROVE  \E r \in ItemRow : Moves(item[p], r) /\ r.approval = row[p].approval
<1>1. /\ CopyFits(pc[p], op[p], item[p], row[p]) /\ row[p] \in ItemRow
      /\ item[p] \in MemoryId /\ StoreTypes /\ LocalTypes
  BY CopyOf DEF Move, SupersedeOld, ExpireUnlinked
<1>2. PICK m, r, o : m = item[p] /\ r = row[p] /\ o = op[p]
  OBVIOUS
<1>3. IsCopy(m, r) /\ r.status \in Stored
  BY <1>1, <1>2 DEF CopyFits, IsCopy, Move, SupersedeOld, ExpireUnlinked
<1>4. PICK status : status = IF Move(p) THEN o ELSE IF SupersedeOld(p) THEN "superseded" ELSE "expired"
  OBVIOUS
<1>5. /\ \/ status \in {"expired", "deleted"} /\ status \in LegalTransitions[r.status]
         \/ status = "superseded" /\ r.status = "active"
      /\ items[m].status = r.status
      /\ items' = [items EXCEPT ![m] = [r EXCEPT !.status = status]]
  <2>1. CASE Move(p)
    BY <1>1, <1>2, <1>4, <2>1 DEF Move, CopyFits, Matches
  <2>2. CASE SupersedeOld(p)
    <3>1. status = "superseded"
      BY <1>4, <2>2 DEF Move, SupersedeOld
    <3> QED BY <1>1, <1>2, <2>2, <3>1 DEF SupersedeOld, CopyFits, Matches
  <2>3. CASE ExpireUnlinked(p)
    <3>1. status = "expired"
      BY <1>4, <2>3 DEF Move, SupersedeOld, ExpireUnlinked
    <3> QED BY <1>1, <1>2, <2>3, <3>1 DEF ExpireUnlinked, CopyFits, Matches, SetItem
  <2> QED BY <2>1, <2>2, <2>3
<1>6. PICK s : s = [r EXCEPT !.status = status]
  OBVIOUS
<1>7. s \in ItemRow /\ s.status = status /\ s.approval = r.approval
  <2>1. r \in ItemRow
    BY <1>1, <1>2
  <2>2. status \in Stored
    BY <1>5, Statuses
  <2> QED BY <1>6, <2>1, <2>2, StatusTyped
<1>8. Rank(r.status) < Rank(status)
  <2>1. status = "expired" => r.status \in {"observed", "proposed", "active"}
    BY <1>3, <1>5, Statuses
  <2>2. status = "deleted" => r.status # "deleted"
    BY <1>3, <1>5, Statuses
  <2> QED BY <1>3, <1>5, <2>1, <2>2, Statuses DEF Rank
<1>9. items[m].status = "proposed" \/ s.approval = items[m].approval
  BY <1>3, <1>5, <1>7 DEF IsCopy
<1>10. UNCHANGED approvals
  BY DEF Move, SupersedeOld, ExpireUnlinked
<1>11. Moves(m, s)
  BY <1>3, <1>5, <1>6, <1>7, <1>8, <1>9, <1>10 DEF Moves
<1> QED BY <1>2, <1>7, <1>11

LEMMA SettlingSteps ==
    ASSUME MemoryInv, TypeOK', NEW p \in Proc, Settle(p) \/ ExpireLinked(p)
    PROVE  MemoryInv'
<1>1. /\ CopyFits(pc[p], op[p], item[p], row[p]) /\ row[p] \in ItemRow
      /\ item[p] \in MemoryId /\ StoreTypes /\ LocalTypes
  BY CopyOf DEF Settle, ExpireLinked
<1>2. PICK m, a : m = item[p] /\ a = row[p].approval
  OBVIOUS
<1>3. a \in ApprovalId /\ IsAbout(a, m) /\ m \in MemoryId
  BY <1>1, <1>2 DEF Settle, ExpireLinked, CopyFits, ItemRow
<1>4. ASSUME Forward PROVE OthersStand(p) /\ CopyFits(pc[p], op[p], item[p], row[p])' /\ ListFits(todo[p])'
  <2>1. CASE Return(p)
    BY <1>1, <2>1, ReturnedFits
  <2>2. CASE Settle(p) /\ op[p] = "auto" /\ Goto(p, "record") /\ UNCHANGED <<op, item, row, todo>>
    BY <1>4, <2>2, WentOnFits DEF Settle
  <2>3. CASE ExpireLinked(p)
    BY <1>4, <2>3, WentOnFits DEF ExpireLinked
  <2> QED BY <2>1, <2>2, <2>3 DEF Settle
<1>5. CASE ~BothMatch(a, m)
  <2>1. UNCHANGED <<items, approvals>>
    BY <1>2, <1>5 DEF Settle, ExpireLinked
  <2>2. Forward /\ DecisionsAgree'
    BY <2>1, SameRows DEF MemoryInv
  <2>3. \A n \in MemoryId : items'[n].approval # items[n].approval => IsAbout(items[n].approval, n)'
    BY <2>1
  <2> QED BY <1>4, <2>1, <2>2, <2>3, ProcessSteps
<1>6. CASE BothMatch(a, m)
  <2>1. PICK r \in ItemRow, decision \in Final : Settles(m, a, decision, r)
    BY <1>2, <1>6, SettlesSettle
  <2>2. /\ \A n \in MemoryId \ {m} : items'[n] = items[n]
        /\ items'[m] = r
        /\ \A b \in ApprovalId \ {a} : approvals'[b] = approvals[b]
        /\ approvals'[a].status = decision /\ approvals'[a].subject = m
    BY <1>1, <1>3, <2>1 DEF Settles, StoreTypes, ApprovalRow
  <2>3. WritesOf(m)
    BY <2>1, <2>2 DEF WritesOf, Settles, Final
  <2>4. Rank(items[m].status) = 1 /\ Rank(r.status) > 1
    BY <2>1, Statuses DEF Settles, Rank
  <2>5. Forward
    BY <1>3, <2>2, <2>3, <2>4, ForwardWith
  <2>6. ASSUME NEW b \in ApprovalId, approvals'[b].status \in Final, approvals'[b].subject = m
        PROVE  Agrees(b, approvals'[b].status, items'[m])
    <3>1. b = a
      BY <1>3, <2>2, <2>4, <2>6, OpenIsUndecided
    <3> QED BY <2>1, <2>2, <3>1 DEF Agrees, Settles, Final
  <2>7. items'[m].approval = a
    BY <2>1, <2>2 DEF Settles
  <2> QED BY <1>3, <1>4, <2>3, <2>5, <2>6, <2>7, WritingSteps
<1> QED BY <1>5, <1>6

LEMMA MovingSteps ==
    ASSUME MemoryInv, TypeOK', NEW p \in Proc, Move(p) \/ SupersedeOld(p) \/ ExpireUnlinked(p)
    PROVE  MemoryInv'
<1>1. /\ CopyFits(pc[p], op[p], item[p], row[p]) /\ row[p] \in ItemRow
      /\ item[p] \in MemoryId /\ StoreTypes /\ LocalTypes
  BY CopyOf DEF Move, SupersedeOld, ExpireUnlinked
<1>2. PICK m, a : m = item[p] /\ a = row[p].approval
  OBVIOUS
<1>3. a \in ApprovalId \cup {None} /\ IsAbout(a, m) /\ m \in MemoryId
  BY <1>1, <1>2 DEF CopyFits, ItemRow
<1>4. ASSUME Forward PROVE OthersStand(p) /\ CopyFits(pc[p], op[p], item[p], row[p])' /\ ListFits(todo[p])'
  <2>1. CASE Return(p)
    BY <1>1, <2>1, ReturnedFits
  <2>2. CASE Goto(p, "sweep") /\ UNCHANGED <<op, item, row, todo>> /\ pc[p] = "retire"
    BY <1>4, <2>2, WentOnFits
  <2> QED BY <2>1, <2>2 DEF Move, SupersedeOld, ExpireUnlinked
<1>5. CASE items' = items
  <2>1. UNCHANGED <<items, approvals>>
    BY <1>5 DEF Move, SupersedeOld, ExpireUnlinked
  <2>2. Forward /\ DecisionsAgree'
    BY <2>1, SameRows DEF MemoryInv
  <2>3. \A n \in MemoryId : items'[n].approval # items[n].approval => IsAbout(items[n].approval, n)'
    BY <2>1
  <2> QED BY <1>4, <2>1, <2>2, <2>3, ProcessSteps
<1>6. CASE items' # items
  <2>1. PICK r \in ItemRow : Moves(m, r) /\ r.approval = a
    BY <1>2, <1>6, MovesMove
  <2>2. WritesOf(m) /\ items'[m] = r
    BY <1>1, <1>3, <2>1, ItemWritten DEF Moves
  <2>3. Forward
    BY <1>3, <2>1, <2>2, ForwardWith DEF Moves
  <2>4. \/ Rank(items[m].status) < 2
        \/ /\ items[m].status # "purged" /\ items'[m].approval = items[m].approval
           /\ \/ items'[m].status \in {"expired", "deleted"}
              \/ items[m].status = "active" /\ items'[m].status = "superseded"
    <3>1. items[m].status \in Stored
      BY <2>1 DEF Moves
    <3>2. items[m].status # "purged" /\ (items[m].status = "proposed" => Rank(items[m].status) < 2)
      BY <3>1, Statuses DEF Rank
    <3> QED BY <2>1, <2>2, <3>2 DEF Moves
  <2>5. \A b \in ApprovalId : approvals'[b].status \in Final /\ approvals'[b].subject = m =>
            Agrees(b, approvals'[b].status, items'[m])
    BY <1>3, <2>1, <2>4, MovesAgree DEF Moves
  <2> QED BY <1>3, <1>4, <2>1, <2>2, <2>3, <2>5, WritingSteps
<1> QED BY <1>5, <1>6

-----------------------------------------------------------------------------
(* The invariant.                                                          *)

LEMMA MemoryStarts == Init => MemoryInv
<1> SUFFICES ASSUME Init PROVE MemoryInv
  OBVIOUS
<1>1. TypeOK
  BY AbsentItemTyped DEF Init, TypeOK, ApprovalRow, Label, Method
<1>2. ItemsLinked /\ SubjectsKnown /\ DecisionsAgree
  BY AbsentItemTyped DEF Init, ItemsLinked, IsAbout, SubjectsKnown, DecisionsAgree
<1>3. CopiesFit
  BY IdleFits DEF Init, CopiesFit
<1> QED BY <1>1, <1>2, <1>3 DEF MemoryInv

LEMMA MemoryStays == MemoryInv /\ [Next]_vars => MemoryInv'
<1> SUFFICES ASSUME MemoryInv, [Next]_vars PROVE MemoryInv'
  OBVIOUS
<1>1. TypeOK' /\ Curated \subseteq MemoryId /\ Operator \subseteq Proc
  BY TypesStay, MemoryConstantsAssumption
<1>2. ASSUME NEW p \in Proc, ProposeSome(p) PROVE MemoryInv'
  BY <1>1, <1>2, Proposals DEF ProposeSome
<1>3. ASSUME NEW p \in Proc, Step(p) PROVE MemoryInv'
  BY <1>1, <1>3, ReadingSteps, SweepingSteps, Asks, Links, SettlingSteps, MovingSteps DEF Step
<1>4. ASSUME NEW p \in Proc, Die(p) PROVE MemoryInv'
  BY <1>1, <1>4, Returns DEF Die, store
<1>5. ASSUME NEW p \in Proc, Develop(p) PROVE MemoryInv'
  BY <1>1, <1>5, ReadingCalls
<1>6. ASSUME NEW p \in Operator, Operate(p) PROVE MemoryInv'
  <2>1. p \in Proc
    BY <1>1
  <2>2. ASSUME NEW m \in Curated, Purge(p, m) PROVE MemoryInv'
    BY <1>1, <2>1, <2>2, Purges
  <2>3. ASSUME NEW m \in Curated, \/ \E target \in {"expired", "deleted"} : Transition(p, m, target)
                                  \/ \E n \in Curated : Supersede(p, m, n)
        PROVE  MemoryInv'
    BY <1>1, <2>1, <2>3, ReadingCommands
  <2>4. ASSUME NEW due \in SUBSET Curated, Retain(p, due) PROVE MemoryInv'
    BY <1>1, <2>1, <2>4, RetentionStarts
  <2> QED BY <1>6, <2>2, <2>3, <2>4 DEF Operate
<1>7. CASE UNCHANGED vars
  <2>1. UNCHANGED <<items, approvals>> /\ UNCHANGED <<pc, op, item, row, todo>>
    BY <1>7 DEF vars, store, locals
  <2> QED BY <1>1, <2>1, SameRows DEF MemoryInv, ItemsLinked, IsAbout, SubjectsKnown, CopiesFit,
             CopyFits, ListFits, IsCopy
<1> QED BY <1>2, <1>3, <1>4, <1>5, <1>6, <1>7 DEF Next

-----------------------------------------------------------------------------
(* The implementation of GovernedMemory.                                   *)

Standings == [m \in MemoryId |-> StandingOf(items[m].status)]

LEMMA StandingWritten ==
    ASSUME StoreTypes, NEW m \in MemoryId, NEW r, items' = [items EXCEPT ![m] = r]
    PROVE  /\ Standings[m] = StandingOf(items[m].status)
           /\ Standings' = [Standings EXCEPT ![m] = StandingOf(r.status)]
<1>1. items'[m] = r /\ \A n \in MemoryId \ {m} : items'[n] = items[n]
  BY DEF StoreTypes
<1>2. \A n \in MemoryId :
          StandingOf(items'[n].status) = IF n = m THEN StandingOf(r.status) ELSE StandingOf(items[n].status)
  BY <1>1
<1> QED BY <1>2 DEF Standings

LEMMA DecidedStays ==
    ASSUME NEW decision,
           \A a \in ApprovalId :
               /\ approvals'[a].status = decision <=> approvals[a].status = decision
               /\ approvals[a].status = decision => approvals'[a].subject = approvals[a].subject
    PROVE  Decided(decision)' = Decided(decision)
BY DEF Decided

LEMMA DecidedGrows ==
    ASSUME StoreTypes, NEW a \in ApprovalId, NEW decision \in Final, approvals[a].status = "pending",
           approvals' = [approvals EXCEPT ![a].status = decision]
    PROVE  /\ Decided(decision)' = Decided(decision) \cup {approvals[a].subject}
           /\ \A d \in Final \ {decision} : Decided(d)' = Decided(d)
<1>1. /\ approvals'[a].status = decision /\ approvals'[a].subject = approvals[a].subject
      /\ \A b \in ApprovalId \ {a} : approvals'[b] = approvals[b]
  BY DEF StoreTypes, ApprovalRow
<1>2. Decided(decision)' = Decided(decision) \cup {approvals[a].subject}
  <2>1. ASSUME NEW x \in Decided(decision)' PROVE x \in Decided(decision) \cup {approvals[a].subject}
    BY <1>1, <2>1 DEF Decided
  <2>2. ASSUME NEW x \in Decided(decision) PROVE x \in Decided(decision)'
    <3>1. PICK b \in ApprovalId : approvals[b].status = decision /\ x = approvals[b].subject
      BY <2>2 DEF Decided
    <3>2. b # a
      BY <3>1 DEF Final
    <3> QED BY <1>1, <3>1, <3>2 DEF Decided
  <2>3. approvals[a].subject \in Decided(decision)'
    BY <1>1 DEF Decided
  <2> QED BY <2>1, <2>2, <2>3
<1>3. ASSUME NEW d \in Final \ {decision} PROVE Decided(d)' = Decided(d)
  <2> SUFFICES ASSUME NEW b \in ApprovalId
               PROVE  /\ approvals'[b].status = d <=> approvals[b].status = d
                      /\ approvals[b].status = d => approvals'[b].subject = approvals[b].subject
    BY DecidedStays
  <2> QED BY <1>1, <1>3 DEF Final
<1> QED BY <1>2, <1>3

GovernedVars == <<Standings, Decided("approved"), Decided("rejected")>>

LEMMA GovernedBegins == Init => Governed!Init
<1> SUFFICES ASSUME Init PROVE Governed!Init
  OBVIOUS
<1>1. \A m \in MemoryId : StandingOf(items[m].status) = "none"
  BY AbsentItemTyped DEF Init, StandingOf
<1>2. Decided("approved") = {} /\ Decided("rejected") = {}
  BY DEF Init, Decided
<1> QED BY <1>1, <1>2 DEF Governed!Init

(* Approvals and the standing of every item are as before.                 *)
LEMMA Stutters ==
    ASSUME StoreTypes, UNCHANGED approvals,
           items' = items \/ \E m \in MemoryId, r \in ItemRow :
               items' = [items EXCEPT ![m] = r] /\ StandingOf(r.status) = StandingOf(items[m].status)
    PROVE  UNCHANGED GovernedVars
<1>1. Standings' = Standings
  <2>1. CASE items' = items
    BY <2>1 DEF Standings
  <2>2. ASSUME NEW m \in MemoryId, NEW r \in ItemRow, items' = [items EXCEPT ![m] = r],
               StandingOf(r.status) = StandingOf(items[m].status)
        PROVE  Standings' = Standings
    <3>1. PICK old, new : old = StandingOf(items[m].status) /\ new = StandingOf(r.status)
      OBVIOUS
    <3>2. Standings[m] = old /\ Standings' = [Standings EXCEPT ![m] = new] /\ new = old
      BY <2>2, <3>1, StandingWritten
    <3> QED BY <3>2 DEF Standings
  <2> QED BY <2>1, <2>2
<1>2. Decided("approved")' = Decided("approved") /\ Decided("rejected")' = Decided("rejected")
  BY DecidedStays
<1> QED BY <1>1, <1>2 DEF GovernedVars

(* An item that went forward without a decision retires, or was past.      *)
LEMMA Retires ==
    ASSUME StoreTypes, UNCHANGED approvals, NEW m \in MemoryId, NEW r \in ItemRow,
           items' = [items EXCEPT ![m] = r], items[m].status \in Stored,
           StandingOf(r.status) = "past"
    PROVE  Governed!Retire(m) \/ UNCHANGED GovernedVars
<1>1. StandingOf(items[m].status) \in {"candidate", "inForce", "past"}
  BY Statuses DEF StandingOf
<1>2. CASE StandingOf(items[m].status) = "past"
  BY <1>2, Stutters
<1>3. CASE StandingOf(items[m].status) \in {"candidate", "inForce"}
  <2>1. Standings[m] = StandingOf(items[m].status) /\ Standings' = [Standings EXCEPT ![m] = "past"]
    BY StandingWritten
  <2>2. Decided("approved")' = Decided("approved") /\ Decided("rejected")' = Decided("rejected")
    BY DecidedStays
  <2> QED BY <1>3, <2>1, <2>2 DEF Governed!Retire, Standings
<1> QED BY <1>1, <1>2, <1>3

LEMMA StandingPast ==
    ASSUME NEW status \in {"observed", "rejected", "superseded", "expired", "deleted", "purged"}
    PROVE  StandingOf(status) = "past"
BY DEF StandingOf

LEMMA GovernedSteps ==
    ASSUME MemoryInv, [Next]_vars
    PROVE  Governed!Next \/ UNCHANGED GovernedVars
<1>1. StoreTypes /\ LocalTypes /\ Curated \subseteq MemoryId /\ Operator \subseteq Proc
  BY MemoryConstantsAssumption, TypesSplit DEF MemoryInv
<1>2. ASSUME UNCHANGED <<items, approvals>> PROVE UNCHANGED GovernedVars
  BY <1>1, <1>2, Stutters
<1>3. ASSUME NEW p \in Proc, NEW m \in MemoryId, NEW status \in {"proposed", "observed"}, Propose(p, m, status)
      PROVE  Governed!Next
  <2>1. PICK r : r = [AbsentItem EXCEPT !.status = status]
    OBVIOUS
  <2>2. r.status = status /\ items' = [items EXCEPT ![m] = r] /\ items[m].status = "absent" /\ UNCHANGED approvals
    BY <1>3, <2>1, AbsentItemTyped, StatusTyped, Statuses DEF Propose, SetItem
  <2>3. Standings[m] = "none"
    BY <1>1, <2>2, StandingWritten DEF StandingOf
  <2>4. Standings' = [Standings EXCEPT ![m] = StandingOf(status)]
    BY <1>1, <2>2, StandingWritten
  <2>5. StandingOf(status) \in {"candidate", "past"}
    BY DEF StandingOf
  <2>6. Decided("approved")' = Decided("approved") /\ Decided("rejected")' = Decided("rejected")
    BY <2>2, DecidedStays
  <2>7. Governed!Enter(m)
    BY <2>3, <2>4, <2>5, <2>6 DEF Governed!Enter, Standings
  <2> QED BY <2>7 DEF Governed!Next
<1>4. ASSUME NEW p \in Proc, LinkApproval(p) PROVE UNCHANGED GovernedVars
  <2>1. /\ item[p] \in MemoryId /\ row[p] \in ItemRow /\ row[p].status = "proposed"
    BY <1>4, CopyOf DEF LinkApproval, CopyFits
  <2> QED BY <1>1, <1>4, <2>1, Stutters DEF LinkApproval, SetItem, Matches
<1>5. ASSUME NEW p \in Proc, AskApproval(p) PROVE UNCHANGED GovernedVars
  <2>1. Standings' = Standings
    BY <1>5 DEF AskApproval, Standings
  <2>2. NextFresh \in ApprovalId /\ approvals[NextFresh].status = "absent"
    BY <1>5, FreshOne DEF AskApproval
  <2>3. \A a \in ApprovalId : a # NextFresh => approvals'[a] = approvals[a]
    BY <1>1, <1>5, <2>2 DEF AskApproval, StoreTypes
  <2>4. approvals'[NextFresh].status = "pending"
    BY <1>1, <1>5, <2>2 DEF AskApproval, StoreTypes
  <2>5. ASSUME NEW d \in Final PROVE Decided(d)' = Decided(d)
    <3> SUFFICES ASSUME NEW b \in ApprovalId
                 PROVE  /\ approvals'[b].status = d <=> approvals[b].status = d
                        /\ approvals[b].status = d => approvals'[b].subject = approvals[b].subject
      BY DecidedStays
    <3> QED BY <2>2, <2>3, <2>4, <2>5 DEF Final
  <2> QED BY <2>1, <2>5 DEF GovernedVars, Final
<1>6. ASSUME NEW p \in Proc, Settle(p) \/ ExpireLinked(p) PROVE Governed!Next \/ UNCHANGED GovernedVars
  <2>1. PICK m, a : m = item[p] /\ a = row[p].approval
    OBVIOUS
  <2>2. CASE ~BothMatch(a, m)
    BY <1>2, <1>6, <2>1, <2>2 DEF Settle, ExpireLinked
  <2>3. CASE BothMatch(a, m)
    <3>1. PICK r \in ItemRow, decision \in Final : Settles(m, a, decision, r)
      BY <1>6, <2>1, <2>3, SettlesSettle
    <3>2. a \in ApprovalId /\ m \in MemoryId
      BY <1>6, <2>1, CopyOf DEF Settle, ExpireLinked, CopyFits, ItemRow
    <3>3. Standings[m] = "candidate" /\ Standings' = [Standings EXCEPT ![m] = StandingOf(r.status)]
      <4>1. StandingOf(items[m].status) = "candidate"
        BY <3>1 DEF Settles, StandingOf
      <4> QED BY <1>1, <3>1, <3>2, <4>1, StandingWritten DEF Settles
    <3>4. /\ Decided(decision)' = Decided(decision) \cup {m}
          /\ \A d \in Final \ {decision} : Decided(d)' = Decided(d)
      BY <1>1, <3>1, <3>2, DecidedGrows DEF Settles
    <3>5. CASE decision = "approved"
      <4>1. StandingOf(r.status) = "inForce"
        BY <3>1, <3>5 DEF Settles, StandingOf
      <4>2. Governed!Grant(m)
        BY <3>3, <3>4, <3>5, <4>1 DEF Governed!Grant, Standings, Final
      <4> QED BY <3>2, <4>2 DEF Governed!Next
    <3>6. CASE decision = "rejected"
      <4>1. StandingOf(r.status) = "past"
        BY <3>1, <3>6, StandingPast DEF Settles
      <4>2. Governed!Refuse(m)
        BY <3>3, <3>4, <3>6, <4>1 DEF Governed!Refuse, Standings, Final
      <4> QED BY <3>2, <4>2 DEF Governed!Next
    <3> QED BY <3>5, <3>6 DEF Final
  <2> QED BY <2>2, <2>3
<1>7. ASSUME NEW p \in Proc, Move(p) \/ SupersedeOld(p) \/ ExpireUnlinked(p)
      PROVE  Governed!Next \/ UNCHANGED GovernedVars
  <2>1. item[p] \in MemoryId
    BY <1>7, CopyOf DEF Move, SupersedeOld, ExpireUnlinked
  <2>2. CASE items' = items
    BY <1>2, <1>7, <2>2 DEF Move, SupersedeOld, ExpireUnlinked
  <2>3. CASE items' # items
    <3>1. PICK r \in ItemRow : Moves(item[p], r)
      BY <1>7, <2>3, MovesMove
    <3>2. StandingOf(r.status) = "past"
      BY <3>1, StandingPast DEF Moves
    <3> QED BY <1>1, <2>1, <3>1, <3>2, Retires DEF Moves, Governed!Next
  <2> QED BY <2>2, <2>3
<1>8. ASSUME NEW p \in Proc, NEW m \in MemoryId, Purge(p, m)
      PROVE  Governed!Next \/ UNCHANGED GovernedVars
  <2>1. PICK r : r = [AbsentItem EXCEPT !.status = "purged"]
    OBVIOUS
  <2>2. r \in ItemRow /\ StandingOf(r.status) = "past"
    BY <2>1, AbsentItemTyped, StatusTyped, StandingPast
  <2> QED BY <1>1, <1>8, <2>1, <2>2, Retires DEF Purge, SetItem, Known, Governed!Next
<1>9. ASSUME NEW p \in Proc, Step(p) PROVE Governed!Next \/ UNCHANGED GovernedVars
  <2>1. CASE \/ FindConflicts(p) \/ MarkConflict(p) \/ Consider(p) \/ CountTask(p) \/ CountDay(p)
             \/ ReadProposal(p) \/ CheckDecision(p) \/ RecordActivation(p)
             \/ SweepNext(p) \/ SweepDone(p) \/ ReadAgain(p)
    BY <1>2, <2>1 DEF FindConflicts, MarkConflict, Consider, CountTask, CountDay, ReadProposal, CheckDecision,
           RecordActivation, SweepNext, SweepDone, ReadAgain, store
  <2> QED BY <1>4, <1>5, <1>6, <1>7, <1>9, <2>1 DEF Step
<1>10. ASSUME NEW p \in Proc, Develop(p) \/ Die(p) PROVE UNCHANGED GovernedVars
  BY <1>2, <1>10 DEF Develop, RequestApproval, Decide, Die, store
<1>11. ASSUME NEW p \in Operator, Operate(p) PROVE Governed!Next \/ UNCHANGED GovernedVars
  <2>1. ASSUME NEW m \in Curated, Purge(p, m) PROVE Governed!Next \/ UNCHANGED GovernedVars
    BY <1>1, <1>8, <2>1
  <2>2. ASSUME ~\E m \in Curated : Purge(p, m) PROVE UNCHANGED GovernedVars
    BY <1>2, <1>11, <2>2 DEF Operate, Transition, Supersede, Retain, store
  <2> QED BY <2>1, <2>2
<1>12. CASE UNCHANGED vars
  BY <1>2, <1>12 DEF vars, store
<1> QED BY <1>1, <1>3, <1>9, <1>10, <1>11, <1>12 DEF Next, ProposeSome

(* The service keeps its promise: an item comes into force only by a       *)
(* decision made on it while it was proposed, one decision settles it, and *)
(* what left force does not come back, whatever command or process is      *)
(* between its read and its write (LEGAL_TRANSITIONS, decide_approval).    *)
THEOREM MemoryIsGoverned == Spec => ImplementsGovernedMemory
<1>1. MemoryInv /\ [Next]_vars => [Governed!Next]_GovernedVars
  BY GovernedSteps
<1>2. MemoryInv /\ [Next]_vars => [Governed!Next]_<<Standings, Decided("approved"), Decided("rejected")>>
  BY <1>1 DEF GovernedVars
<1> QED BY <1>2, GovernedBegins, MemoryStarts, MemoryStays, PTL
    DEF Spec, ImplementsGovernedMemory, Governed!Spec, Standings

-----------------------------------------------------------------------------
(* The limit on activations of one task.                                   *)

LEMMA FiniteParts ==
    ASSUME StoreTypes, IsFiniteSet(Proc), NEW source
    PROVE  /\ IsFiniteSet(Recorded(source)) /\ Cardinality(Recorded(source)) \in Nat
           /\ IsFiniteSet(InFlight(source)) /\ Cardinality(InFlight(source)) \in Nat
           /\ Cardinality(InFlight(source)) <= Cardinality(Proc) /\ Cardinality(Proc) \in Nat
<1>1. IsFiniteSet(MemoryId) /\ Recorded(source) \subseteq MemoryId /\ InFlight(source) \subseteq Proc
  BY MemoryConstantsAssumption DEF StoreTypes, Recorded, InFlight
<1> QED BY <1>1, FS_Subset, FS_CardinalityType

(* A process is done, or goes on with the activation it was about.         *)
LEMMA FlightEnds ==
    ASSUME MemoryInv, NEW p \in Proc, NEW source,
           \A q \in Proc \ {p} : pc'[q] = pc[q] /\ op'[q] = op[q] /\ item'[q] = item[q],
           \/ pc'[p] # "countDay" /\ op'[p] # "auto"
           \/ pc'[p] # "countDay" /\ op'[p] = op[p] /\ item'[p] = item[p]
           \/ pc[p] = "countDay" /\ item'[p] = item[p]
    PROVE  InFlight(source)' \subseteq InFlight(source)
BY DEF InFlight

LEMMA Flights ==
    ASSUME MemoryInv, NEW p \in Proc, ProposeSome(p) \/ Step(p) \/ Die(p) \/ Develop(p) \/ Operate(p),
           ~CountTask(p), NEW source
    PROVE  /\ InFlight(source)' \subseteq InFlight(source)
           /\ Return(p) => InFlight(source)' \subseteq InFlight(source) \ {p}
<1>1. CopyFits(pc[p], op[p], item[p], row[p]) /\ LocalTypes
  BY CopyOf
<1>2. CASE Return(p)
  <2>1. OthersStand(p) /\ pc'[p] = "idle" /\ op'[p] = "none"
    BY <1>1, <1>2, Returned
  <2> QED BY <2>1, FlightEnds DEF InFlight, OthersStand
<1> SUFFICES InFlight(source)' \subseteq InFlight(source)
  BY <1>2
<1>3. ASSUME NEW l \in Label \ {"countDay"}, Goto(p, l), UNCHANGED <<op, item>>
      PROVE  InFlight(source)' \subseteq InFlight(source)
  BY <1>1, <1>3, FlightEnds DEF Goto, LocalTypes
<1>4. ASSUME NEW method \in Method \ {"auto"}, NEW l \in Label \ {"countDay"}, NEW m, NEW r, Begin(p, method, l, m, r)
      PROVE  InFlight(source)' \subseteq InFlight(source)
  BY <1>1, <1>4, FlightEnds DEF Begin, Goto, LocalTypes
<1>5. CASE ProposeSome(p) \/ Develop(p)
  <2>1. ASSUME NEW method \in {"propose", "request", "approve", "reject"}, NEW l \in {"conflicts", "read", "decide"},
               NEW m, NEW r, Begin(p, method, l, m, r)
        PROVE  InFlight(source)' \subseteq InFlight(source)
    BY <1>4, <2>1 DEF Method, Label
  <2>2. ASSUME NEW m \in MemoryId, NEW status \in {"proposed", "observed"}, Propose(p, m, status)
        PROVE  InFlight(source)' \subseteq InFlight(source)
    <3>1. PICK r : r = [AbsentItem EXCEPT !.status = status]
      OBVIOUS
    <3>2. Begin(p, "propose", "conflicts", m, r)
      BY <2>2, <3>1 DEF Propose
    <3> QED BY <2>1, <3>2
  <2>3. ASSUME NEW m \in Curated, RequestApproval(p, m) PROVE InFlight(source)' \subseteq InFlight(source)
    BY <2>1, <2>3 DEF RequestApproval
  <2>4. ASSUME NEW a \in ApprovalId, NEW method \in {"approve", "reject"}, Decide(p, a, method)
        PROVE  InFlight(source)' \subseteq InFlight(source)
    <3>1. PICK m, r : m = approvals[a].subject /\ r = [AbsentItem EXCEPT !.approval = a]
      OBVIOUS
    <3>2. Begin(p, method, "decide", m, r)
      BY <2>4, <3>1 DEF Decide
    <3> QED BY <2>1, <3>2
  <2> QED BY <1>5, <2>2, <2>3, <2>4 DEF ProposeSome, Develop
<1>6. CASE Operate(p)
  <2>1. ASSUME NEW m \in Curated, Purge(p, m) PROVE InFlight(source)' \subseteq InFlight(source)
    BY <2>1 DEF Purge, locals, InFlight
  <2>2. ASSUME NEW due \in SUBSET Curated, Retain(p, due) PROVE InFlight(source)' \subseteq InFlight(source)
    BY <1>1, <2>2, FlightEnds DEF Retain, Goto, LocalTypes
  <2>3. ASSUME NEW m \in Curated, \/ \E target \in {"expired", "deleted"} : Transition(p, m, target)
                                  \/ \E n \in Curated : Supersede(p, m, n)
        PROVE  InFlight(source)' \subseteq InFlight(source)
    <3>1. ASSUME NEW method \in {"expired", "deleted", "supersede"}, NEW l \in {"move", "replace"},
                 NEW r, Begin(p, method, l, m, r)
          PROVE  InFlight(source)' \subseteq InFlight(source)
      BY <1>4, <3>1 DEF Method, Label
    <3>2. ASSUME NEW target \in {"expired", "deleted"}, Transition(p, m, target)
          PROVE  InFlight(source)' \subseteq InFlight(source)
      BY <3>1, <3>2 DEF Transition
    <3>3. ASSUME NEW n \in Curated, Supersede(p, m, n) PROVE InFlight(source)' \subseteq InFlight(source)
      <4>1. PICK r : r = [items[m] EXCEPT !.successor = n]
        OBVIOUS
      <4>2. Begin(p, "supersede", "replace", m, r)
        BY <3>3, <4>1 DEF Supersede
      <4> QED BY <3>1, <4>2
    <3> QED BY <2>3, <3>2, <3>3
  <2> QED BY <1>6, <2>1, <2>2, <2>3 DEF Operate
<1>7. CASE CountDay(p)
  <2>1. CASE Goto(p, "read") /\ op' = [op EXCEPT ![p] = "auto"] /\ UNCHANGED <<item, row, todo>>
    <3>1. pc[p] = "countDay" /\ item' = item /\ \A q \in Proc \ {p} : pc'[q] = pc[q] /\ op'[q] = op[q]
      BY <1>1, <1>7, <2>1 DEF CountDay, Goto, LocalTypes
    <3> QED BY <3>1, FlightEnds
  <2> QED BY <1>2, <1>7, <2>1 DEF CountDay
<1>8. CASE SweepNext(p)
  <2>1. op'[p] # "auto" /\ op' = op
    BY <1>1, <1>8 DEF SweepNext, CopyFits
  <2>2. PICK l : l = pc'[p]
    OBVIOUS
  <2>3. l # "countDay" /\ \A q \in Proc \ {p} : pc'[q] = pc[q] /\ item'[q] = item[q]
    BY <1>1, <1>8, <2>2 DEF SweepNext, Goto, LocalTypes
  <2> QED BY <2>1, <2>2, <2>3, FlightEnds
<1>9. CASE \/ FindConflicts(p) \/ MarkConflict(p) \/ (Consider(p) /\ ~Eligible(item[p])) \/ RecordActivation(p) \/ SweepDone(p)
           \/ LinkApproval(p) \/ Settle(p) \/ Move(p) \/ SupersedeOld(p) \/ ExpireLinked(p) \/ ExpireUnlinked(p)
  BY <1>2, <1>3, <1>9 DEF FindConflicts, MarkConflict, AfterConflicts, Consider, RecordActivation, SweepDone, LinkApproval,
         Settle, Move, SupersedeOld, ExpireLinked, ExpireUnlinked, Label
<1>10. CASE \/ (Consider(p) /\ Eligible(item[p])) \/ ReadProposal(p) \/ AskApproval(p) \/ CheckDecision(p) \/ ReadAgain(p)
  BY <1>2, <1>3, <1>10 DEF Consider, ReadProposal, AskApproval, CheckDecision, ReadAgain, Label
<1>11. CASE Die(p)
  BY <1>2, <1>11 DEF Die
<1> QED BY <1>5, <1>6, <1>7, <1>8, <1>9, <1>10, <1>11 DEF Step

LEMMA BoundStays ==
    ASSUME TypeOK, TypeOK', IsFiniteSet(Proc), NEW source, WithinBound(source),
           Recorded(source)' \subseteq Recorded(source), InFlight(source)' \subseteq InFlight(source)
    PROVE  WithinBound(source)'
<1>1. StoreTypes /\ StoreTypes'
  BY TypesSplit
<1>2. PICK R, F, S, G : R = Recorded(source) /\ F = InFlight(source) /\ S = Recorded(source)' /\ G = InFlight(source)'
  OBVIOUS
<1>3. IsFiniteSet(R) /\ IsFiniteSet(F) /\ S \subseteq R /\ G \subseteq F
  BY <1>1, <1>2, FiniteParts
<1>4. Cardinality(S) <= Cardinality(R) /\ Cardinality(G) <= Cardinality(F)
  BY <1>3, FS_Subset
<1>5. /\ Cardinality(S) \in Nat /\ Cardinality(G) \in Nat /\ Cardinality(R) \in Nat /\ Cardinality(F) \in Nat
  BY <1>3, FS_Subset, FS_CardinalityType
<1>6. Cardinality(Proc) \in Nat /\ TaskLimit \in Nat
  BY FS_CardinalityType, MemoryConstantsAssumption
<1>7. (R = {} /\ F = {}) \/ Cardinality(R) + Cardinality(F) <= TaskLimit + Cardinality(Proc) - 1
  BY <1>2 DEF WithinBound
<1>8. (S = {} /\ G = {}) \/ Cardinality(S) + Cardinality(G) <= TaskLimit + Cardinality(Proc) - 1
  BY <1>3, <1>4, <1>5, <1>6, <1>7
<1> QED BY <1>2, <1>8 DEF WithinBound

(* An activation that was under way is recorded.                           *)
LEMMA BoundMoves ==
    ASSUME TypeOK, TypeOK', IsFiniteSet(Proc), NEW source, WithinBound(source), NEW p, p \in InFlight(source), NEW n,
           Recorded(source)' \subseteq Recorded(source) \cup {n}, InFlight(source)' \subseteq InFlight(source) \ {p}
    PROVE  WithinBound(source)'
<1>1. StoreTypes /\ StoreTypes'
  BY TypesSplit
<1>2. PICK R, F, S, G : R = Recorded(source) /\ F = InFlight(source) /\ S = Recorded(source)' /\ G = InFlight(source)'
  OBVIOUS
<1>3. IsFiniteSet(R) /\ IsFiniteSet(F) /\ S \subseteq R \cup {n} /\ G \subseteq F \ {p} /\ p \in F
  BY <1>1, <1>2, FiniteParts
<1>4. /\ Cardinality(R) \in Nat /\ Cardinality(F) \in Nat
      /\ IsFiniteSet(R \cup {n}) /\ Cardinality(R \cup {n}) <= Cardinality(R) + 1 /\ Cardinality(R \cup {n}) \in Nat
      /\ IsFiniteSet(F \ {p}) /\ Cardinality(F \ {p}) = Cardinality(F) - 1 /\ Cardinality(F \ {p}) \in Nat
  <2>1. Cardinality(R) \in Nat /\ Cardinality(F) \in Nat
    BY <1>3, FS_CardinalityType
  <2>2. IsFiniteSet(R \cup {n}) /\ Cardinality(R \cup {n}) \in {Cardinality(R), Cardinality(R) + 1}
    BY <1>3, FS_AddElement
  <2>3. IsFiniteSet(F \ {p}) /\ Cardinality(F \ {p}) = Cardinality(F) - 1
    BY <1>3, FS_RemoveElement
  <2>4. Cardinality(F \ {p}) \in Nat
    BY <2>3, FS_CardinalityType
  <2> QED BY <2>1, <2>2, <2>3, <2>4
<1>5. /\ IsFiniteSet(S) /\ Cardinality(S) <= Cardinality(R \cup {n}) /\ Cardinality(S) \in Nat
      /\ IsFiniteSet(G) /\ Cardinality(G) <= Cardinality(F \ {p}) /\ Cardinality(G) \in Nat
  BY <1>3, <1>4, FS_Subset, FS_CardinalityType
<1>6. Cardinality(Proc) \in Nat /\ TaskLimit \in Nat
  BY FS_CardinalityType, MemoryConstantsAssumption
<1>7. Cardinality(R) + Cardinality(F) <= TaskLimit + Cardinality(Proc) - 1
  BY <1>2, <1>3 DEF WithinBound
<1>8. Cardinality(S) + Cardinality(G) <= TaskLimit + Cardinality(Proc) - 1
  BY <1>4, <1>5, <1>6, <1>7
<1> QED BY <1>2, <1>8 DEF WithinBound

LEMMA BoundKept ==
    ASSUME MemoryInv, TypeOK', IsFiniteSet(Proc), NEW source, WithinBound(source), [Next]_vars
    PROVE  WithinBound(source)'
<1>1. TypeOK /\ StoreTypes /\ StoreTypes' /\ LocalTypes /\ LocalTypes' /\ Operator \subseteq Proc
  BY TypesSplit, MemoryConstantsAssumption DEF MemoryInv
<1>2. ASSUME NEW p \in Proc, CountTask(p) PROVE WithinBound(source)'
  <2>1. UNCHANGED activated
    BY <1>2 DEF CountTask, store
  <2>2. CASE Return(p) \/ Source[item[p]] # source
    <3>1. InFlight(source)' \subseteq InFlight(source)
      <4>1. CASE Return(p)
        <5>1. OthersStand(p) /\ pc'[p] = "idle" /\ op'[p] = "none"
          BY <1>1, <4>1, Returned
        <5> QED BY <5>1, FlightEnds DEF OthersStand
      <4>2. CASE Goto(p, "countDay") /\ UNCHANGED <<op, item, row, todo>> /\ Source[item[p]] # source
        BY <1>1, <4>2 DEF InFlight, Goto, LocalTypes
      <4> QED BY <1>2, <2>2, <4>1, <4>2 DEF CountTask
    <3>2. Recorded(source)' = Recorded(source)
      BY <2>1 DEF Recorded
    <3> QED BY <1>1, <3>1, <3>2, BoundStays
  <2>3. CASE ~Return(p) /\ Source[item[p]] = source
    <3>1. Cardinality(Recorded(source)) < TaskLimit
      BY <1>2, <2>3 DEF CountTask, WithinLimit, Recorded
    <3>2. Recorded(source)' = Recorded(source)
      BY <2>1 DEF Recorded
    <3>3. PICK R, G : R = Recorded(source)' /\ G = InFlight(source)'
      OBVIOUS
    <3>4. Cardinality(R) \in Nat /\ Cardinality(G) \in Nat /\ Cardinality(G) <= Cardinality(Proc)
      <4>1. IsFiniteSet(R) /\ Cardinality(R) \in Nat
        BY <1>1, <3>2, <3>3, FiniteParts
      <4>2. G \subseteq Proc
        BY <3>3 DEF InFlight
      <4> QED BY <4>1, <4>2, FS_Subset, FS_CardinalityType
    <3>5. Cardinality(Proc) \in Nat /\ TaskLimit \in Nat
      BY FS_CardinalityType, MemoryConstantsAssumption
    <3>6. Cardinality(R) + Cardinality(G) <= TaskLimit + Cardinality(Proc) - 1
      BY <3>1, <3>2, <3>3, <3>4, <3>5
    <3> QED BY <3>3, <3>6 DEF WithinBound
  <2> QED BY <2>2, <2>3
<1>3. ASSUME NEW p \in Proc, RecordActivation(p) PROVE WithinBound(source)'
  <2>1. Return(p) /\ op[p] = "auto"
    BY <1>3, CopyOf DEF RecordActivation, CopyFits
  <2>2. InFlight(source)' \subseteq InFlight(source) \ {p} /\ InFlight(source)' \subseteq InFlight(source)
    BY <1>3, <2>1, Flights DEF Step, RecordActivation, CountTask
  <2>3. CASE Source[item[p]] = source
    <3>1. Recorded(source)' \subseteq Recorded(source) \cup {item[p]}
      BY <1>3 DEF RecordActivation, Recorded
    <3>2. p \in InFlight(source)
      BY <2>1, <2>3 DEF InFlight
    <3> QED BY <1>1, <2>2, <3>1, <3>2, BoundMoves
  <2>4. CASE Source[item[p]] # source
    <3>1. Recorded(source)' \subseteq Recorded(source)
      BY <1>3, <2>4 DEF RecordActivation, Recorded
    <3> QED BY <1>1, <2>2, <3>1, BoundStays
  <2> QED BY <2>3, <2>4
<1>4. ASSUME NEW p \in Proc, ProposeSome(p) \/ Step(p) \/ Die(p) \/ Develop(p) \/ Operate(p),
             ~CountTask(p), ~RecordActivation(p)
      PROVE  WithinBound(source)'
  <2>1. activated' \subseteq activated
    <3>1. ASSUME Step(p) PROVE UNCHANGED activated
      BY <1>4, <3>1 DEF Step, FindConflicts, MarkConflict, Consider, CountDay, ReadProposal, AskApproval,
         LinkApproval, CheckDecision, Settle, Move, SupersedeOld, SweepNext, SweepDone, ExpireLinked, ReadAgain,
         ExpireUnlinked, store
    <3>2. ASSUME ProposeSome(p) \/ Die(p) \/ Develop(p) PROVE UNCHANGED activated
      BY <3>2 DEF ProposeSome, Propose, Die, Develop, RequestApproval, Decide, store
    <3>3. ASSUME Operate(p) PROVE activated' \subseteq activated
      BY <3>3 DEF Operate, Purge, Transition, Supersede, Retain, store
    <3> QED BY <1>4, <3>1, <3>2, <3>3
  <2>2. Recorded(source)' \subseteq Recorded(source)
    BY <2>1 DEF Recorded
  <2>3. InFlight(source)' \subseteq InFlight(source)
    BY <1>4, Flights
  <2> QED BY <1>1, <2>2, <2>3, BoundStays
<1>5. CASE UNCHANGED vars
  <2>1. Recorded(source)' = Recorded(source) /\ InFlight(source)' = InFlight(source)
    BY <1>5 DEF vars, store, locals, Recorded, InFlight
  <2> QED BY <1>1, <2>1, BoundStays
<1> QED BY <1>1, <1>2, <1>3, <1>4, <1>5 DEF Next

LEMMA BoundGives ==
    ASSUME TypeOK, ActivationsBounded, IsFiniteSet(Proc)
    PROVE  ActivationLimit
<1> SUFFICES ASSUME NEW n \in activated
             PROVE  Cardinality(Recorded(Source[n])) <= TaskLimit + Cardinality(Proc) - 1
  BY DEF ActivationLimit, Recorded
<1>1. StoreTypes /\ n \in MemoryId /\ n \in Recorded(Source[n])
  BY TypesSplit DEF StoreTypes, Recorded
<1>2. Cardinality(Recorded(Source[n])) + Cardinality(InFlight(Source[n])) <= TaskLimit + Cardinality(Proc) - 1
  BY <1>1 DEF ActivationsBounded, WithinBound
<1>3. Cardinality(Recorded(Source[n])) \in Nat /\ Cardinality(InFlight(Source[n])) \in Nat
      /\ Cardinality(Proc) \in Nat /\ TaskLimit \in Nat
  BY <1>1, FiniteParts, MemoryConstantsAssumption
<1> QED BY <1>2, <1>3

(* The orchestrator activates no more items of one task than the limit and *)
(* the processes that may have counted before one of them records: every   *)
(* activation that is still under way was counted, and becomes at most one *)
(* record (activate_by_orchestrator, _orchestrator_activation_allowed).    *)
THEOREM ActivationsAreLimited == IsFiniteSet(Proc) /\ Spec => []ActivationLimit
<1> SUFFICES ASSUME IsFiniteSet(Proc) PROVE Spec => []ActivationLimit
  OBVIOUS
<1>1. Init => ActivationsBounded
  <2> SUFFICES ASSUME Init, NEW m \in MemoryId PROVE WithinBound(Source[m])
    BY DEF ActivationsBounded
  <2>1. Recorded(Source[m]) = {} /\ InFlight(Source[m]) = {}
    BY DEF Init, Recorded, InFlight
  <2> QED BY <2>1 DEF WithinBound
<1>2. MemoryInv /\ MemoryInv' /\ ActivationsBounded /\ [Next]_vars => ActivationsBounded'
  <2> SUFFICES ASSUME MemoryInv, MemoryInv', ActivationsBounded, [Next]_vars, NEW m \in MemoryId
               PROVE  WithinBound(Source[m])'
    BY DEF ActivationsBounded
  <2>1. PICK source : source = Source[m]
    OBVIOUS
  <2>2. WithinBound(source) /\ TypeOK'
    BY <2>1 DEF ActivationsBounded, MemoryInv
  <2>3. WithinBound(source)'
    BY <2>2, BoundKept
  <2> QED BY <2>1, <2>3
<1>3. MemoryInv /\ ActivationsBounded => ActivationLimit
  BY BoundGives DEF MemoryInv
<1> QED BY <1>1, <1>2, <1>3, MemoryStarts, MemoryStays, PTL DEF Spec

-----------------------------------------------------------------------------
(* Recall.                                                                 *)

(* The tokens of one item more.                                            *)
LEMMA TokensOfOneMore ==
    ASSUME NEW S \in SUBSET MemoryId, NEW m \in MemoryId, m \notin S
    PROVE  Tokens(S \cup {m}) = Tokens(S) + Cost[m] /\ Tokens(S) \in Nat
<1> DEFINE Of(T) == UNION {{n} \X (1..Cost[n]) : n \in T}
           A == Of(S)
           B == {m} \X (1..Cost[m])
<1>1. \A n \in MemoryId : Cost[n] \in Nat
  BY MemoryConstantsAssumption
<1>2. IsFiniteSet(S)
  BY MemoryConstantsAssumption, FS_Subset
<1>3. IsFiniteSet(B) /\ Cardinality(B) = Cost[m]
  <2>1. IsFiniteSet(1..Cost[m]) /\ Cardinality(1..Cost[m]) = Cost[m]
    <3>1. 1 \in Int /\ Cost[m] \in Int /\ Cost[m] \in Nat
      BY <1>1
    <3>2. /\ IsFiniteSet(1..Cost[m])
          /\ Cardinality(1..Cost[m]) = IF 1 > Cost[m] THEN 0 ELSE Cost[m] - 1 + 1
      BY <3>1, FS_Interval
    <3> QED BY <3>1, <3>2
  <2>2. IsFiniteSet({m}) /\ Cardinality({m}) = 1
    BY FS_Singleton
  <2>3. IsFiniteSet(B) /\ Cardinality(B) = Cardinality({m}) * Cardinality(1..Cost[m])
    BY <2>1, <2>2, FS_Product
  <2> QED BY <1>1, <2>1, <2>2, <2>3
<1>4. IsFiniteSet(A)
  <2>1. IsFiniteSet({{n} \X (1..Cost[n]) : n \in S})
    <3> DEFINE f == [n \in S |-> {n} \X (1..Cost[n])]
               T == {{n} \X (1..Cost[n]) : n \in S}
    <3>1. f \in Surjection(S, T)
      BY DEF Surjection
    <3> QED BY <1>2, <3>1, FS_Surjection
  <2>2. ASSUME NEW n \in S PROVE IsFiniteSet({n} \X (1..Cost[n]))
    <3>1. 1 \in Int /\ Cost[n] \in Int
      BY <1>1
    <3>2. IsFiniteSet(1..Cost[n]) /\ IsFiniteSet({n})
      BY <3>1, FS_Interval, FS_Singleton
    <3> QED BY <3>2, FS_Product
  <2> QED BY <2>1, <2>2, FS_UNION
<1>5. A \cap B = {} /\ Of(S \cup {m}) = A \cup B
  OBVIOUS
<1>6. Cardinality(A \cup B) = Cardinality(A) + Cost[m]
  <2> HIDE DEF A, B
  <2>1. Cardinality(A \cup B) = Cardinality(A) + Cardinality(B) - Cardinality({})
    BY <1>3, <1>4, <1>5, FS_Union
  <2>2. Cardinality(A) \in Nat /\ Cardinality({}) = 0
    BY <1>4, FS_CardinalityType, FS_EmptySet
  <2> QED BY <1>1, <1>3, <2>1, <2>2
<1>7. Cardinality(A) \in Nat
  BY <1>4, FS_CardinalityType
<1> QED BY <1>5, <1>6, <1>7 DEF Tokens

(* What has been chosen of each prefix of what was found.                  *)
IsChoice(f, ranked, budget, n) ==
    f = [k \in 0..n |-> IF k = 0 THEN NothingRecalled ELSE Take(f[k - 1], ranked[k], budget)]

(* There is such a choice: the shortest prefix without one could take it   *)
(* from the prefix before.                                                 *)
LEMMA ChoiceExists ==
    ASSUME NEW ranked, NEW budget, NEW n \in Nat
    PROVE  \E f : IsChoice(f, ranked, budget, n)
<1> DEFINE S == {k \in Nat : ~\E f : IsChoice(f, ranked, budget, k)}
<1> SUFFICES ASSUME S # {} PROVE FALSE
  OBVIOUS
<1>1. PICK k \in S : \A m \in S : k <= m
  <2> HIDE DEF S
  <2>1. S \in SUBSET Nat
    BY DEF S
  <2> QED BY <2>1, LowestNumber
<1>2. k \in Nat /\ ~\E f : IsChoice(f, ranked, budget, k)
  OBVIOUS
<1>3. CASE k = 0
  <2> DEFINE f == [i \in 0..0 |-> NothingRecalled]
  <2>1. IsChoice(f, ranked, budget, 0)
    BY DEF IsChoice
  <2> QED BY <1>2, <1>3, <2>1
<1>4. CASE k # 0
  <2>1. k - 1 \in Nat /\ k - 1 \notin S
    BY <1>1, <1>2, <1>4
  <2>2. PICK g : IsChoice(g, ranked, budget, k - 1)
    BY <2>1
  <2> DEFINE f == [i \in 0..k |-> IF i = k THEN Take(g[k - 1], ranked[k], budget) ELSE g[i]]
  <2>3. \A i \in 0..k : i = k \/ i \in 0..(k - 1)
    BY <1>2
  <2>4. \A i \in 0..(k - 1) :
            g[i] = IF i = 0 THEN NothingRecalled ELSE Take(g[i - 1], ranked[i], budget)
    BY <2>2 DEF IsChoice
  <2>5. ASSUME NEW i \in 0..k
        PROVE  f[i] = IF i = 0 THEN NothingRecalled ELSE Take(f[i - 1], ranked[i], budget)
    <3>1. CASE i = k
      <4>1. f[k] = Take(g[k - 1], ranked[k], budget) /\ k - 1 \in 0..k /\ k - 1 # k
        BY <1>2, <2>1
      <4>2. f[k - 1] = g[k - 1]
        BY <4>1
      <4> QED BY <1>4, <3>1, <4>1, <4>2
    <3>2. CASE i # k
      <4>1. i \in 0..(k - 1) /\ f[i] = g[i]
        BY <2>3, <3>2
      <4>2. CASE i = 0
        BY <2>4, <4>1, <4>2
      <4>3. CASE i # 0
        <5>1. i - 1 \in 0..k /\ i - 1 # k
          BY <1>2, <4>3
        <5>2. f[i - 1] = g[i - 1]
          BY <5>1
        <5> QED BY <2>4, <4>1, <4>3, <5>2
      <4> QED BY <4>2, <4>3
    <3> QED BY <3>1, <3>2
  <2>6. f = [i \in 0..k |-> f[i]]
    OBVIOUS
  <2> HIDE DEF f
  <2>7. [i \in 0..k |-> f[i]]
        = [i \in 0..k |-> IF i = 0 THEN NothingRecalled ELSE Take(f[i - 1], ranked[i], budget)]
    BY <2>5
  <2>8. IsChoice(f, ranked, budget, k)
    BY <2>6, <2>7 DEF IsChoice
  <2> QED BY <1>2, <2>8
<1> QED BY <1>3, <1>4

LEMMA RecallChooses ==
    ASSUME NEW ranked, NEW budget, Len(ranked) \in Nat
    PROVE  \E f : /\ Recall(ranked, budget) = f[Len(ranked)]
                  /\ \A k \in 0..Len(ranked) :
                         f[k] = IF k = 0 THEN NothingRecalled ELSE Take(f[k - 1], ranked[k], budget)
<1> DEFINE n == Len(ranked)
           f == CHOOSE g : IsChoice(g, ranked, budget, n)
<1>1. IsChoice(f, ranked, budget, n)
  BY ChoiceExists
<1>2. Recall(ranked, budget) = f[n]
  BY DEF Recall, IsChoice
<1> HIDE DEF f
<1>3. \A k \in 0..n : f[k] = IF k = 0 THEN NothingRecalled ELSE Take(f[k - 1], ranked[k], budget)
  BY <1>1 DEF IsChoice
<1> QED BY <1>2, <1>3

(* What has been chosen of the first k that were found.                    *)
Filled(r, ranked, budget, k) ==
    /\ r.items \subseteq {ranked[i] : i \in 1..k}
    /\ IsFiniteSet(r.items) /\ Cardinality(r.items) <= budget.items
    /\ r.tokens = Tokens(r.items) /\ r.tokens \in Nat /\ r.tokens <= budget.tokens
    /\ \A i \in 1..k : ranked[i] \in r.items \/ ~Fits(r, ranked[i], budget)

LEMMA NothingFills ==
    ASSUME NEW ranked, NEW budget \in Budgets PROVE Filled(NothingRecalled, ranked, budget, 0)
<1>1. budget.items \in Nat /\ budget.tokens \in Nat
  BY MemoryConstantsAssumption
<1>2. IsFiniteSet({}) /\ Cardinality({}) = 0
  BY FS_EmptySet
<1>3. Tokens({}) = 0
  <2>1. UNION {{m} \X (1..Cost[m]) : m \in {}} = {}
    OBVIOUS
  <2> QED BY <1>2, <2>1 DEF Tokens
<1> QED BY <1>1, <1>2, <1>3 DEF Filled, NothingRecalled

LEMMA TakeFills ==
    ASSUME NEW ranked, NEW budget \in Budgets, NEW n \in Nat,
           \A i \in 1..n : ranked[i] \in MemoryId,
           \A i, j \in 1..n : i # j => ranked[i] # ranked[j],
           NEW k \in 1..n, NEW r, Filled(r, ranked, budget, k - 1)
    PROVE  Filled(Take(r, ranked[k], budget), ranked, budget, k)
<1> DEFINE m == ranked[k]
<1>1. /\ budget.items \in Nat /\ budget.tokens \in Nat /\ m \in MemoryId /\ Cost[m] \in Nat
      /\ \A i \in 1..n : Cost[ranked[i]] \in Nat
  BY MemoryConstantsAssumption
<1>2. /\ r.items \subseteq {ranked[i] : i \in 1..(k - 1)}
      /\ IsFiniteSet(r.items) /\ Cardinality(r.items) <= budget.items
      /\ r.tokens = Tokens(r.items) /\ r.tokens \in Nat /\ r.tokens <= budget.tokens
  BY DEF Filled
<1>3. \A i \in 1..(k - 1) : ranked[i] \in r.items \/ ~Fits(r, ranked[i], budget)
  BY DEF Filled
<1>4. \A i \in 1..k : i = k \/ i \in 1..(k - 1)
  OBVIOUS
<1>5. {ranked[i] : i \in 1..(k - 1)} \subseteq {ranked[i] : i \in 1..k}
  OBVIOUS
<1>6. CASE ~Fits(r, m, budget)
  <2>1. Take(r, m, budget) = r
    BY <1>6 DEF Take
  <2>2. \A i \in 1..k : ranked[i] \in r.items \/ ~Fits(r, ranked[i], budget)
    BY <1>3, <1>4, <1>6
  <2> QED BY <1>2, <1>5, <2>1, <2>2 DEF Filled
<1>7. CASE Fits(r, m, budget)
  <2> DEFINE s == [items |-> r.items \cup {m}, tokens |-> r.tokens + Cost[m]]
  <2>1. Take(r, m, budget) = s
    BY <1>7 DEF Take
  <2>2. m \notin r.items
    <3>1. \A i \in 1..(k - 1) : i \in 1..n /\ i # k
      OBVIOUS
    <3>2. \A i \in 1..(k - 1) : ranked[i] # m
      BY <3>1
    <3> QED BY <1>2, <3>2
  <2>3. r.items \in SUBSET MemoryId
    <3>1. \A i \in 1..(k - 1) : ranked[i] \in MemoryId
      OBVIOUS
    <3> QED BY <1>2, <3>1
  <2>4. Cardinality(r.items) < budget.items /\ r.tokens + Cost[m] <= budget.tokens
    BY <1>7 DEF Fits
  <2>5. IsFiniteSet(s.items) /\ Cardinality(s.items) = Cardinality(r.items) + 1
    BY <1>2, <2>2, FS_AddElement
  <2>6. Cardinality(r.items) \in Nat
    BY <1>2, FS_CardinalityType
  <2>7. Tokens(r.items \cup {m}) = Tokens(r.items) + Cost[m]
    BY <1>1, <2>2, <2>3, TokensOfOneMore
  <2>8. s.items = r.items \cup {m} /\ s.tokens = r.tokens + Cost[m]
    OBVIOUS
  <2> HIDE DEF s
  <2>9. s.items \subseteq {ranked[i] : i \in 1..k}
    <3>1. m \in {ranked[i] : i \in 1..k}
      BY <1>4
    <3> QED BY <1>2, <1>5, <2>8, <3>1
  <2>10. Cardinality(s.items) <= budget.items
    BY <1>1, <2>4, <2>5, <2>6
  <2>11. s.tokens = Tokens(s.items) /\ s.tokens \in Nat /\ s.tokens <= budget.tokens
    BY <1>1, <1>2, <2>4, <2>7, <2>8
  <2>12. ASSUME NEW i \in 1..k PROVE ranked[i] \in s.items \/ ~Fits(s, ranked[i], budget)
    <3>1. CASE i = k
      BY <2>8, <3>1
    <3>2. CASE i # k
      <4>1. i \in 1..(k - 1) /\ i \in 1..n
        BY <1>4, <3>2
      <4>2. CASE ranked[i] \in r.items
        BY <2>8, <4>2
      <4>3. CASE ~Fits(r, ranked[i], budget)
        <5>1. ~(Cardinality(r.items) < budget.items) \/ ~(r.tokens + Cost[ranked[i]] <= budget.tokens)
          BY <4>3 DEF Fits
        <5>2. Cost[ranked[i]] \in Nat
          BY <1>1, <4>1
        <5>3. ~(Cardinality(s.items) < budget.items) \/ ~(s.tokens + Cost[ranked[i]] <= budget.tokens)
          BY <1>1, <1>2, <2>5, <2>6, <2>8, <5>1, <5>2
        <5> QED BY <5>3 DEF Fits
      <4> QED BY <1>3, <4>1, <4>2, <4>3
    <3> QED BY <3>1, <3>2
  <2> QED BY <2>1, <2>5, <2>9, <2>10, <2>11, <2>12 DEF Filled
<1> QED BY <1>6, <1>7

LEMMA RecallFills ==
    ASSUME NEW ranked, NEW budget \in Budgets, Len(ranked) \in Nat,
           \A i \in 1..Len(ranked) : ranked[i] \in MemoryId,
           \A i, j \in 1..Len(ranked) : i # j => ranked[i] # ranked[j]
    PROVE  Filled(Recall(ranked, budget), ranked, budget, Len(ranked))
<1> DEFINE n == Len(ranked)
<1>1. PICK f : /\ Recall(ranked, budget) = f[n]
               /\ \A k \in 0..n :
                      f[k] = IF k = 0 THEN NothingRecalled ELSE Take(f[k - 1], ranked[k], budget)
  BY RecallChooses
<1> DEFINE S == {k \in 0..n : ~Filled(f[k], ranked, budget, k)}
<1>2. S = {}
  <2> SUFFICES ASSUME S # {} PROVE FALSE
    OBVIOUS
  <2>1. PICK k \in S : \A m \in S : k <= m
    <3>1. S \in SUBSET Nat
      OBVIOUS
    <3> HIDE DEF S
    <3> QED BY <3>1, LowestNumber
  <2>2. k \in 0..n /\ ~Filled(f[k], ranked, budget, k)
    OBVIOUS
  <2>3. CASE k = 0
    <3>1. f[k] = NothingRecalled
      BY <1>1, <2>2, <2>3
    <3> QED BY <2>2, <2>3, <3>1, NothingFills
  <2>4. CASE k # 0
    <3>1. k \in 1..n /\ k - 1 \in 0..n /\ k - 1 \notin S
      BY <2>1, <2>2, <2>4
    <3>2. Filled(f[k - 1], ranked, budget, k - 1)
      BY <3>1
    <3>3. f[k] = Take(f[k - 1], ranked[k], budget)
      BY <1>1, <2>2, <2>4
    <3>4. Filled(Take(f[k - 1], ranked[k], budget), ranked, budget, k)
      BY <3>1, <3>2, TakeFills
    <3> QED BY <2>2, <3>3, <3>4
  <2> QED BY <2>3, <2>4
<1> QED BY <1>1, <1>2

LEMMA RecallsFillBudgets == RecallFillsBudget
<1> SUFFICES ASSUME NEW ranked \in Rankings, NEW budget \in Budgets
             PROVE  LET result == Recall(ranked, budget) IN
                    /\ result.items \subseteq Found /\ Cardinality(result.items) <= budget.items
                    /\ result.tokens = Tokens(result.items) /\ result.tokens <= budget.tokens
                    /\ \A m \in Found \ result.items : ~Fits(result, m, budget)
  BY DEF RecallFillsBudget
<1> DEFINE n == Cardinality(Found)
           result == Recall(ranked, budget)
<1>1. Found \subseteq MemoryId /\ IsFiniteSet(Found) /\ n \in Nat
  <2>1. Found \in SUBSET MemoryId /\ IsFiniteSet(MemoryId)
    BY MemoryConstantsAssumption DEF Found
  <2>2. IsFiniteSet(Found)
    BY <2>1, FS_Subset
  <2> QED BY <2>1, <2>2, FS_CardinalityType
<1>2. ranked \in [1..n -> Found] /\ \A i, j \in 1..n : i # j => ranked[i] # ranked[j]
  BY DEF Rankings, SetToSeqs
<1>3. Len(ranked) = n
  BY <1>1, <1>2
<1>4. \A m \in Found : \E i \in 1..n : ranked[i] = m
  <2>1. ranked \in Injection(1..n, Found)
    BY <1>2 DEF Injection, IsInjective
  <2>2. Cardinality(1..n) = n
    BY <1>1, FS_Interval
  <2>3. ranked \in Surjection(1..n, Found)
    BY <1>1, <2>1, <2>2, FS_Injection
  <2> QED BY <2>3 DEF Surjection
<1>5. Filled(result, ranked, budget, n)
  BY <1>1, <1>2, <1>3, RecallFills
<1> HIDE DEF n, result
<1>6. /\ result.items \subseteq {ranked[i] : i \in 1..n} /\ Cardinality(result.items) <= budget.items
      /\ result.tokens = Tokens(result.items) /\ result.tokens <= budget.tokens
      /\ \A i \in 1..n : ranked[i] \in result.items \/ ~Fits(result, ranked[i], budget)
  BY <1>5 DEF Filled
<1>7. result.items \subseteq Found
  BY <1>2, <1>6
<1>8. \A m \in Found \ result.items : ~Fits(result, m, budget)
  BY <1>4, <1>6
<1> QED BY <1>6, <1>7, <1>8 DEF result

(* Every state keeps to the types, an approval that was decided and the    *)
(* item it was asked for tell the same (decide_approval,                   *)
(* transition_memory_approval and run_retention), and what is recalled in  *)
(* it, whatever the query, keeps to its budget and uses it (recall).       *)
THEOREM MemoryStaysConsistent == Spec => []MemoryIsConsistent
<1>1. MemoryInv => MemoryIsConsistent
  BY RecallsFillBudgets DEF MemoryInv, MemoryIsConsistent
<1> QED BY <1>1, MemoryStarts, MemoryStays, PTL DEF Spec
=============================================================================
