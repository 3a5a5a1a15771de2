------------------------------- MODULE Memory -------------------------------
(***************************************************************************)
(* MemoryService (canto/core/memory.py) over the state store: items are    *)
(* proposed, activated by an approval that a developer or the bounded      *)
(* orchestrator policy decides, superseded, expired, deleted and purged.   *)
(*                                                                         *)
(* Every method reads rows, decides, and writes them back: one action per  *)
(* store call that another process can observe.  row[p] is the copy of the *)
(* item p read; a transition compares only the status the row had, and     *)
(* writes the copy.  Title, body and source of an item never change.       *)
(***************************************************************************)
EXTENDS Integers, FiniteSets, SequencesExt, FiniteSetsExt

CONSTANTS
    Proc,        \* processes: CLI invocations and API requests
    Mortal,      \* those that may die between two store calls
    MemoryId,    \* identifiers that may be handed out, in their order
    ApprovalId,  \* identifiers of approvals that may be handed out
    None,        \* the absent value
    Name,        \* what an item is called
    Source,      \* the reference an item is taken from
    Allowed,     \* items whose type, scope, author and source the policy allows
    Observed,    \* items that may be attached as observations
    Summary,     \* items of type summary, which age while active
    Operator,    \* processes that run the operator's commands: expire, delete,
                 \* supersede, purge and retain
    Curated,     \* bound: the items any command is explored on but propose
    Cost,        \* estimated tokens of an item
    Budgets,     \* budgets of recall, in items and tokens
    TaskLimit,   \* max_auto_activations_per_task
    DayLimit     \* max_auto_activations_per_day (the model covers one day)

ASSUME MemoryConstantsAssumption ==
    /\ MemoryId \subseteq Nat /\ IsFiniteSet(MemoryId)
    /\ DOMAIN Name = MemoryId /\ DOMAIN Source = MemoryId
    /\ Cost \in [MemoryId -> Nat \ {0}]
    /\ Allowed \cup Observed \cup Summary \cup Curated \subseteq MemoryId
    /\ Budgets \subseteq [items: Nat, tokens: Nat]
    /\ TaskLimit \in Nat /\ DayLimit \in Nat
    /\ Mortal \cup Operator \subseteq Proc /\ None \notin MemoryId \cup ApprovalId

LegalTransitions ==
    [observed   |-> {"proposed", "expired", "deleted"},
     proposed   |-> {"active", "rejected", "expired", "deleted"},
     active     |-> {"superseded", "expired", "deleted"},
     superseded |-> {"deleted"},
     expired    |-> {"deleted"},
     rejected   |-> {"deleted"},
     deleted    |-> {}]

Stored == DOMAIN LegalTransitions

ItemRow == [status: Stored \cup {"absent", "purged"},
            approval: ApprovalId \cup {None},      \* approval_id
            successor: MemoryId \cup {None}]       \* superseded_by
AbsentItem == [status |-> "absent", approval |-> None, successor |-> None]

ApprovalRow == [status: {"absent", "pending", "approved", "rejected"},
                subject: MemoryId \cup {None}]

VARIABLES
    items,       \* memory_items
    approvals,   \* the approvals whose subject is an item
    conflicted,  \* items with a conflict_detected event
    activated,   \* items with an activated event of the orchestrator
    pc,          \* where each process is in a method
    op,          \* the method it was called for
    item,        \* the item it works on
    row,         \* its copy of the item's row
    todo         \* retention: what is left of the list it read

store  == <<items, approvals, conflicted, activated>>
locals == <<pc, op, item, row, todo>>
vars   == <<store, locals>>

Label == {"idle", "conflicts", "mark", "consider", "countTask", "countDay", "read",
          "ask", "link", "decide", "settle", "record", "move", "replace", "sweep",
          "expire", "again", "retire"}
Method == {"none", "propose", "request", "approve", "reject", "auto", "expired",
           "deleted", "supersede", "retain"}

Init ==
    /\ items = [m \in MemoryId |-> AbsentItem]
    /\ approvals = [a \in ApprovalId |-> [status |-> "absent", subject |-> None]]
    /\ conflicted = {}
    /\ activated = {}
    /\ pc = [p \in Proc |-> "idle"]
    /\ op = [p \in Proc |-> "none"]
    /\ item = [p \in Proc |-> None]
    /\ row = [p \in Proc |-> AbsentItem]
    /\ todo = [p \in Proc |-> {}]

-----------------------------------------------------------------------------
(* Local control and the store's calls.                                    *)

Goto(p, label) == pc' = [pc EXCEPT ![p] = label]

Return(p) ==
    /\ Goto(p, "idle")
    /\ op' = [op EXCEPT ![p] = "none"]
    /\ item' = [item EXCEPT ![p] = None]
    /\ row' = [row EXCEPT ![p] = AbsentItem]
    /\ todo' = [todo EXCEPT ![p] = {}]

Begin(p, method, label, m, copy) ==
    /\ pc[p] = "idle"
    /\ Goto(p, label)
    /\ op' = [op EXCEPT ![p] = method]
    /\ item' = [item EXCEPT ![p] = m]
    /\ row' = [row EXCEPT ![p] = copy]
    /\ UNCHANGED todo

(* get: a purged item is unknown, and the method ends with an error.       *)
Known(m) == items[m].status \in Stored

(* Mutant: an update by key alone.                                         *)
MatchesAny(m, expected) == Known(m)

(* UPDATE ... WHERE status IN expected.                                    *)
Matches(m, expected) == items[m].status \in expected

SetItem(m, value) == items' = [items EXCEPT ![m] = value]

(* Bound: no more approvals for the curated items than there are of these. *)
Fresh(m) ==
    LET asked == {a \in ApprovalId : approvals[a].subject \in Curated} IN
    IF m \in Curated /\ Cardinality(asked) >= Cardinality(Curated) THEN {}
    ELSE {a \in ApprovalId : approvals[a].status = "absent"}
NextFresh == CHOOSE a \in ApprovalId : approvals[a].status = "absent"

-----------------------------------------------------------------------------
(* propose                                                                 *)

(* Bound: items outside Curated, and the commands that developers and      *)
(* operators give, are not explored together.                              *)
Uncurated ==
    /\ \A m \in MemoryId : items[m].status \in {"absent", "observed", "proposed", "active"}
    /\ \A p \in Proc : op[p] \in {"none", "propose", "auto"}

OnlyCurated == \A m \in MemoryId \ Curated : items[m].status = "absent"

(* Identifiers are handed out in their order, which loses nothing: an      *)
(* item's data comes with its identifier.                                  *)
Propose(p, m, status) ==
    /\ items[m].status = "absent"
    /\ m \in Curated \/ Uncurated
    /\ \A n \in MemoryId : n < m => items[n].status # "absent"
    /\ status = "observed" => m \in Observed
    /\ SetItem(m, [AbsentItem EXCEPT !.status = status])
    /\ Begin(p, "propose", "conflicts", m, [AbsentItem EXCEPT !.status = status])
    /\ UNCHANGED <<approvals, conflicted, activated>>

(* Active items of the same name; bodies of two items always differ.       *)
Conflicts(m) == {n \in MemoryId \ {m} : items[n].status = "active" /\ Name[n] = Name[m]}

(* Only a proposal goes on to activate_by_orchestrator.                    *)
AfterConflicts(p) ==
    IF row[p].status = "observed" THEN Return(p)
    ELSE Goto(p, "consider") /\ UNCHANGED <<op, item, row, todo>>

FindConflicts(p) ==
    /\ pc[p] = "conflicts"
    /\ IF Conflicts(item[p]) # {}
       THEN Goto(p, "mark") /\ UNCHANGED <<op, item, row, todo>>
       ELSE AfterConflicts(p)
    /\ UNCHANGED store

(* An event refers to an item that exists: a purge in between is an error. *)
MarkConflict(p) ==
    /\ pc[p] = "mark"
    /\ IF Known(item[p])
       THEN conflicted' = conflicted \cup {item[p]} /\ AfterConflicts(p)
       ELSE Return(p) /\ UNCHANGED conflicted
    /\ UNCHANGED <<items, approvals, activated>>

-----------------------------------------------------------------------------
(* activate_by_orchestrator                                                *)

(* Everything _orchestrator_activation_allowed asks before it counts.      *)
Eligible(m) == items[m].status = "proposed" /\ m \in Allowed /\ m \notin conflicted

Consider(p) ==
    /\ pc[p] = "consider"
    /\ IF Eligible(item[p])
       THEN Goto(p, "countTask") /\ UNCHANGED <<op, item, row, todo>>
       ELSE Return(p)
    /\ UNCHANGED store

(* Mutant: one too many.                                                   *)
WithinLimitInclusive(count, limit) == count <= limit

WithinLimit(count, limit) == count < limit

CountTask(p) ==
    /\ pc[p] = "countTask"
    /\ IF WithinLimit(Cardinality({n \in activated : Source[n] = Source[item[p]]}), TaskLimit)
       THEN Goto(p, "countDay") /\ UNCHANGED <<op, item, row, todo>>
       ELSE Return(p)
    /\ UNCHANGED store

CountDay(p) ==
    /\ pc[p] = "countDay"
    /\ IF WithinLimit(Cardinality(activated), DayLimit)
       THEN Goto(p, "read") /\ op' = [op EXCEPT ![p] = "auto"] /\ UNCHANGED <<item, row, todo>>
       ELSE Return(p)
    /\ UNCHANGED store

-----------------------------------------------------------------------------
(* request_approval                                                        *)

RequestApproval(p, m) ==
    /\ OnlyCurated
    /\ Known(m)
    /\ Begin(p, "request", "read", m, AbsentItem)
    /\ UNCHANGED store

(* An item that has an approval already gets that one back.                *)
ReadProposal(p) ==
    /\ pc[p] = "read"
    /\ LET r == items[item[p]] IN
       IF r.status = "proposed" /\ (r.approval = None \/ op[p] = "auto")
       THEN /\ row' = [row EXCEPT ![p] = r]
            /\ Goto(p, IF r.approval = None THEN "ask" ELSE "decide")
            /\ UNCHANGED <<op, item, todo>>
       ELSE Return(p)
    /\ UNCHANGED store

(* The approval is stored before the item refers to it.                    *)
AskApproval(p) ==
    /\ pc[p] = "ask" /\ Fresh(item[p]) # {}
    /\ approvals' = [approvals EXCEPT ![NextFresh] = [status |-> "pending", subject |-> item[p]]]
    /\ row' = [row EXCEPT ![p].approval = NextFresh]
    /\ Goto(p, "link")
    /\ UNCHANGED <<items, conflicted, activated, op, item, todo>>

LinkApproval(p) ==
    /\ pc[p] = "link"
    /\ IF Matches(item[p], {"proposed"})
       THEN /\ SetItem(item[p], row[p])
            /\ IF op[p] = "auto"
               THEN Goto(p, "decide") /\ UNCHANGED <<op, item, row, todo>>
               ELSE Return(p)
       ELSE Return(p) /\ UNCHANGED items
    /\ UNCHANGED <<approvals, conflicted, activated>>

-----------------------------------------------------------------------------
(* decide_approval                                                         *)

(* canto approve and reject; POST /approvals/{id}/approve and /reject.     *)
Decide(p, a, method) ==
    /\ OnlyCurated
    /\ method \in {"approve", "reject"} /\ approvals[a].status = "pending"
    /\ Begin(p, method, "decide", approvals[a].subject, [AbsentItem EXCEPT !.approval = a])
    /\ UNCHANGED store

Approves(p) == op[p] \in {"approve", "auto"}

(* Mutant: the command is stored as the decision.                          *)
DecisionAsGiven(p) == op[p]

Decision(p) == IF Approves(p) THEN "approved" ELSE "rejected"

(* The approval and the item are read one after the other; both statuses   *)
(* are compared again with the write, and none of them ever comes back.    *)
CheckDecision(p) ==
    /\ pc[p] = "decide"
    /\ LET r == items[item[p]]  a == row[p].approval IN
       IF /\ approvals[a].status = "pending"
          /\ r.status = "proposed" /\ r.approval = a
       THEN /\ row' = [row EXCEPT ![p] =
                   [r EXCEPT !.status = IF Approves(p) THEN "active" ELSE "rejected"]]
            /\ Goto(p, "settle")
            /\ UNCHANGED <<op, item, todo>>
       ELSE Return(p)
    /\ UNCHANGED store

(* transition_memory_approval: both rows, or none.                         *)
TransitionApproval(a, m, decision, value) ==
    /\ approvals' = [approvals EXCEPT ![a].status = decision]
    /\ SetItem(m, value)

(* Mutant: the item's status is not compared.                              *)
ApprovalMatches(a, m) == approvals[a].status = "pending" /\ Known(m)

BothMatch(a, m) == approvals[a].status = "pending" /\ Matches(m, {"proposed"})

Settle(p) ==
    /\ pc[p] = "settle"
    /\ LET a == row[p].approval IN
       IF BothMatch(a, item[p])
       THEN /\ TransitionApproval(a, item[p], Decision(p), row[p])
            /\ IF op[p] = "auto"
               THEN Goto(p, "record") /\ UNCHANGED <<op, item, row, todo>>
               ELSE Return(p)
       ELSE Return(p) /\ UNCHANGED <<items, approvals>>
    /\ UNCHANGED <<conflicted, activated>>

(* The event that the limits count comes last.                             *)
RecordActivation(p) ==
    /\ pc[p] = "record"
    /\ activated' = IF Known(item[p]) THEN activated \cup {item[p]} ELSE activated
    /\ Return(p)
    /\ UNCHANGED <<items, approvals, conflicted>>

-----------------------------------------------------------------------------
(* transition, supersede, purge                                            *)

(* canto memory expire and delete.                                         *)
Transition(p, m, target) ==
    /\ OnlyCurated
    /\ target \in {"expired", "deleted"}
    /\ Known(m) /\ target \in LegalTransitions[items[m].status]
    /\ Begin(p, target, "move", m, items[m])
    /\ UNCHANGED store

Move(p) ==
    /\ pc[p] = "move"
    /\ items' = IF Matches(item[p], {row[p].status})
                THEN [items EXCEPT ![item[p]] = [row[p] EXCEPT !.status = op[p]]]
                ELSE items
    /\ Return(p)
    /\ UNCHANGED <<approvals, conflicted, activated>>

(* The replacement is read after the item itself, whose status the write   *)
(* compares again; nothing compares the replacement's.                     *)
Supersede(p, m, n) ==
    /\ OnlyCurated
    /\ items[m].status = "active" /\ items[n].status = "active"
    /\ Begin(p, "supersede", "replace", m, [items[m] EXCEPT !.successor = n])
    /\ UNCHANGED store

SupersedeOld(p) ==
    /\ pc[p] = "replace"
    /\ items' = IF Matches(item[p], {"active"})
                THEN [items EXCEPT ![item[p]] = [row[p] EXCEPT !.status = "superseded"]]
                ELSE items
    /\ Return(p)
    /\ UNCHANGED <<approvals, conflicted, activated>>

(* The item and, by the foreign key, its events.                           *)
Purge(p, m) ==
    /\ OnlyCurated
    /\ pc[p] = "idle" /\ Known(m)
    /\ SetItem(m, [AbsentItem EXCEPT !.status = "purged"])
    /\ conflicted' = conflicted \ {m}
    /\ activated' = activated \ {m}
    /\ UNCHANGED <<approvals, locals>>

-----------------------------------------------------------------------------
(* run_retention                                                           *)

(* Items whose age can pass a limit; how old they are is left open.        *)
MayAge(m) ==
    \/ items[m].status \in {"observed", "proposed"}
    \/ items[m].status = "active" /\ m \in Summary

Retain(p, due) ==
    /\ OnlyCurated
    /\ pc[p] = "idle" /\ due # {} /\ \A m \in due : MayAge(m)
    /\ Goto(p, "sweep")
    /\ op' = [op EXCEPT ![p] = "retain"]
    /\ todo' = [todo EXCEPT ![p] =
           {[item |-> m, status |-> items[m].status, approval |-> items[m].approval] : m \in due}]
    /\ UNCHANGED <<item, row, store>>

FirstOf(S) == CHOOSE t \in S : \A u \in S : t.item <= u.item

(* Linked to an approval that is pending: the two are settled together.    *)
Linked(t) == t.status = "proposed" /\ t.approval # None /\ approvals[t.approval].status = "pending"

SweepNext(p) ==
    /\ pc[p] = "sweep" /\ todo[p] # {}
    /\ LET t == FirstOf(todo[p]) IN
       /\ todo' = [todo EXCEPT ![p] = @ \ {t}]
       /\ item' = [item EXCEPT ![p] = t.item]
       /\ row' = [row EXCEPT ![p] = [AbsentItem EXCEPT !.status = t.status, !.approval = t.approval]]
       /\ Goto(p, IF Linked(t) THEN "expire" ELSE "again")
    /\ UNCHANGED <<op, store>>

SweepDone(p) ==
    /\ pc[p] = "sweep" /\ todo[p] = {}
    /\ Return(p)
    /\ UNCHANGED store

(* Losing the race leaves the item to whoever won it.                      *)
ExpireLinked(p) ==
    /\ pc[p] = "expire"
    /\ IF BothMatch(row[p].approval, item[p])
       THEN TransitionApproval(row[p].approval, item[p], "rejected",
                               [row[p] EXCEPT !.status = "expired"])
       ELSE UNCHANGED <<items, approvals>>
    /\ Goto(p, "sweep")
    /\ UNCHANGED <<conflicted, activated, op, item, row, todo>>

(* transition: the row is read once more; what may not expire any more     *)
(* ends the whole run with an error.                                       *)
ReadAgain(p) ==
    /\ pc[p] = "again"
    /\ IF Known(item[p]) /\ "expired" \in LegalTransitions[items[item[p]].status]
       THEN /\ row' = [row EXCEPT ![p] = items[item[p]]]
            /\ Goto(p, "retire")
            /\ UNCHANGED <<op, item, todo>>
       ELSE Return(p)
    /\ UNCHANGED store

ExpireUnlinked(p) ==
    /\ pc[p] = "retire"
    /\ IF Matches(item[p], {row[p].status})
       THEN /\ SetItem(item[p], [row[p] EXCEPT !.status = "expired"])
            /\ Goto(p, "sweep")
            /\ UNCHANGED <<op, item, row, todo>>
       ELSE Return(p) /\ UNCHANGED items
    /\ UNCHANGED <<approvals, conflicted, activated>>

-----------------------------------------------------------------------------
(* recall and context_pack                                                 *)

NothingRecalled == [items |-> {}, tokens |-> 0]

Fits(result, m, budget) ==
    Cardinality(result.items) < budget.items /\ result.tokens + Cost[m] <= budget.tokens

(* What does not fit is passed over.                                       *)
Take(result, m, budget) ==
    IF Fits(result, m, budget)
    THEN [items |-> result.items \cup {m}, tokens |-> result.tokens + Cost[m]]
    ELSE result

(* Mutant: the first item that does not fit ends the selection.            *)
RecallUntilFull(ranked, budget) ==
    LET chosen[k \in 0..Len(ranked)] ==
          IF k = 0 THEN NothingRecalled
          ELSE IF \E i \in 1..k : ~Fits(chosen[i - 1], ranked[i], budget) THEN chosen[k - 1]
          ELSE Take(chosen[k - 1], ranked[k], budget)
    IN chosen[Len(ranked)]

(* The items that were found are gone through once, the best first; tokens *)
(* is what those that are chosen add up to.                                *)
Recall(ranked, budget) ==
    LET chosen[k \in 0..Len(ranked)] ==
          IF k = 0 THEN NothingRecalled ELSE Take(chosen[k - 1], ranked[k], budget)
    IN chosen[Len(ranked)]

(* Only active items are found; their scores depend on the query.          *)
Found == {m \in MemoryId : items[m].status = "active"}
Rankings == SetToSeqs(Found)

-----------------------------------------------------------------------------
(* The specification.                                                      *)

(* A process that does not die may still be interrupted between two items. *)
Die(p) ==
    /\ p \in Mortal /\ pc[p] # "idle"
    /\ Return(p)
    /\ UNCHANGED store

ProposeSome(p) == \E m \in MemoryId, status \in {"proposed", "observed"} : Propose(p, m, status)

Develop(p) ==
    \/ \E m \in Curated : RequestApproval(p, m)
    \/ \E a \in ApprovalId, method \in {"approve", "reject"} : Decide(p, a, method)

Operate(p) ==
    \/ \E m \in Curated :
         \/ Purge(p, m)
         \/ \E target \in {"expired", "deleted"} : Transition(p, m, target)
         \/ \E n \in Curated : Supersede(p, m, n)
    \/ \E due \in SUBSET Curated : Retain(p, due)

Step(p) ==
    \/ FindConflicts(p) \/ MarkConflict(p) \/ Consider(p) \/ CountTask(p) \/ CountDay(p)
    \/ ReadProposal(p) \/ AskApproval(p) \/ LinkApproval(p)
    \/ CheckDecision(p) \/ Settle(p) \/ RecordActivation(p)
    \/ Move(p) \/ SupersedeOld(p)
    \/ SweepNext(p) \/ SweepDone(p) \/ ExpireLinked(p) \/ ReadAgain(p) \/ ExpireUnlinked(p)

Next ==
    \/ \E p \in Proc : ProposeSome(p) \/ Step(p) \/ Die(p)
    \/ \E p \in Proc : Develop(p)
    \/ \E p \in Operator : Operate(p)

Spec == Init /\ [][Next]_vars

-----------------------------------------------------------------------------
(* Properties                                                              *)

(* Type invariant.                                                         *)
TypeOK ==
    /\ items \in [MemoryId -> ItemRow]
    /\ approvals \in [ApprovalId -> ApprovalRow]
    /\ conflicted \subseteq MemoryId /\ activated \subseteq MemoryId
    /\ pc \in [Proc -> Label]
    /\ op \in [Proc -> Method]
    /\ item \in [Proc -> MemoryId \cup {None}]
    /\ row \in [Proc -> ItemRow]
    /\ todo \in [Proc -> SUBSET [item: MemoryId, status: Stored, approval: ApprovalId \cup {None}]]

(* An approval and the item it decided tell the same: whoever decided, and *)
(* whatever raced it, the item refers to that approval and went the way it *)
(* says, or was purged since.                                              *)
DecisionsAgree ==
    \A a \in ApprovalId : approvals[a].status \in {"approved", "rejected"} =>
        LET r == items[approvals[a].subject] IN
        \/ r.status = "purged"
        \/ /\ r.approval = a
           /\ r.status \in IF approvals[a].status = "approved"
                           THEN {"active", "superseded", "expired", "deleted"}
                           ELSE {"rejected", "expired", "deleted"}

(* The limit on activations of one task is overrun by no more than the     *)
(* processes that may have counted before one of them records.             *)
ActivationLimit ==
    \A n \in activated :
        Cardinality({m \in activated : Source[m] = Source[n]}) <= TaskLimit + Cardinality(Proc) - 1

(* Items come into force by one decision made while they were proposed and *)
(* never come back once they left (canto/core/memory.py, LEGAL_TRANSITIONS *)
(* and decide_approval).                                                   *)
StandingOf(status) ==
    CASE status = "absent" -> "none"
      [] status = "proposed" -> "candidate"
      [] status = "active" -> "inForce"
      [] OTHER -> "past"
Decided(decision) == {approvals[a].subject : a \in {b \in ApprovalId : approvals[b].status = decision}}

Governed == INSTANCE GovernedMemory WITH
    standing <- [m \in MemoryId |-> StandingOf(items[m].status)],
    granted  <- Decided("approved"),
    refused  <- Decided("rejected")

ImplementsGovernedMemory == Governed!Spec

(* The tokens of items, of each its own.                                   *)
Tokens(S) == Cardinality(UNION {{m} \X (1..Cost[m]) : m \in S})

(* What recall returns keeps to both budgets, adds up to the tokens that   *)
(* it says, and leaves out nothing that would still have fitted.           *)
RecallFillsBudget ==
    \A ranked \in Rankings, budget \in Budgets :
        LET result == Recall(ranked, budget) IN
        /\ result.items \subseteq Found /\ Cardinality(result.items) <= budget.items
        /\ result.tokens = Tokens(result.items) /\ result.tokens <= budget.tokens
        /\ \A m \in Found \ result.items : ~Fits(result, m, budget)

(* The state invariant: decisions agree with items, and what is recalled   *)
(* in such a state keeps to its budget.                                    *)
MemoryIsConsistent == TypeOK /\ DecisionsAgree /\ RecallFillsBudget
=============================================================================
