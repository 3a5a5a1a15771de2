-------------------------- MODULE DelegationProofs --------------------------
(***************************************************************************)
(* Theorems about delegated tasks, worker selection and promotion          *)
(* included, for every set of processes, tasks, patches, hunks and         *)
(* revisions. The first part goes up to the review: states are well typed, *)
(* revisions are captured once each and in order, and what is accepted was *)
(* captured and approved. The second is about Promotion, with any command  *)
(* dying at any point: what reaches the canonical worktree was approved,   *)
(* one command at a time changes it for a task, and what was promoted      *)
(* stays.                                                                  *)
(***************************************************************************)
EXTENDS WorkerSelection, Promotion, TLAPS

(* A reviewer has accepted revision n of t.                                *)
Approved(t, n) == [revision |-> n, decision |-> "accepted"] \in reviews[t]

(* A row of t, in the table or a copy: what it refers to exists.           *)
GoodRow(t, r) ==
    /\ r \in TaskRow
    /\ r.latest <= Len(results[t])
    /\ r.accepted # None => r.accepted <= Len(results[t]) /\ Approved(t, r.accepted)

(* The results of t are its revisions 1, 2, ...; of these, and of at most  *)
(* one more, there are directories.                                        *)
GoodResults(t) ==
    /\ \A i \in 1 .. Len(results[t]) : results[t][i].revision = i /\ i \in revdirs[t]
    /\ \A n \in revdirs[t] : n <= Len(results[t]) + 1

Continuation == {"idle", "executor", "launch", "attempt", "attempted", "apply"}

(* What a command holds where it is.                                       *)
GoodLocals(p) ==
    /\ IF pc[p] = "idle" THEN tid[p] = None /\ row[p] = AbsentTask /\ res[p] = None
       ELSE tid[p] \in Task /\ GoodRow(tid[p], row[p])
    /\ next[p] \in Continuation
    /\ pc[p] = "save" => next[p] # "idle"
    /\ pc[p] = "capture" => row[p].latest < MaxRevision
    /\ pc[p] \in {"record", "review"} => res[p] # None
    /\ pc[p] = "review" => to[p] \in Decision
    /\ pc[p] \in {"move", "set"} => to[p] \in TaskStatus \ {"cancelled"}
    /\ pc[p] = "set" => MayMove(row[p].status, to[p])
    /\ pc[p] \in {"move", "set"} /\ to[p] \in {"reviewing", "accepted"} => res[p] # None
    /\ pc[p] \in {"move", "set"} /\ to[p] = "accepted" => Approved(tid[p], res[p].revision)
    /\ pc[p] # "record" /\ res[p] # None => res[p].revision <= Len(results[tid[p]])
    /\ pc[p] = "record" => /\ res[p].revision = Len(results[tid[p]]) + 1
                           /\ res[p].revision \in revdirs[tid[p]]

OneRecorder == \A p, q \in Proc :
    pc[p] = "record" /\ pc[q] = "record" /\ tid[p] = tid[q] => p = q

DelegationInv ==
    /\ TypeOK
    /\ \A t \in Task : GoodRow(t, tasks[t]) /\ GoodResults(t)
    /\ \A p \in Proc : GoodLocals(p)
    /\ OneRecorder

-----------------------------------------------------------------------------
LocalTypes ==
    /\ pc \in [Proc -> Label] /\ tid \in [Proc -> Task \cup {None}]
    /\ row \in [Proc -> TaskRow] /\ res \in [Proc -> Result \cup {None}]
    /\ to \in [Proc -> TaskStatus \cup {None}] /\ next \in [Proc -> Label]

StoreTypes ==
    /\ tasks \in [Task -> TaskRow]
    /\ results \in [Task -> Seq(Result)] /\ reviews \in [Task -> SUBSET Review]
    /\ workless \in [Task -> BOOLEAN] /\ root \in [Task -> BOOLEAN]
    /\ prepared \in [Task -> BOOLEAN] /\ worktree \in [Task -> Patch \cup {None}]
    /\ revdirs \in [Task -> SUBSET Revision]

LEMMA TypeParts == TypeOK <=> LocalTypes /\ StoreTypes
BY DEF TypeOK, LocalTypes, StoreTypes

LEMMA AbsentTaskGood ==
    ASSUME StoreTypes
    PROVE  AbsentTask \in TaskRow /\ \A t \in Task : GoodRow(t, AbsentTask)
<1>1. AbsentTask \in TaskRow
    BY DelegationAssumption DEF AbsentTask, TaskRow, TaskStatus
<1>2. \A t \in Task : Len(results[t]) \in Nat
    BY DEF StoreTypes
<1> QED BY <1>1, <1>2 DEF GoodRow, AbsentTask

LEMMA InitDelegation == Init => DelegationInv
<1> SUFFICES ASSUME Init PROVE DelegationInv
    OBVIOUS
<1>1. StoreTypes
  <2>1. AbsentTask \in TaskRow
    BY DelegationAssumption DEF AbsentTask, TaskRow, TaskStatus
  <2>2. <<>> \in Seq(Result)
    OBVIOUS
  <2> QED BY <2>1, <2>2 DEF Init, StoreTypes
<1>2. LocalTypes
    BY <1>1, AbsentTaskGood DEF Init, LocalTypes, Label
<1>3. \A t \in Task : GoodRow(t, tasks[t]) /\ GoodResults(t)
    BY <1>1, AbsentTaskGood DEF Init, GoodResults
<1>4. \A p \in Proc : GoodLocals(p)
    BY DEF Init, GoodLocals, Continuation
<1>5. OneRecorder
    BY DEF Init, OneRecorder
<1> QED BY <1>1, <1>2, <1>3, <1>4, <1>5, TypeParts DEF DelegationInv

-----------------------------------------------------------------------------
(* Frames: what a step of one command leaves alone.                        *)

Only(p) == \A q \in Proc : q # p =>
    /\ pc'[q] = pc[q] /\ tid'[q] = tid[q] /\ row'[q] = row[q]
    /\ res'[q] = res[q] /\ to'[q] = to[q] /\ next'[q] = next[q]

(* The locals of p after its step, which the other commands keep.          *)
GoodStep(p) == LocalTypes' /\ Only(p) /\ GoodLocals(p)'

(* Reviews and directories that others add do not disturb a command.       *)
LEMMA OthersKeep ==
    ASSUME DelegationInv, NEW p \in Proc, NEW q \in Proc, q # p, Only(p),
           UNCHANGED results,
           \A t \in Task : reviews[t] \subseteq reviews'[t] /\ revdirs[t] \subseteq revdirs'[t]
    PROVE  GoodLocals(q)'
<1>1. GoodLocals(q)
    BY DEF DelegationInv
<1>2. /\ pc'[q] = pc[q] /\ tid'[q] = tid[q] /\ row'[q] = row[q] /\ res'[q] = res[q]
      /\ to'[q] = to[q] /\ next'[q] = next[q]
    BY DEF Only
<1>3. CASE pc[q] = "idle"
    BY <1>1, <1>2, <1>3 DEF GoodLocals
<1>4. CASE pc[q] # "idle"
  <2>1. tid[q] \in Task /\ GoodRow(tid[q], row[q])
    BY <1>1, <1>4 DEF GoodLocals
  <2>2. \A n : Approved(tid[q], n) => Approved(tid[q], n)'
    BY <1>2, <2>1 DEF Approved
  <2>3. GoodRow(tid[q], row[q])'
    BY <1>2, <2>1, <2>2 DEF GoodRow
  <2>4. Approved(tid[q], res[q].revision) => Approved(tid[q], res[q].revision)'
    BY <1>2, <2>2
  <2> QED BY <1>1, <1>2, <1>4, <2>1, <2>3, <2>4 DEF GoodLocals
<1> QED BY <1>3, <1>4

(* A step of p that neither records nor reviews.                           *)
LEMMA LocalFrame ==
    ASSUME DelegationInv, NEW p \in Proc, GoodStep(p), pc'[p] # "record",
           StoreTypes', \A t \in Task : GoodRow(t, tasks[t])',
           UNCHANGED <<results, reviews, revdirs>>
    PROVE  DelegationInv'
<1>1. \A q \in Proc : GoodLocals(q)'
    BY OthersKeep DEF GoodStep
<1>2. \A t \in Task : GoodResults(t)'
    BY DEF DelegationInv, GoodResults
<1>3. OneRecorder'
    BY DEF DelegationInv, OneRecorder, GoodStep, Only
<1>4. TypeOK'
    BY DEF GoodStep, LocalTypes, StoreTypes, TypeOK
<1> QED BY <1>1, <1>2, <1>3, <1>4 DEF DelegationInv

(* The tables stay as they are.                                            *)
LEMMA QuietFrame ==
    ASSUME DelegationInv, NEW p \in Proc, GoodStep(p), pc'[p] # "record", StoreTypes',
           UNCHANGED <<tasks, results, reviews, revdirs>>
    PROVE  DelegationInv'
<1>1. \A t \in Task : GoodRow(t, tasks[t])'
    BY DEF DelegationInv, GoodRow, Approved
<1> QED BY <1>1, LocalFrame

LEMMA ReturnGood ==
    ASSUME DelegationInv, NEW p \in Proc, Return(p)
    PROVE  GoodStep(p) /\ pc'[p] # "record"
<1>1. LocalTypes /\ AbsentTask \in TaskRow
    BY TypeParts, AbsentTaskGood DEF DelegationInv
<1>2. LocalTypes'
    BY <1>1 DEF LocalTypes, Return, Goto, Label
<1>3. Only(p) /\ pc'[p] = "idle" /\ tid'[p] = None /\ row'[p] = AbsentTask /\ res'[p] = None
        /\ next'[p] = "idle"
    BY <1>1 DEF LocalTypes, Return, Goto, Only
<1>4. GoodLocals(p)'
    BY <1>3 DEF GoodLocals, Continuation
<1> QED BY <1>2, <1>3, <1>4 DEF GoodStep

LEMMA GoOnGood ==
    ASSUME DelegationInv, NEW p \in Proc, pc[p] \notin {"idle", "record"},
           NEW label \in {"executor", "launch", "attempt", "attempted", "raised", "apply"},
           GoOn(p, label), UNCHANGED <<results, reviews, revdirs>>
    PROVE  GoodStep(p) /\ pc'[p] # "record"
<1>1. LocalTypes /\ StoreTypes
    BY TypeParts DEF DelegationInv
<1>2. AbsentTask \in TaskRow /\ \A t \in Task : GoodRow(t, AbsentTask)
    BY <1>1, AbsentTaskGood
<1>3. LocalTypes'
    BY <1>1, <1>2 DEF LocalTypes, GoOn, Goto, Label
<1>4. Only(p) /\ pc'[p] = label /\ tid'[p] = tid[p] /\ row'[p] = AbsentTask /\ res'[p] = res[p]
        /\ next'[p] = "idle"
    BY <1>1 DEF LocalTypes, GoOn, Goto, Only
<1>5. tid[p] \in Task /\ (res[p] # None => res[p].revision <= Len(results[tid[p]]))
    BY DEF DelegationInv, GoodLocals
<1>6. GoodRow(tid[p], AbsentTask)'
    BY <1>2, <1>5 DEF GoodRow, Approved, AbsentTask
<1>7. GoodLocals(p)'
    BY <1>4, <1>5, <1>6 DEF GoodLocals, Continuation
<1> QED BY <1>3, <1>4, <1>7 DEF GoodStep

(* A transition is asked for, of a status that needs no result.            *)
PlainStatus == TaskStatus \ {"reviewing", "accepted", "cancelled"}

LEMMA AskGood ==
    ASSUME DelegationInv, NEW p \in Proc, pc[p] \notin {"idle", "record"},
           NEW s \in PlainStatus, NEW label \in Continuation,
           Ask(p, s, label), UNCHANGED <<tid, row, res, results, reviews, revdirs>>
    PROVE  GoodStep(p) /\ pc'[p] # "record"
<1>1. LocalTypes /\ StoreTypes
    BY TypeParts DEF DelegationInv
<1>2. LocalTypes'
    BY <1>1 DEF LocalTypes, Ask, Goto, Label, PlainStatus, Continuation
<1>3. Only(p) /\ pc'[p] = "move" /\ to'[p] = s /\ next'[p] = label
    BY <1>1 DEF LocalTypes, Ask, Goto, Only
<1>4. s \in TaskStatus
    BY DEF PlainStatus
<1>5. tid[p] \in Task /\ GoodRow(tid[p], row[p])
        /\ (res[p] # None => res[p].revision <= Len(results[tid[p]]))
    BY DEF DelegationInv, GoodLocals
<1>6. GoodLocals(p)'
    BY <1>3, <1>4, <1>5 DEF GoodLocals, GoodRow, Approved, PlainStatus
<1> QED BY <1>2, <1>3, <1>6 DEF GoodStep

(* A command that goes on where it needs nothing new.                      *)
LEMMA GotoGood ==
    ASSUME DelegationInv, NEW p \in Proc, pc[p] \notin {"idle", "record"},
           NEW label \in Label \ {"idle", "save", "capture", "record", "review", "move", "set"},
           Goto(p, label),
           UNCHANGED <<tid, row, res, to, next, results, reviews, revdirs>>
    PROVE  GoodStep(p) /\ pc'[p] # "record"
<1>1. LocalTypes
    BY TypeParts DEF DelegationInv
<1>2. LocalTypes'
    BY <1>1 DEF LocalTypes, Goto, Label
<1>3. Only(p) /\ pc'[p] = label
    BY <1>1 DEF LocalTypes, Goto, Only
<1>4. GoodLocals(p)'
    BY <1>3 DEF DelegationInv, GoodLocals, GoodRow, Approved
<1> QED BY <1>2, <1>3, <1>4 DEF GoodStep

(* A command begins with a task and a copy of its row, or none.            *)
LEMMA BeginGood ==
    ASSUME DelegationInv, NEW p \in Proc, NEW t \in Task, pc[p] = "idle",
           NEW label \in {"root", "select", "capture", "save", "move"},
           NEW copy \in {AbsentTask, tasks[t]},
           NEW s \in TaskStatus \cup {None}, NEW continuation \in Continuation,
           tid' = [tid EXCEPT ![p] = t], pc' = [pc EXCEPT ![p] = label],
           row' = [row EXCEPT ![p] = copy], to' = [to EXCEPT ![p] = s],
           next' = [next EXCEPT ![p] = continuation],
           UNCHANGED <<res, results, reviews, revdirs>>,
           label = "save" => continuation # "idle",
           label = "capture" => copy.latest < MaxRevision,
           label = "move" => s \in PlainStatus
    PROVE  GoodStep(p) /\ pc'[p] # "record"
<1>1. LocalTypes /\ StoreTypes
    BY TypeParts DEF DelegationInv
<1>2. GoodRow(t, copy)
    BY <1>1, AbsentTaskGood DEF DelegationInv
<1>3. LocalTypes'
    BY <1>1, <1>2 DEF LocalTypes, Label, GoodRow, Continuation
<1>4. /\ Only(p) /\ pc'[p] = label /\ tid'[p] = t /\ row'[p] = copy /\ res'[p] = res[p]
      /\ to'[p] = s /\ next'[p] = continuation
    BY <1>1 DEF LocalTypes, Only
<1>5. res[p] = None
    BY DEF DelegationInv, GoodLocals
<1>6. GoodRow(t, copy)'
    BY <1>2 DEF GoodRow, Approved
<1>7. GoodLocals(p)'
    BY <1>4, <1>5, <1>6 DEF GoodLocals, PlainStatus
<1> QED BY <1>3, <1>4, <1>7 DEF GoodStep

LEMMA BeginKeeps ==
    ASSUME DelegationInv, NEW p \in Proc, NEW t \in Task, NEW s \in PlainStatus,
           NEW label \in Continuation, Begin(p, t, s, label)
    PROVE  DelegationInv'
<1>1. /\ row = [row EXCEPT ![p] = AbsentTask]
      /\ StoreTypes
    BY TypeParts DEF DelegationInv, GoodLocals, Begin, LocalTypes
<1>2. StoreTypes'
    BY <1>1 DEF Begin, StoreTypes, records, files
<1>3. GoodStep(p) /\ pc'[p] # "record"
    BY <1>1, BeginGood DEF Begin, Ask, Goto, PlainStatus, records, files
<1> QED BY <1>2, <1>3, QuietFrame DEF Begin, records, files

(* A review begins with a result of the task.                              *)
LEMMA BeginReviewKeeps ==
    ASSUME DelegationInv, NEW p \in Proc, NEW t \in Task, NEW n \in 1 .. Len(results[t]),
           NEW decision \in Decision, BeginReview(p, t, results[t][n], decision)
    PROVE  DelegationInv'
<1>1. LocalTypes /\ StoreTypes
    BY TypeParts DEF DelegationInv
<1>2. results[t][n] \in Result
    BY <1>1 DEF StoreTypes
<1>3. results[t][n].revision = n
    BY DEF DelegationInv, GoodResults
<1>4. results[t][n] # None
    BY <1>2, DelegationAssumption DEF Result, Revision
<1>5. LocalTypes'
    BY <1>1, <1>2 DEF LocalTypes, BeginReview, Goto, Label, Decision, TaskStatus, Transitions,
       TerminalStatus
<1>6. /\ Only(p) /\ pc'[p] = "review" /\ tid'[p] = t /\ res'[p] = results[t][n]
      /\ to'[p] = decision /\ next'[p] = next[p] /\ row'[p] = AbsentTask
    BY <1>1 DEF LocalTypes, BeginReview, Goto, Only, DelegationInv, GoodLocals
<1>7. GoodRow(t, AbsentTask)'
    BY <1>1, AbsentTaskGood DEF BeginReview, records, GoodRow, Approved, AbsentTask
<1>8. GoodLocals(p)'
    BY <1>2, <1>3, <1>4, <1>6, <1>7 DEF GoodLocals, DelegationInv, BeginReview, records
<1>9. StoreTypes'
    BY <1>1 DEF StoreTypes, BeginReview, records, files
<1> QED BY <1>5, <1>6, <1>8, <1>9, QuietFrame DEF GoodStep, BeginReview, records, files

-----------------------------------------------------------------------------
(* Transitions.                                                            *)

LEMMA RefusedGood ==
    ASSUME DelegationInv, NEW p \in Proc, pc[p] \in {"move", "set"}, Refused(p),
           UNCHANGED <<results, reviews, revdirs>>
    PROVE  GoodStep(p) /\ pc'[p] # "record"
BY ReturnGood, GoOnGood DEF Refused

LEMMA MoveKeeps ==
    ASSUME DelegationInv, NEW p \in Proc, Move(p)
    PROVE  DelegationInv'
<1>1. LocalTypes /\ StoreTypes
    BY TypeParts DEF DelegationInv
<1>2. StoreTypes' /\ UNCHANGED <<tasks, results, reviews, revdirs>>
    BY <1>1 DEF Move, StoreTypes, records, files
<1>3. CASE MayMove(tasks[tid[p]].status, to[p])
  <2>1. tid[p] \in Task /\ GoodRow(tid[p], tasks[tid[p]])
    BY DEF DelegationInv, GoodLocals, Move
  <2>2. LocalTypes'
    BY <1>1, <1>3, <2>1 DEF LocalTypes, Move, Goto, Label, GoodRow
  <2>3. /\ Only(p) /\ pc'[p] = "set" /\ row'[p] = tasks[tid[p]]
        /\ UNCHANGED <<tid, res, to, next>>
    BY <1>1, <1>3 DEF LocalTypes, Move, Goto, Only
  <2>4. GoodLocals(p)'
    <3>1. MayMove(tasks[tid[p]].status, to[p]) /\ GoodLocals(p) /\ pc[p] = "move"
      BY <1>3 DEF DelegationInv, Move
    <3> QED BY <1>2, <2>1, <2>3, <3>1 DEF GoodLocals, GoodRow, Approved
  <2> QED BY <1>2, <2>2, <2>3, <2>4, QuietFrame DEF GoodStep
<1>4. CASE ~MayMove(tasks[tid[p]].status, to[p])
  <2>1. GoodStep(p) /\ pc'[p] # "record"
    BY <1>2, <1>4, RefusedGood DEF Move
  <2> QED BY <1>2, <2>1, QuietFrame
<1> QED BY <1>3, <1>4

(* The row that a transition writes refers to what exists.                 *)
LEMMA UpdatedGood ==
    ASSUME DelegationInv, NEW p \in Proc, pc[p] = "set"
    PROVE  tid[p] \in Task /\ GoodRow(tid[p], Updated(p))
<1>1. LocalTypes /\ StoreTypes
    BY TypeParts DEF DelegationInv
<1>2. /\ tid[p] \in Task /\ GoodRow(tid[p], row[p]) /\ to[p] \in TaskStatus
      /\ to[p] \in {"reviewing", "accepted"} =>
            res[p] \in Result /\ res[p].revision <= Len(results[tid[p]])
      /\ to[p] = "accepted" => Approved(tid[p], res[p].revision)
    BY <1>1 DEF DelegationInv, GoodLocals, LocalTypes
<1> DEFINE latest == IF to[p] = "reviewing" THEN res[p].revision ELSE row[p].latest
           accepted == CASE to[p] = "accepted" -> res[p].revision
                         [] to[p] \in {"revision_requested", "rejected"} -> None
                         [] OTHER -> row[p].accepted
<1>3. /\ latest \in 0 .. MaxRevision /\ latest <= Len(results[tid[p]])
    BY <1>2 DEF GoodRow, TaskRow, Result, Revision
<1>4. /\ accepted \in Revision \cup {None}
      /\ accepted # None => accepted <= Len(results[tid[p]]) /\ Approved(tid[p], accepted)
  <2>1. CASE to[p] = "accepted"
    BY <1>2, <2>1 DEF Result
  <2>2. CASE to[p] \in {"revision_requested", "rejected"}
    BY <2>2
  <2>3. CASE to[p] \notin {"accepted", "revision_requested", "rejected"}
    BY <1>2, <2>3 DEF GoodRow, TaskRow
  <2> QED BY <2>1, <2>2, <2>3
<1>5. Updated(p) = [status |-> to[p], latest |-> latest, accepted |-> accepted]
  <2>1. row[p] = [status |-> row[p].status, latest |-> row[p].latest,
                  accepted |-> row[p].accepted]
    BY <1>2 DEF GoodRow, TaskRow
  <2> HIDE DEF latest, accepted
  <2>2. Updated(p) = [row[p] EXCEPT !.status = to[p], !.latest = latest, !.accepted = accepted]
    BY DEF Updated, latest, accepted
  <2> QED BY <2>1, <2>2
<1> HIDE DEF latest, accepted
<1> QED BY <1>2, <1>3, <1>4, <1>5 DEF GoodRow, TaskRow

LEMMA SetTaskKeeps ==
    ASSUME DelegationInv, NEW p \in Proc, SetTask(p)
    PROVE  DelegationInv'
<1>1. LocalTypes /\ StoreTypes /\ pc[p] = "set"
    BY TypeParts DEF DelegationInv, SetTask
<1>2. UNCHANGED <<results, reviews, workless, root, prepared, worktree, revdirs>>
    BY DEF SetTask, records, files
<1>3. CASE tasks[tid[p]].status = row[p].status
  <2>1. tasks' = [tasks EXCEPT ![tid[p]] = Updated(p)]
    BY <1>3 DEF SetTask
  <2>2. StoreTypes'
    BY <1>1, <1>2, <2>1, UpdatedGood DEF StoreTypes, GoodRow
  <2>3. \A t \in Task : GoodRow(t, tasks[t])'
    <3>1. \A t \in Task : GoodRow(t, tasks'[t])
      BY <1>1, <2>1, UpdatedGood DEF StoreTypes, DelegationInv
    <3> QED BY <1>2, <3>1 DEF GoodRow, Approved
  <2>4. GoodStep(p) /\ pc'[p] # "record"
    <3>1. CASE next[p] = "idle"
      BY <1>3, <3>1, ReturnGood DEF SetTask
    <3>2. CASE next[p] # "idle"
      BY <1>1, <1>2, <1>3, <3>2, GoOnGood DEF SetTask, DelegationInv, GoodLocals, Continuation
    <3> QED BY <3>1, <3>2
  <2> QED BY <1>2, <2>2, <2>3, <2>4, LocalFrame
<1>4. CASE tasks[tid[p]].status # row[p].status
  <2>1. UNCHANGED tasks /\ GoodStep(p) /\ pc'[p] # "record"
    BY <1>1, <1>2, <1>4, RefusedGood DEF SetTask
  <2>2. StoreTypes'
    BY <1>1, <1>2, <2>1 DEF StoreTypes
  <2> QED BY <1>2, <2>1, <2>2, QuietFrame
<1> QED BY <1>3, <1>4

-----------------------------------------------------------------------------
(* What becomes of revisions and reviews.                                  *)

LEMMA CaptureKeeps ==
    ASSUME DelegationInv, NEW p \in Proc, CaptureRevision(p)
    PROVE  DelegationInv'
<1>1. LocalTypes /\ StoreTypes /\ tid[p] \in Task
    BY TypeParts DEF DelegationInv, GoodLocals, CaptureRevision
<1>2. UNCHANGED <<tasks, results, reviews, workless, root, prepared, worktree>>
    BY DEF CaptureRevision, records
<1> DEFINE t == tid[p]
           revision == row[p].latest + 1
<1>3. CASE LeftWork(t) /\ IsNewRevision(p, revision)
  <2>1. /\ revdirs' = [revdirs EXCEPT ![t] = @ \cup {revision}]
        /\ res' = [res EXCEPT ![p] = [revision |-> revision, patch |-> worktree[t]]]
        /\ row' = [row EXCEPT ![p] = AbsentTask]
        /\ pc' = [pc EXCEPT ![p] = "record"]
        /\ UNCHANGED <<tid, to, next>>
    BY <1>3 DEF CaptureRevision, Goto
  <2>2. revision \in Revision /\ revision = Len(results[t]) + 1
    <3>1. row[p].latest < MaxRevision /\ row[p].latest <= Len(results[t])
            /\ row[p].latest \in 0 .. MaxRevision
      BY DEF DelegationInv, GoodLocals, CaptureRevision, GoodRow, TaskRow
    <3>2. revision \notin 1 .. Len(results[t])
      BY <1>1, <1>3 DEF IsNewRevision, DelegationInv, GoodResults
    <3>3. Len(results[t]) \in Nat /\ MaxRevision \in Nat
      BY <1>1, DelegationAssumption DEF StoreTypes
    <3> HIDE DEF t
    <3>4. revision = Len(results[t]) + 1
      BY <3>1, <3>2, <3>3
    <3> QED BY <3>1, <3>3, <3>4 DEF Revision
  <2>3. [revision |-> revision, patch |-> worktree[t]] \in Result
    BY <1>1, <1>3, <2>2, DelegationAssumption DEF Result, IsNewRevision
  <2>4. LocalTypes'
    BY <1>1, <2>1, <2>3, AbsentTaskGood DEF LocalTypes, Label
  <2>5. StoreTypes'
    BY <1>1, <1>2, <2>1, <2>2 DEF StoreTypes
  <2>6. TypeOK'
    BY <2>4, <2>5 DEF TypeOK, LocalTypes, StoreTypes
  <2>7. /\ Only(p) /\ pc'[p] = "record" /\ row'[p] = AbsentTask
        /\ res'[p] = [revision |-> revision, patch |-> worktree[t]]
    BY <1>1, <2>1 DEF Only, LocalTypes
  <2>8. \A u \in Task : /\ revdirs[u] \subseteq revdirs'[u]
                        /\ u # t => revdirs'[u] = revdirs[u]
        /\ revdirs'[t] = revdirs[t] \cup {revision}
    BY <1>1, <2>1 DEF StoreTypes
  <2>9. GoodLocals(p)'
    <3>1. GoodRow(t, AbsentTask)'
      BY <1>1, <1>2, AbsentTaskGood DEF GoodRow, Approved, AbsentTask
    <3>2. [revision |-> revision, patch |-> worktree[t]] # None
      BY <2>3, DelegationAssumption DEF Result, Revision
    <3>3. next[p] \in Continuation
      BY DEF DelegationInv, GoodLocals
    <3> QED BY <1>1, <1>2, <2>1, <2>2, <2>7, <2>8, <3>1, <3>2, <3>3 DEF GoodLocals
  <2>10. \A q \in Proc : GoodLocals(q)'
    BY <1>2, <2>7, <2>8, <2>9, OthersKeep
  <2>11. ASSUME NEW u \in Task PROVE GoodRow(u, tasks[u])' /\ GoodResults(u)'
    <3>1. GoodRow(u, tasks[u])'
      BY <1>2 DEF DelegationInv, GoodRow, Approved
    <3>2. \A n \in revdirs'[u] : n <= Len(results[u]) + 1
      <4>1. CASE u = t
        BY <2>2, <2>8, <4>1 DEF DelegationInv, GoodResults
      <4>2. CASE u # t
        BY <2>8, <4>2 DEF DelegationInv, GoodResults
      <4> QED BY <4>1, <4>2
    <3>3. \A i \in 1 .. Len(results[u]) : results[u][i].revision = i /\ i \in revdirs'[u]
      BY <2>8 DEF DelegationInv, GoodResults
    <3> QED BY <1>2, <3>1, <3>2, <3>3 DEF GoodResults
  <2>12. OneRecorder'
    <3>1. ASSUME NEW q \in Proc, q # p, pc[q] = "record", tid[q] = t PROVE FALSE
      BY <1>3, <2>2, <3>1 DEF DelegationInv, GoodLocals, IsNewRevision
    <3> QED BY <2>1, <2>7, <3>1 DEF OneRecorder, DelegationInv, Only
  <2> QED BY <2>6, <2>10, <2>11, <2>12 DEF DelegationInv
<1>4. CASE ~(LeftWork(t) /\ IsNewRevision(p, revision))
  <2>1. Return(p) /\ UNCHANGED revdirs
    BY <1>4 DEF CaptureRevision
  <2>2. StoreTypes'
    BY <1>1, <1>2, <2>1 DEF StoreTypes
  <2> QED BY <1>2, <2>1, <2>2, ReturnGood, QuietFrame
<1> QED BY <1>3, <1>4

(* A result is the next of its task, since its directory was made by the   *)
(* only command that records it.                                           *)
LEMMA AddResultKeeps ==
    ASSUME DelegationInv, NEW p \in Proc, AddResult(p)
    PROVE  DelegationInv'
<1>1. LocalTypes /\ StoreTypes /\ pc[p] = "record"
    BY TypeParts DEF DelegationInv, AddResult
<1>2. /\ tid[p] \in Task /\ res[p] \in Result /\ GoodRow(tid[p], row[p])
      /\ res[p].revision = Len(results[tid[p]]) + 1 /\ res[p].revision \in revdirs[tid[p]]
    BY <1>1 DEF DelegationInv, GoodLocals, LocalTypes
<1> DEFINE t == tid[p]
<1>3. /\ results' = [results EXCEPT ![t] = Append(@, res[p])]
      /\ UNCHANGED <<tasks, reviews, workless, root, prepared, worktree, revdirs, tid, row, res>>
      /\ Ask(p, "reviewing", "idle")
    BY DEF AddResult, files
<1>4. /\ results'[t] = Append(results[t], res[p]) /\ results[t] \in Seq(Result)
      /\ \A u \in Task : u # t => results'[u] = results[u]
    BY <1>1, <1>2, <1>3 DEF StoreTypes
<1>5. /\ Len(results'[t]) = Len(results[t]) + 1
      /\ \A i \in 1 .. Len(results[t]) : results'[t][i] = results[t][i]
      /\ results'[t][Len(results[t]) + 1] = res[p]
      /\ Len(results[t]) \in Nat
    BY <1>2, <1>4
<1>6. \A u \in Task : Len(results[u]) <= Len(results'[u]) /\ Len(results'[u]) \in Nat
                      /\ Len(results[u]) \in Nat
    <2>1. \A u \in Task : Len(results[u]) \in Nat
      BY <1>1 DEF StoreTypes
    <2> QED BY <1>4, <1>5, <2>1
<1>7. StoreTypes'
    BY <1>1, <1>2, <1>3 DEF StoreTypes
<1>8. LocalTypes' /\ Only(p) /\ pc'[p] = "move" /\ to'[p] = "reviewing" /\ next'[p] = "idle"
    BY <1>1, <1>3 DEF LocalTypes, Ask, Goto, Only, Label, TaskStatus, Transitions
<1>9. TypeOK'
    BY <1>7, <1>8 DEF TypeOK, LocalTypes, StoreTypes
<1>10. \A u \in Task, r \in TaskRow : GoodRow(u, r) => GoodRow(u, r)'
    BY <1>3, <1>6 DEF GoodRow, Approved, TaskRow, Revision
<1>11. GoodLocals(p)'
  <2>1. GoodRow(tid[p], row[p])'
    BY <1>2, <1>3, <1>6 DEF GoodRow, Approved, TaskRow, Revision
  <2>2. /\ res[p] # None
        /\ res[p].revision <= Len(results'[tid[p]])
    BY <1>2, <1>5, DelegationAssumption DEF Result, Revision
  <2>3. "reviewing" \in TaskStatus
    BY DEF TaskStatus, Transitions
  <2> QED BY <1>2, <1>3, <1>8, <2>1, <2>2, <2>3 DEF GoodLocals, Continuation
<1>12. ASSUME NEW q \in Proc, q # p PROVE GoodLocals(q)'
  <2>1. pc[q] # "idle" => tid[q] \in Task /\ row[q] \in TaskRow /\ GoodRow(tid[q], row[q])
    BY <1>12 DEF DelegationInv, GoodLocals, GoodRow
  <2>2. pc[q] # "idle" => GoodRow(tid[q], row[q])'
    BY <1>3, <1>6, <2>1 DEF GoodRow, Approved, TaskRow, Revision
  <2>3. pc[q] # "record" /\ res[q] # None => res[q].revision <= Len(results'[tid[q]])
    <3>1. SUFFICES ASSUME pc[q] # "record", res[q] # None
                   PROVE  res[q].revision <= Len(results'[tid[q]])
      OBVIOUS
    <3>2. pc[q] # "idle" /\ res[q] \in Result /\ res[q].revision <= Len(results[tid[q]])
      BY <1>1, <3>1 DEF DelegationInv, GoodLocals, LocalTypes
    <3> QED BY <1>6, <2>1, <3>2 DEF Result, Revision
  <2>4. pc[q] = "record" => results'[tid[q]] = results[tid[q]]
    BY <1>1, <1>4, <1>12, <2>1 DEF DelegationInv, OneRecorder
  <2>5. /\ pc'[q] = pc[q] /\ tid'[q] = tid[q] /\ row'[q] = row[q] /\ res'[q] = res[q]
        /\ to'[q] = to[q] /\ next'[q] = next[q]
        /\ UNCHANGED <<reviews, revdirs>>
    BY <1>3, <1>8, <1>12 DEF Only
  <2>6. GoodLocals(q)
    BY DEF DelegationInv
  <2>7. CASE pc[q] = "idle"
    BY <2>3, <2>5, <2>6, <2>7 DEF GoodLocals
  <2>8. CASE pc[q] = "record"
    BY <2>1, <2>2, <2>4, <2>5, <2>6, <2>8 DEF GoodLocals
  <2>9. CASE pc[q] \notin {"idle", "record"}
    BY <2>1, <2>2, <2>3, <2>5, <2>6, <2>9 DEF GoodLocals, Approved
  <2> QED BY <2>7, <2>8, <2>9
<1>13. ASSUME NEW u \in Task PROVE GoodRow(u, tasks[u])' /\ GoodResults(u)'
  <2>1. GoodRow(u, tasks[u])'
    BY <1>3, <1>6 DEF DelegationInv, GoodRow, Approved, TaskRow, Revision
  <2>2. CASE u = t
    <3>1. \A i \in 1 .. Len(results'[t]) : results'[t][i].revision = i /\ i \in revdirs[t]
      <4>1. \A i \in 1 .. Len(results[t]) : results'[t][i].revision = i /\ i \in revdirs[t]
        BY <1>2, <1>5 DEF DelegationInv, GoodResults
      <4>2. /\ results'[t][Len(results[t]) + 1].revision = Len(results[t]) + 1
            /\ Len(results[t]) + 1 \in revdirs[t]
        BY <1>2, <1>5
      <4>3. ASSUME NEW i \in 1 .. Len(results'[t])
            PROVE  i \in 1 .. Len(results[t]) \/ i = Len(results[t]) + 1
        BY <1>5
      <4> QED BY <4>1, <4>2, <4>3
    <3>2. \A n \in revdirs[t] : n <= Len(results'[t]) + 1
      BY <1>1, <1>2, <1>5 DEF DelegationInv, GoodResults, StoreTypes, Revision
    <3> QED BY <1>3, <2>1, <2>2, <3>1, <3>2 DEF GoodResults
  <2>3. CASE u # t
    BY <1>3, <1>4, <2>1, <2>3 DEF DelegationInv, GoodResults
  <2> QED BY <2>2, <2>3
<1>14. OneRecorder'
    BY <1>3, <1>8 DEF DelegationInv, OneRecorder, Only
<1> QED BY <1>9, <1>11, <1>12, <1>13, <1>14 DEF DelegationInv

LEMMA AddReviewKeeps ==
    ASSUME DelegationInv, NEW p \in Proc, AddReview(p)
    PROVE  DelegationInv'
<1>1. LocalTypes /\ StoreTypes /\ pc[p] = "review"
    BY TypeParts DEF DelegationInv, AddReview
<1>2. /\ tid[p] \in Task /\ res[p] \in Result /\ GoodRow(tid[p], row[p])
      /\ to[p] \in Decision /\ res[p].revision <= Len(results[tid[p]])
      /\ res[p] # None
    BY <1>1 DEF DelegationInv, GoodLocals, LocalTypes
<1> DEFINE review == [revision |-> res[p].revision, decision |-> to[p]]
<1>3. /\ reviews' = [reviews EXCEPT ![tid[p]] = @ \cup {review}]
      /\ UNCHANGED <<tasks, results, workless, root, prepared, worktree, revdirs, tid, row, res>>
      /\ Ask(p, to[p], "idle")
    BY DEF AddReview, files
<1>4. /\ \A u \in Task : reviews[u] \subseteq reviews'[u]
      /\ review \in reviews'[tid[p]]
    BY <1>1, <1>2, <1>3 DEF StoreTypes
<1>5. StoreTypes'
  <2>1. review \in Review
    BY <1>2 DEF Review, Result
  <2> QED BY <1>1, <1>3, <2>1 DEF StoreTypes
<1>6. LocalTypes' /\ Only(p) /\ pc'[p] = "move" /\ to'[p] = to[p] /\ next'[p] = "idle"
    BY <1>1, <1>3 DEF LocalTypes, Ask, Goto, Only, Label
<1>7. TypeOK'
    BY <1>5, <1>6 DEF TypeOK, LocalTypes, StoreTypes
<1>8. GoodLocals(p)'
  <2>1. GoodRow(tid[p], row[p])'
    BY <1>2, <1>3, <1>4 DEF GoodRow, Approved
  <2>2. to[p] = "accepted" => Approved(tid[p], res[p].revision)'
    BY <1>3, <1>4 DEF Approved
  <2>3. to[p] \in TaskStatus \ {"cancelled"}
    BY <1>2 DEF Decision, TaskStatus, Transitions, TerminalStatus
  <2> QED BY <1>2, <1>3, <1>6, <2>1, <2>2, <2>3 DEF GoodLocals, Continuation, Approved
<1>9. ASSUME NEW q \in Proc, q # p PROVE GoodLocals(q)'
    BY <1>3, <1>4, <1>6, <1>9, OthersKeep
<1>10. \A u \in Task : GoodRow(u, tasks[u])' /\ GoodResults(u)'
    BY <1>3, <1>4 DEF DelegationInv, GoodRow, Approved, GoodResults
<1>11. OneRecorder'
    BY <1>3, <1>6 DEF DelegationInv, OneRecorder, Only
<1> QED BY <1>7, <1>8, <1>9, <1>10, <1>11 DEF DelegationInv

-----------------------------------------------------------------------------
(* Commands begin, and go on, where no transition is involved.             *)

(* Preparing a workspace, capturing, or being given a worker.              *)
LEMMA StartKeeps ==
    ASSUME DelegationInv, NEW p \in Proc, NEW t \in Task,
           Prepare(p, t) \/ Capture(p, t) \/ AssignProfile(p, t) \/ LaunchApi(p, t)
    PROVE  DelegationInv'
<1>1. LocalTypes /\ StoreTypes
    BY TypeParts DEF DelegationInv
<1>2. UNCHANGED <<tasks, records, files, res, to>> /\ pc[p] = "idle" /\ tid' = [tid EXCEPT ![p] = t]
    BY DEF Prepare, Capture, AssignProfile, LaunchApi
<1>3. to[p] \in TaskStatus \cup {None} /\ row[p] = AbsentTask /\ next[p] \in Continuation
    BY <1>1, <1>2 DEF LocalTypes, DelegationInv, GoodLocals
<1>4. to' = [to EXCEPT ![p] = to[p]]
    BY <1>1, <1>2 DEF LocalTypes
<1>5. row = [row EXCEPT ![p] = AbsentTask] /\ next = [next EXCEPT ![p] = next[p]]
    BY <1>1, <1>3 DEF LocalTypes
<1>6. StoreTypes' /\ UNCHANGED <<tasks, results, reviews, revdirs>>
    BY <1>1, <1>2 DEF StoreTypes, records, files
<1>7. GoodStep(p) /\ pc'[p] # "record"
  <2>1. CASE Prepare(p, t)
    <3>1. pc' = [pc EXCEPT ![p] = "root"] /\ row' = [row EXCEPT ![p] = AbsentTask]
            /\ next' = [next EXCEPT ![p] = next[p]]
      BY <1>5, <2>1 DEF Prepare, Goto
    <3> QED BY <1>2, <1>3, <1>4, <1>6, <3>1, BeginGood
  <2>2. CASE LaunchApi(p, t)
    <3>1. pc' = [pc EXCEPT ![p] = "select"] /\ row' = [row EXCEPT ![p] = AbsentTask]
            /\ next' = [next EXCEPT ![p] = next[p]]
      BY <1>5, <2>2 DEF LaunchApi, Goto
    <3> QED BY <1>2, <1>3, <1>4, <1>6, <3>1, BeginGood
  <2>3. CASE Capture(p, t)
    <3>1. pc' = [pc EXCEPT ![p] = "capture"] /\ row' = [row EXCEPT ![p] = tasks[t]]
            /\ next' = [next EXCEPT ![p] = next[p]] /\ tasks[t].latest < MaxRevision
      BY <1>5, <2>3 DEF Capture, Goto
    <3> QED BY <1>2, <1>3, <1>4, <1>6, <3>1, BeginGood
  <2>4. CASE AssignProfile(p, t)
    <3>1. pc' = [pc EXCEPT ![p] = "save"] /\ row' = [row EXCEPT ![p] = tasks[t]]
            /\ next' = [next EXCEPT ![p] = "launch"]
      BY <2>4 DEF AssignProfile, SaveNext, Goto
    <3>2. "launch" \in Continuation /\ "launch" # "idle"
      BY DEF Continuation
    <3> QED BY <1>2, <1>3, <1>4, <1>6, <3>1, <3>2, BeginGood
  <2> QED BY <2>1, <2>2, <2>3, <2>4
<1> QED BY <1>6, <1>7, QuietFrame

(* The steps that leave tasks, results, reviews and revisions alone.       *)
LEMMA QuietStepKeeps ==
    ASSUME DelegationInv, NEW p \in Proc,
           \/ MakeRoot(p) \/ WorktreeFails(p) \/ AddWorkspace(p)
           \/ ExecutorEnds(p) \/ ExecutorRaises(p) \/ Crash(p)
           \/ LaunchSelected(p) \/ GiveUp(p)
           \/ AttemptEnds(p) \/ AttemptReturns(p) \/ AttemptRaises(p)
    PROVE  DelegationInv'
<1>1. LocalTypes /\ StoreTypes
    BY TypeParts DEF DelegationInv
<1>2. StoreTypes' /\ UNCHANGED <<tasks, results, reviews, revdirs>>
    BY <1>1 DEF StoreTypes, records, files, MakeRoot, WorktreeFails, AddWorkspace, ExecutorEnds,
       ExecutorRaises, Crash, LaunchSelected, GiveUp, AttemptEnds, AttemptReturns, AttemptRaises
<1>3. {"workspace_ready", "executor_done", "failed", "executor_working"} \subseteq PlainStatus
    BY DEF PlainStatus, TaskStatus, Transitions, TerminalStatus
<1>4. GoodStep(p) /\ pc'[p] # "record"
  <2>1. CASE \/ WorktreeFails(p) \/ ExecutorRaises(p) \/ Crash(p) \/ AttemptReturns(p)
    BY <2>1, ReturnGood DEF WorktreeFails, ExecutorRaises, Crash, AttemptReturns
  <2>2. CASE MakeRoot(p)
    BY <1>2, <2>2, ReturnGood, GotoGood DEF MakeRoot, Label
  <2>3. CASE AddWorkspace(p)
    BY <1>2, <1>3, <2>3, AskGood DEF AddWorkspace, Continuation
  <2>4. CASE ExecutorEnds(p)
    BY <1>2, <1>3, <2>4, AskGood DEF ExecutorEnds, Continuation
  <2>5. CASE LaunchSelected(p)
    BY <1>2, <1>3, <2>5, AskGood, ReturnGood DEF LaunchSelected, Continuation
  <2>6. CASE GiveUp(p)
    BY <1>2, <1>3, <2>6, AskGood, ReturnGood DEF GiveUp, Continuation
  <2>7. CASE AttemptEnds(p)
    BY <1>2, <1>3, <2>7, AskGood DEF AttemptEnds, Continuation
  <2>8. CASE AttemptRaises(p)
    BY <1>2, <2>8, GotoGood DEF AttemptRaises, Label
  <2> QED BY <2>1, <2>2, <2>3, <2>4, <2>5, <2>6, <2>7, <2>8
<1> QED BY <1>2, <1>4, QuietFrame

(* A selection is recorded by a transition, or is to be saved in the row.  *)
LEMMA RecordSelectionKeeps ==
    ASSUME DelegationInv, NEW p \in Proc, RecordSelection(p)
    PROVE  DelegationInv'
<1>1. LocalTypes /\ StoreTypes
    BY TypeParts DEF DelegationInv
<1>2. StoreTypes' /\ UNCHANGED <<tasks, results, reviews, revdirs, tid, res>> /\ pc[p] = "select"
    BY <1>1 DEF StoreTypes, records, files, RecordSelection
<1>3. CASE tasks[tid[p]].status \in Ready
  <2>1. "executor_working" \in PlainStatus
    BY DEF PlainStatus, TaskStatus, Transitions
  <2>2. GoodStep(p) /\ pc'[p] # "record"
    BY <1>2, <1>3, <2>1, AskGood DEF RecordSelection, Continuation
  <2> QED BY <1>2, <2>2, QuietFrame
<1>4. CASE tasks[tid[p]].status \notin Ready
  <2>1. /\ row' = [row EXCEPT ![p] = tasks[tid[p]]] /\ next' = [next EXCEPT ![p] = "attempt"]
        /\ pc' = [pc EXCEPT ![p] = "save"] /\ UNCHANGED to
    BY <1>4 DEF RecordSelection, SaveNext, Goto
  <2>2. /\ tid[p] \in Task /\ GoodRow(tid[p], tasks[tid[p]])
        /\ res[p] # None => res[p].revision <= Len(results[tid[p]])
    BY <1>2 DEF DelegationInv, GoodLocals
  <2>3. LocalTypes'
    BY <1>1, <1>2, <2>1, <2>2 DEF LocalTypes, Label, GoodRow
  <2>4. Only(p) /\ pc'[p] = "save" /\ row'[p] = tasks[tid[p]] /\ next'[p] = "attempt"
    BY <1>1, <1>2, <2>1 DEF LocalTypes, Only
  <2>5. GoodLocals(p)'
    BY <1>2, <2>2, <2>4 DEF GoodLocals, GoodRow, Approved, Continuation
  <2> QED BY <1>2, <2>3, <2>4, <2>5, QuietFrame DEF GoodStep
<1> QED BY <1>3, <1>4

(* The saved row may be old, but what it refers to is still there.         *)
LEMMA SaveSelectionKeeps ==
    ASSUME DelegationInv, NEW p \in Proc, SaveSelection(p)
    PROVE  DelegationInv'
<1>1. StoreTypes
    BY TypeParts DEF DelegationInv
<1>2. /\ tasks' = [tasks EXCEPT ![tid[p]] = row[p]] /\ GoOn(p, next[p]) /\ pc[p] = "save"
      /\ UNCHANGED <<results, reviews, workless, root, prepared, worktree, revdirs>>
    BY DEF SaveSelection, records, files
<1>3. tid[p] \in Task /\ GoodRow(tid[p], row[p]) /\ next[p] \in Continuation \ {"idle"}
    BY <1>2 DEF DelegationInv, GoodLocals
<1>4. StoreTypes'
    BY <1>1, <1>2, <1>3 DEF StoreTypes, GoodRow
<1>5. \A t \in Task : GoodRow(t, tasks[t])'
  <2>1. \A t \in Task : GoodRow(t, tasks'[t])
    BY <1>1, <1>2, <1>3 DEF StoreTypes, DelegationInv
  <2> QED BY <1>2, <2>1 DEF GoodRow, Approved
<1>6. GoodStep(p) /\ pc'[p] # "record"
    BY <1>2, <1>3, GoOnGood DEF Continuation
<1> QED BY <1>2, <1>4, <1>5, <1>6, LocalFrame

(* A task is created, or somebody edits its worktree.                      *)
LEMMA OutsideKeeps ==
    ASSUME DelegationInv, NEW t \in Task,
           Create(t) \/ \E c \in Patch \cup {None} : Edit(t, c)
    PROVE  DelegationInv'
<1>1. LocalTypes /\ StoreTypes
    BY TypeParts DEF DelegationInv
<1>2. UNCHANGED <<results, reviews, revdirs, pc, tid, row, res, to, next>>
    BY DEF Create, Edit, records, files, locals
<1>3. StoreTypes' /\ \A u \in Task : GoodRow(u, tasks'[u])
  <2>1. CASE Create(t)
    <3>1. /\ [tasks[t] EXCEPT !.status = "draft"] \in TaskRow
          /\ GoodRow(t, [tasks[t] EXCEPT !.status = "draft"])
      BY <1>1 DEF StoreTypes, TaskRow, TaskStatus, Transitions, DelegationInv, GoodRow
    <3>2. tasks' = [tasks EXCEPT ![t] = [tasks[t] EXCEPT !.status = "draft"]]
      BY <2>1 DEF Create
    <3> QED BY <1>1, <2>1, <3>1, <3>2 DEF Create, records, files, StoreTypes, DelegationInv
  <2>2. CASE \E c \in Patch \cup {None} : Edit(t, c)
    BY <1>1, <2>2 DEF Edit, records, StoreTypes, DelegationInv
  <2> QED BY <2>1, <2>2
<1>4. LocalTypes'
    BY <1>1, <1>2 DEF LocalTypes
<1>5. \A p \in Proc : GoodLocals(p)'
    BY <1>2 DEF DelegationInv, GoodLocals, GoodRow, Approved
<1>6. \A u \in Task : GoodRow(u, tasks[u])' /\ GoodResults(u)'
    BY <1>2, <1>3 DEF DelegationInv, GoodRow, Approved, GoodResults
<1>7. OneRecorder'
    BY <1>2 DEF DelegationInv, OneRecorder
<1>8. TypeOK'
    BY <1>3, <1>4 DEF TypeOK, LocalTypes, StoreTypes
<1> QED BY <1>5, <1>6, <1>7, <1>8 DEF DelegationInv

-----------------------------------------------------------------------------
(* Theorems.                                                               *)

LEMMA CommandKeeps ==
    ASSUME DelegationInv, NEW p \in Proc, NEW t \in Task, Command(p, t)
    PROVE  DelegationInv'
<1>1. {"assigned", "executor_working", "executor_blocked", "executor_done", "revision_requested"}
          \subseteq PlainStatus
    BY DEF PlainStatus, TaskStatus, Transitions
<1>2. {"idle", "executor"} \subseteq Continuation
    BY DEF Continuation
<1>3. CASE Assign(p, t) \/ Report(p, t) \/ Launch(p, t) \/ ReviseWork(p, t)
    BY <1>1, <1>2, <1>3, BeginKeeps DEF Assign, Report, Launch, ReviseWork
<1>4. CASE Prepare(p, t) \/ Capture(p, t)
    BY <1>4, StartKeeps
<1>5. CASE Accept(p, t) \/ Reject(p, t) \/ ReviseResult(p, t)
  <2>1. results[t] \in Seq(Result) /\ results[t] # <<>>
    BY <1>5, TypeParts DEF DelegationInv, StoreTypes, Accept, Reject, ReviseResult, Reviewable
  <2>2. Len(results[t]) \in 1 .. Len(results[t])
    BY <2>1
  <2> QED BY <1>5, <2>2, BeginReviewKeeps DEF Accept, Reject, ReviseResult, LastResult, Decision
<1> QED BY <1>3, <1>4, <1>5 DEF Command

LEMMA NextDelegation == DelegationInv /\ [NextSelection]_dvars => DelegationInv'
<1> SUFFICES ASSUME DelegationInv, [NextSelection]_dvars PROVE DelegationInv'
    OBVIOUS
<1>1. CASE UNCHANGED dvars
  <2>1. TypeOK'
    BY <1>1 DEF dvars, records, files, locals, DelegationInv, TypeOK
  <2>2. \A t \in Task : GoodRow(t, tasks[t])' /\ GoodResults(t)'
    BY <1>1 DEF dvars, records, files, DelegationInv, GoodRow, Approved, GoodResults
  <2>3. ASSUME NEW p \in Proc PROVE GoodLocals(p)'
    <3>1. GoodLocals(p)
      BY DEF DelegationInv
    <3> QED BY <1>1, <3>1 DEF dvars, records, files, locals, GoodLocals, GoodRow, Approved
  <2>4. OneRecorder'
    BY <1>1 DEF dvars, locals, DelegationInv, OneRecorder
  <2> QED BY <2>1, <2>2, <2>3, <2>4 DEF DelegationInv
<1>2. CASE \E t \in Task : Create(t) \/ \E c \in Patch \cup {None} : Edit(t, c)
    BY <1>2, OutsideKeeps
<1>3. CASE \E p \in Proc, t \in Task : Command(p, t)
    BY <1>3, CommandKeeps
<1>4. CASE \E p \in Proc, t \in Task : AssignProfile(p, t) \/ LaunchApi(p, t)
    BY <1>4, StartKeeps
<1>5. CASE \E p \in Proc : Step(p) \/ Crash(p)
    BY <1>5, MoveKeeps, SetTaskKeeps, CaptureKeeps, AddResultKeeps, AddReviewKeeps, QuietStepKeeps
       DEF Step
<1>6. CASE \E p \in Proc : SelectionStep(p)
    BY <1>6, SaveSelectionKeeps, RecordSelectionKeeps, QuietStepKeeps DEF SelectionStep
<1> QED BY <1>1, <1>2, <1>3, <1>4, <1>5, <1>6 DEF NextSelection, Next

(* DelegationInv holds in every state that delegation, with the selection  *)
(* of workers and commands that die anywhere, can reach.                   *)
THEOREM DelegationInvariant == SpecSelection => []DelegationInv
BY InitDelegation, NextDelegation, PTL DEF SpecSelection

(* The rows, records and directories of delegated tasks, and what commands *)
(* remember of them, are always of their types.                            *)
THEOREM DelegationTyped == SpecSelection => []TypeOK
<1>1. DelegationInv => TypeOK
    BY DEF DelegationInv
<1> QED BY <1>1, DelegationInvariant, PTL

(* Two captures of a task, however they interleave with saves of old rows, *)
(* record two different revisions, the later one higher: the directory     *)
(* that a capture makes first decides (DelegationArtifactService.capture). *)
THEOREM RevisionsInOrder == SpecSelection => []RevisionsIncrease
<1>1. DelegationInv => RevisionsIncrease
  <2> SUFFICES ASSUME DelegationInv, NEW t \in Task, NEW i \in DOMAIN results[t],
                      NEW j \in DOMAIN results[t], i < j
               PROVE  results[t][i].revision < results[t][j].revision
    BY DEF RevisionsIncrease
  <2>1. results[t] \in Seq(Result)
    BY TypeParts DEF DelegationInv, StoreTypes
  <2>2. DOMAIN results[t] = 1 .. Len(results[t])
    BY <2>1
  <2> QED BY <2>2 DEF DelegationInv, GoodResults
<1> QED BY <1>1, DelegationInvariant, PTL

(* Whatever row a command saves over another, the accepted revision of a   *)
(* task was captured and a reviewer accepted it (DelegationReviewService). *)
THEOREM AcceptedIsReviewed == SpecSelection => []AcceptedWasApproved
<1>1. DelegationInv => AcceptedWasApproved
  <2> SUFFICES ASSUME DelegationInv, NEW t \in Task, tasks[t].accepted # None
               PROVE  /\ \E i \in DOMAIN results[t] : results[t][i].revision = tasks[t].accepted
                      /\ [revision |-> tasks[t].accepted, decision |-> "accepted"] \in reviews[t]
    BY DEF AcceptedWasApproved
  <2>1. results[t] \in Seq(Result) /\ GoodRow(t, tasks[t]) /\ GoodResults(t)
    BY TypeParts DEF DelegationInv, StoreTypes
  <2>2. tasks[t].accepted \in 1 .. Len(results[t])
    BY <2>1 DEF GoodRow, TaskRow, Revision
  <2>3. DOMAIN results[t] = 1 .. Len(results[t])
    BY <2>1
  <2> QED BY <2>1, <2>2, <2>3 DEF GoodRow, GoodResults, Approved
<1> QED BY <1>1, DelegationInvariant, PTL

-----------------------------------------------------------------------------
(* Delegation with worker selection does what ReviewedWork promises.       *)

(* The state of ReviewedWork that a state of delegation stands for.        *)
Phases == [t \in Task |-> Phase(tasks[t].status)]
Captured == [t \in Task |-> {results[t][i].revision : i \in DOMAIN results[t]}]
Approvals == [t \in Task |-> {r \in Revision :
                [revision |-> r, decision |-> "accepted"] \in reviews[t]}]

Simulates == [Reviewed!Next \/ \E p \in Proc : SaveSelection(p)]_(Reviewed!vars)

(* The table of transitions moves work on in its phases.                   *)
LEMMA MoveFollows ==
    ASSUME NEW from, NEW status, MayMove(from, status), status # "cancelled"
    PROVE  /\ Phase(status) = Phase(from) \/ Phase(status) \in Reviewed!Follows[Phase(from)]
           /\ Phase(status) = "reviewing" => status = "reviewing"
           /\ Phase(status) = "accepted" => status = "accepted"
<1>1. from \in DOMAIN Transitions /\ status \in Transitions[from]
    BY DEF MayMove
<1>2. CASE from \in {"draft", "assigned", "workspace_ready", "executor_working",
                     "executor_blocked", "revision_requested"}
    BY <1>1, <1>2 DEF Transitions, Phase, TerminalStatus, Reviewed!Follows
<1>3. CASE from \in {"executor_done", "reviewing", "accepted", "promoting", "promotion_failed"}
    BY <1>1, <1>3 DEF Transitions, Phase, TerminalStatus, Reviewed!Follows
<1> QED BY <1>1, <1>2, <1>3 DEF Transitions

LEMMA StutterSimulates == UNCHANGED <<Phases, Captured, Approvals>> => Simulates
BY DEF Simulates, Reviewed!vars, Phases, Captured, Approvals

LEMMA QuietSimulates == UNCHANGED <<tasks, results, reviews>> => Simulates
BY StutterSimulates DEF Phases, Captured, Approvals

LEMMA AdvanceSimulates ==
    ASSUME NEW t \in Task, NEW s \in Reviewed!Follows[Phases[t]],
           s = "reviewing" => Captured[t] # {}, s = "accepted" => Approvals[t] # {},
           Phases' = [Phases EXCEPT ![t] = s], UNCHANGED <<Captured, Approvals>>
    PROVE  Simulates
<1>1. Reviewed!Advance(t)
    BY Zenon DEF Reviewed!Advance, Phases, Captured, Approvals
<1>2. Reviewed!Next
    BY <1>1 DEF Reviewed!Next
<1> QED BY <1>2 DEF Simulates

LEMMA CaptureSimulates ==
    ASSUME NEW t \in Task, NEW r \in Revision \ Captured[t],
           Captured' = [Captured EXCEPT ![t] = @ \cup {r}], UNCHANGED <<Phases, Approvals>>
    PROVE  Simulates
<1>1. Reviewed!Capture(t)
    BY Zenon DEF Reviewed!Capture, Phases, Captured, Approvals
<1>2. Reviewed!Next
    BY <1>1 DEF Reviewed!Next
<1> QED BY <1>2 DEF Simulates

LEMMA ApproveSimulates ==
    ASSUME NEW t \in Task, NEW r \in Captured[t],
           Approvals' = [Approvals EXCEPT ![t] = @ \cup {r}], UNCHANGED <<Phases, Captured>>
    PROVE  Simulates
<1>1. Reviewed!Approve(t)
    BY Zenon DEF Reviewed!Approve, Phases, Captured, Approvals
<1>2. Reviewed!Next
    BY <1>1 DEF Reviewed!Next
<1> QED BY <1>2 DEF Simulates

LEMMA SetTaskSimulates ==
    ASSUME DelegationInv, NEW p \in Proc, SetTask(p)
    PROVE  Simulates
<1>1. LocalTypes /\ StoreTypes /\ pc[p] = "set" /\ UNCHANGED <<results, reviews>>
    BY TypeParts DEF DelegationInv, SetTask, records
<1>2. CASE tasks[tid[p]].status # row[p].status
    BY <1>1, <1>2, QuietSimulates DEF SetTask
<1>3. CASE tasks[tid[p]].status = row[p].status
  <2> DEFINE t == tid[p]
             from == tasks[t].status
  <2>1. /\ t \in Task /\ to[p] # "cancelled" /\ MayMove(from, to[p])
        /\ to[p] \in {"reviewing", "accepted"} =>
              res[p] \in Result /\ res[p].revision <= Len(results[t])
        /\ to[p] = "accepted" => Approved(t, res[p].revision)
    BY <1>1, <1>3 DEF DelegationInv, GoodLocals, LocalTypes
  <2>2. tasks' = [tasks EXCEPT ![t] = Updated(p)] /\ Updated(p).status = to[p]
    <3>1. row[p] \in TaskRow
      BY <1>1 DEF LocalTypes
    <3> QED BY <1>3, <3>1 DEF SetTask, Updated, TaskRow
  <2>3. \A u \in Task : tasks'[u].status = IF u = t THEN to[p] ELSE tasks[u].status
    BY <1>1, <2>1, <2>2 DEF StoreTypes
  <2>4. Phases' = [Phases EXCEPT ![t] = Phase(to[p])]
    BY <2>1, <2>3 DEF Phases
  <2>5. UNCHANGED <<Captured, Approvals>>
    BY <1>1 DEF Captured, Approvals
  <2>6. to[p] = "reviewing" => Captured[t] # {}
    <3>1. SUFFICES ASSUME to[p] = "reviewing" PROVE Captured[t] # {}
      OBVIOUS
    <3>2. results[t] \in Seq(Result) /\ res[p].revision \in 1 .. MaxRevision
      BY <1>1, <2>1, <3>1 DEF StoreTypes, Result, Revision
    <3>3. DOMAIN results[t] = 1 .. Len(results[t]) /\ Len(results[t]) \in Nat
      BY <3>2
    <3>4. res[p].revision \in DOMAIN results[t]
      BY <2>1, <3>1, <3>2, <3>3, DelegationAssumption
    <3> QED BY <2>1, <3>4 DEF Captured
  <2>7. to[p] = "accepted" => Approvals[t] # {}
    BY <2>1 DEF Approvals, Approved, Result
  <2>8. Phases[t] = Phase(from)
    BY <2>1 DEF Phases
  <2>9. CASE Phase(to[p]) = Phase(from)
    <3>1. Phases' = Phases
      BY <2>1, <2>4, <2>8, <2>9 DEF Phases
    <3> QED BY <2>5, <3>1, StutterSimulates
  <2>10. CASE Phase(to[p]) # Phase(from)
    <3>1. /\ Phase(to[p]) \in Reviewed!Follows[Phases[t]]
          /\ Phase(to[p]) = "reviewing" => Captured[t] # {}
          /\ Phase(to[p]) = "accepted" => Approvals[t] # {}
      BY <2>1, <2>6, <2>7, <2>8, <2>10, MoveFollows
    <3> QED BY <2>1, <2>4, <2>5, <3>1, AdvanceSimulates
  <2> QED BY <2>9, <2>10
<1> QED BY <1>2, <1>3

LEMMA AddResultSimulates ==
    ASSUME DelegationInv, NEW p \in Proc, AddResult(p)
    PROVE  Simulates
<1>1. LocalTypes /\ StoreTypes /\ pc[p] = "record" /\ UNCHANGED <<tasks, reviews>>
    BY TypeParts DEF DelegationInv, AddResult
<1> DEFINE t == tid[p]
           n == Len(results[t])
<1>2. /\ t \in Task /\ res[p] \in Result /\ res[p].revision = n + 1
    BY <1>1 DEF DelegationInv, GoodLocals, LocalTypes
<1>3. /\ results[t] \in Seq(Result) /\ n \in Nat /\ DOMAIN results[t] = 1 .. n
      /\ \A i \in 1 .. n : results[t][i].revision = i
    BY <1>1, <1>2 DEF StoreTypes, DelegationInv, GoodResults
<1>4. /\ results'[t] = Append(results[t], res[p])
      /\ \A u \in Task : u # t => results'[u] = results[u]
    BY <1>1, <1>2 DEF StoreTypes, AddResult
<1>5. /\ DOMAIN results'[t] = 1 .. n + 1
      /\ \A i \in 1 .. n : results'[t][i] = results[t][i]
      /\ results'[t][n + 1] = res[p]
    BY <1>2, <1>3, <1>4
<1> HIDE DEF t, n
<1>6. Captured[t] = 1 .. n
    BY <1>2, <1>3 DEF Captured
<1>7. Captured'[t] = 1 .. n + 1
  <2>1. Captured'[t] = {results'[t][i].revision : i \in DOMAIN results'[t]}
    BY <1>2 DEF Captured
  <2>2. \A i \in 1 .. n : results'[t][i].revision = i
    BY <1>3, <1>5
  <2>3. results'[t][n + 1].revision = n + 1
    BY <1>2, <1>5
  <2>4. {results'[t][i].revision : i \in 1 .. n + 1} = 1 .. n + 1
    <3>1. \A i \in 1 .. n + 1 : i \in 1 .. n \/ i = n + 1
      BY <1>3
    <3> QED BY <2>2, <2>3, <3>1
  <2> QED BY <1>5, <2>1, <2>4
<1>8. n + 1 \in Revision \ Captured[t] /\ Captured'[t] = Captured[t] \cup {n + 1}
    BY <1>2, <1>3, <1>6, <1>7 DEF Result
<1>9. Captured' = [Captured EXCEPT ![t] = @ \cup {n + 1}]
  <2>1. \A u \in Task : u # t => Captured'[u] = Captured[u]
    BY <1>4 DEF Captured
  <2>2. Captured = [u \in Task |-> Captured[u]] /\ Captured' = [u \in Task |-> Captured'[u]]
    BY DEF Captured
  <2> QED BY <1>2, <1>8, <2>1, <2>2
<1>10. UNCHANGED <<Phases, Approvals>>
    BY <1>1 DEF Phases, Approvals
<1> QED BY <1>2, <1>8, <1>9, <1>10, CaptureSimulates

LEMMA AddReviewSimulates ==
    ASSUME DelegationInv, NEW p \in Proc, AddReview(p)
    PROVE  Simulates
<1>1. LocalTypes /\ StoreTypes /\ pc[p] = "review" /\ UNCHANGED <<tasks, results>>
    BY TypeParts DEF DelegationInv, AddReview
<1> DEFINE t == tid[p]
           r == res[p].revision
<1>2. /\ t \in Task /\ res[p] \in Result /\ r <= Len(results[t])
    BY <1>1, DelegationAssumption DEF DelegationInv, GoodLocals, LocalTypes
<1>3. /\ reviews'[t] = reviews[t] \cup {[revision |-> r, decision |-> to[p]]}
      /\ \A u \in Task : u # t => reviews'[u] = reviews[u]
    BY <1>1, <1>2 DEF StoreTypes, AddReview
<1>4. UNCHANGED <<Phases, Captured>>
    BY <1>1 DEF Phases, Captured
<1>5. CASE to[p] = "accepted"
  <2>1. results[t] \in Seq(Result) /\ r \in Revision
    BY <1>1, <1>2 DEF StoreTypes, Result
  <2>2. DOMAIN results[t] = 1 .. Len(results[t]) /\ Len(results[t]) \in Nat
    BY <2>1
  <2>3. r \in DOMAIN results[t] /\ results[t][r].revision = r
    BY <1>2, <2>1, <2>2, DelegationAssumption DEF DelegationInv, GoodResults, Revision
  <2> HIDE DEF t, r
  <2>4. r \in Captured[t]
    BY <1>2, <2>3 DEF Captured
  <2>5. Approvals'[t] = Approvals[t] \cup {r} /\ \A u \in Task : u # t => Approvals'[u] = Approvals[u]
    BY <1>2, <1>3, <1>5, <2>1 DEF Approvals
  <2>6. Approvals = [u \in Task |-> Approvals[u]] /\ Approvals' = [u \in Task |-> Approvals'[u]]
    BY DEF Approvals
  <2>7. Approvals' = [Approvals EXCEPT ![t] = @ \cup {r}]
    BY <1>2, <2>5, <2>6
  <2> QED BY <1>2, <1>4, <2>4, <2>7, ApproveSimulates
<1>6. CASE to[p] # "accepted"
  <2>1. \A u \in Task : Approvals'[u] = Approvals[u]
    BY <1>3, <1>6 DEF Approvals
  <2>2. Approvals' = Approvals
    BY <2>1 DEF Approvals
  <2> QED BY <1>4, <2>2, StutterSimulates
<1> QED BY <1>5, <1>6

(* A new task is open, as it was before it existed.                        *)
LEMMA CreateSimulates ==
    ASSUME DelegationInv, NEW t \in Task, Create(t)
    PROVE  Simulates
<1>1. StoreTypes /\ UNCHANGED <<results, reviews>>
    BY TypeParts DEF DelegationInv, Create, records
<1>2. \A u \in Task : tasks'[u].status = IF u = t THEN "draft" ELSE tasks[u].status
    BY <1>1 DEF StoreTypes, TaskRow, Create
<1>3. tasks[t].status = "absent" /\ Phase("draft") = Phase("absent")
    BY DEF Create, Phase, TerminalStatus
<1>4. Phases' = Phases
    BY <1>2, <1>3 DEF Phases
<1>5. UNCHANGED <<Captured, Approvals>>
    BY <1>1 DEF Captured, Approvals
<1> QED BY <1>4, <1>5, StutterSimulates

LEMMA NextSimulates == DelegationInv /\ [NextSelection]_dvars => Simulates
<1> SUFFICES ASSUME DelegationInv, [NextSelection]_dvars PROVE Simulates
    OBVIOUS
<1>1. CASE UNCHANGED <<tasks, records>> \/ UNCHANGED <<tasks, results, reviews>>
    BY <1>1, QuietSimulates DEF records
<1>2. CASE \E t \in Task : Create(t)
    BY <1>2, CreateSimulates
<1>3. CASE \E p \in Proc : SetTask(p)
    BY <1>3, SetTaskSimulates
<1>4. CASE \E p \in Proc : AddResult(p)
    BY <1>4, AddResultSimulates
<1>5. CASE \E p \in Proc : AddReview(p)
    BY <1>5, AddReviewSimulates
<1>6. CASE \E p \in Proc : SaveSelection(p)
    BY <1>6 DEF Simulates
<1>7. CASE UNCHANGED dvars
    BY <1>1, <1>7 DEF dvars
<1>8. CASE \E t \in Task, c \in Patch \cup {None} : Edit(t, c)
    BY <1>1, <1>8 DEF Edit
<1>9. CASE \E p \in Proc, t \in Task : Command(p, t) \/ AssignProfile(p, t) \/ LaunchApi(p, t)
    BY <1>1, <1>9 DEF Command, Assign, Prepare, Report, Launch, Capture, Accept, Reject, ReviseWork,
       ReviseResult, Begin, BeginReview, AssignProfile, LaunchApi
<1>10. ASSUME NEW p \in Proc,
              \/ Move(p) \/ MakeRoot(p) \/ WorktreeFails(p) \/ AddWorkspace(p)
              \/ ExecutorEnds(p) \/ ExecutorRaises(p) \/ CaptureRevision(p) \/ Crash(p)
       PROVE  Simulates
    BY <1>1, <1>10 DEF Move, MakeRoot, WorktreeFails, AddWorkspace, ExecutorEnds, ExecutorRaises,
       CaptureRevision, Crash
<1>11. ASSUME NEW p \in Proc,
              \/ LaunchSelected(p) \/ RecordSelection(p) \/ GiveUp(p)
              \/ AttemptEnds(p) \/ AttemptReturns(p) \/ AttemptRaises(p)
       PROVE  Simulates
    BY <1>1, <1>11 DEF LaunchSelected, RecordSelection, GiveUp, AttemptEnds, AttemptReturns,
       AttemptRaises
<1> QED BY <1>2, <1>3, <1>4, <1>5, <1>6, <1>7, <1>8, <1>9, <1>10, <1>11
       DEF NextSelection, Next, Step, SelectionStep

(* With any number of commands on any number of tasks, every step is one   *)
(* that ReviewedWork allows (DelegationService.transition, its callers), or*)
(* the save of a selected worker's row (CliWorkerSelectionService).        *)
THEOREM DelegationImplementsReviewedWork == SpecSelection => ImplementsReviewedWorkButForSaves
<1>1. Init => Reviewed!Init
    BY DEF Init, Reviewed!Init, Phase, AbsentTask, TerminalStatus
<1>2. DelegationInv /\ [NextSelection]_dvars
        => [Reviewed!Next \/ \E p \in Proc : SaveSelection(p)]_(Reviewed!vars)
    BY NextSimulates DEF Simulates
<1> QED BY <1>1, <1>2, DelegationInvariant, PTL DEF SpecSelection, ImplementsReviewedWorkButForSaves

-----------------------------------------------------------------------------
(* Promotion.                                                              *)

(* A command that has made its task "promoting", until that is over.       *)
Closing(p) == pc[p] \in {"move", "set"} /\ to[p] \in {"promoted", "promotion_failed"}
Holds(p) == pc[p] \in Promoting \/ Closing(p)

Holders ==
    /\ \A p \in Proc : Holds(p) => tasks[tid[p]].status = "promoting"
    /\ \A p, q \in Proc : Holds(p) /\ Holds(q) /\ tid[p] = tid[q] => p = q
    /\ \A p \in Proc : next[p] = "apply" => pc[p] \in {"move", "set"} /\ to[p] = "promoting"

(* A command on its way to apply a result carries one that was approved.   *)
Carrying(p) == pc[p] \in Promoting \cup {"check"} \/ next[p] = "apply"

WasReviewed(p) ==
    /\ res[p] \in Result
    /\ res[p] = results[tid[p]][res[p].revision]
    /\ Approved(tid[p], res[p].revision)

Carriers ==
    /\ \A p \in Proc : Carrying(p) => WasReviewed(p)
    /\ \A p \in Proc : pc[p] = "enqueue" => res[p] \in Result

ReviewInv == DelegationInv /\ PromotionTypeOK /\ Holders /\ Carriers /\ CanonicalWasApproved

-----------------------------------------------------------------------------
(* The last promotion of t succeeded.                                      *)
Done(t) ==
    \/ tasks[t].status = "promoted"
    \/ \E p \in Proc : pc[p] \in {"move", "set"} /\ to[p] = "promoted" /\ tid[p] = t

(* Patch c of t was verified.                                              *)
Verified(t, c) ==
    \/ Done(t) /\ c = promotions[t].result.patch
    \/ \E p \in Proc : pc[p] = "promoted" /\ tid[p] = t /\ c = res[p].patch

(* Patch c is being applied for t, or undone.                              *)
Pending(t, c) ==
    \E p \in Proc : pc[p] \in {"verify", "rollback", "stranded"} /\ tid[p] = t /\ c = res[p].patch

(* The command that was promoting t has died.                              *)
Abandoned(t) == tasks[t].status = "promoting" /\ \A p \in Proc : ~(Holds(p) /\ tid[p] = t)

Outcomes == \A t \in Task : Done(t) => promotions[t] \in PromotionRecord

(* What keeps hunk h from being clean: a promotion of t that was not       *)
(* undone, whose command died, or that is not over.                        *)
Stuck(t, h) ==
    t \in stranded \/ Abandoned(t) \/ \E c \in Patch : Pending(t, c) /\ h \in HunksOf(c)

VerifiedStands ==
    \A t \in Task, c \in Patch : Verified(t, c) /\ ~Shared(t, c) => Reverses(c)

(* Whatever else stands in the files of a verified patch is of a promotion *)
(* that is not over, or that failed for good.                              *)
VerifiedAlone ==
    \A t \in Task, c \in Patch : Verified(t, c) /\ ~Shared(t, c) =>
        \A h \in HunksIn(FilesOf(c)) \ HunksOf(c) :
            canonical[h] # None => \E u \in Task : Stuck(u, h)

WorkInv == Outcomes /\ VerifiedStands /\ VerifiedAlone

-----------------------------------------------------------------------------
(* Promotion leaves what DelegationProofs shows of tasks and commands.     *)

(* A result of t is found where its revision says.                         *)
LEMMA ResultFound ==
    ASSUME DelegationInv, NEW t \in Task, NEW n,
           \E i \in DOMAIN results[t] : results[t][i].revision = n
    PROVE  /\ n \in 1 .. Len(results[t]) /\ DOMAIN results[t] = 1 .. Len(results[t])
           /\ ResultOf(t, n) = results[t][n]
           /\ results[t][n] \in Result /\ results[t][n].revision = n
<1>1. results[t] \in Seq(Result)
    BY TypeParts DEF DelegationInv, StoreTypes
<1>2. DOMAIN results[t] = 1 .. Len(results[t])
    BY <1>1
<1>3. \A i \in DOMAIN results[t] : results[t][i].revision = i
    BY <1>2 DEF DelegationInv, GoodResults
<1>4. n \in DOMAIN results[t]
    BY <1>3
<1>5. (CHOOSE i \in DOMAIN results[t] : results[t][i].revision = n) = n
    BY <1>3, <1>4
<1>6. results[t][n] \in Result
    BY <1>1, <1>4
<1> QED BY <1>2, <1>3, <1>4, <1>5, <1>6 DEF ResultOf

(* The accepted revision of a task has a result, and was approved.         *)
LEMMA AcceptedFound ==
    ASSUME DelegationInv, NEW t \in Task, tasks[t].accepted # None
    PROVE  /\ \E i \in DOMAIN results[t] : results[t][i].revision = tasks[t].accepted
           /\ Approved(t, tasks[t].accepted)
<1>1. results[t] \in Seq(Result) /\ GoodRow(t, tasks[t]) /\ GoodResults(t)
    BY TypeParts DEF DelegationInv, StoreTypes
<1>2. tasks[t].accepted \in 1 .. Len(results[t]) /\ Approved(t, tasks[t].accepted)
    BY <1>1 DEF GoodRow, TaskRow, Revision
<1>3. DOMAIN results[t] = 1 .. Len(results[t])
    BY <1>1
<1> QED BY <1>1, <1>2, <1>3 DEF GoodResults

(* A command takes up a task, with its accepted result or with none.       *)
LEMMA TakeGood ==
    ASSUME DelegationInv, NEW p \in Proc, NEW t \in Task,
           pc[p] = "idle" \/ (pc[p] = "promote" /\ tid[p] = t),
           NEW label \in {"check", "enqueue", "promote"}, NEW r,
           \/ r = res[p] /\ pc[p] = "idle"
           \/ r = ResultOf(t, tasks[t].accepted) /\ tasks[t].accepted # None,
           tid' = [tid EXCEPT ![p] = t], res' = [res EXCEPT ![p] = r], Goto(p, label),
           UNCHANGED <<tasks, records, files, row, to, next>>
    PROVE  DelegationInv'
<1>1. LocalTypes /\ StoreTypes
    BY TypeParts DEF DelegationInv
<1>2. r = None \/ (r \in Result /\ r.revision <= Len(results[t]))
  <2>1. CASE r = res[p] /\ pc[p] = "idle"
    <3>1. GoodLocals(p)
      BY DEF DelegationInv
    <3> QED BY <2>1, <3>1 DEF GoodLocals
  <2>2. CASE r = ResultOf(t, tasks[t].accepted) /\ tasks[t].accepted # None
    <3>1. /\ tasks[t].accepted \in 1 .. Len(results[t])
          /\ r \in Result /\ r.revision = tasks[t].accepted
      BY <2>2, AcceptedFound, ResultFound
    <3>2. Len(results[t]) \in Nat
      BY <1>1 DEF StoreTypes
    <3> QED BY <3>1, <3>2
  <2> QED BY <2>1, <2>2
<1>3. LocalTypes'
    BY <1>1, <1>2 DEF LocalTypes, Goto, Label
<1>4. Only(p) /\ pc'[p] = label /\ tid'[p] = t /\ res'[p] = r /\ row'[p] = row[p]
        /\ next'[p] = next[p]
    BY <1>1 DEF LocalTypes, Goto, Only
<1>5. GoodRow(t, row[p])
    BY <1>1, AbsentTaskGood DEF DelegationInv, GoodLocals
<1>6. GoodLocals(p)'
    BY <1>2, <1>4, <1>5 DEF GoodLocals, GoodRow, Approved, DelegationInv, records
<1>7. StoreTypes'
    BY <1>1 DEF StoreTypes, records, files
<1> QED BY <1>3, <1>4, <1>6, <1>7, QuietFrame DEF GoodStep, records, files

LEMMA PromotionKeepsDelegation ==
    ASSUME DelegationInv,
           \/ \E p \in Proc, t \in Task : PromotionCommand(p, t) \/ ReviseFailed(p, t)
           \/ \E p \in Proc : PromotionStep(p)
    PROVE  DelegationInv'
<1>1. \A t \in Task : Promotable(t) => tasks[t].accepted # None
  <2> SUFFICES ASSUME NEW t \in Task, Promotable(t) PROVE tasks[t].accepted # None
    OBVIOUS
  <2>1. tasks[t].accepted \in 1 .. Len(results[t])
    BY ResultFound DEF Promotable
  <2> QED BY <2>1, DelegationAssumption
<1>2. ASSUME NEW p \in Proc, NEW t \in Task, PromotionCommand(p, t) PROVE DelegationInv'
  <2>1. CASE Promote(p, t)
    BY <1>1, <2>1, TakeGood DEF Promote, TakeAccepted
  <2>2. CASE Enqueue(p, t)
    BY <2>2, TakeGood DEF Enqueue
  <2>3. CASE QueuePromote(p, t)
    <3>1. res' = [res EXCEPT ![p] = res[p]]
      BY <2>3, TypeParts DEF DelegationInv, LocalTypes, QueuePromote
    <3> QED BY <2>3, <3>1, TakeGood DEF QueuePromote
  <2> QED BY <1>2, <2>1, <2>2, <2>3 DEF PromotionCommand
<1>3. ASSUME NEW p \in Proc, NEW t \in Task, ReviseFailed(p, t) PROVE DelegationInv'
  <2>1. tasks[t].latest \in 1 .. Len(results[t])
          /\ ResultOf(t, tasks[t].latest) = results[t][tasks[t].latest]
    BY <1>3, ResultFound DEF ReviseFailed
  <2> QED BY <1>3, <2>1, BeginReviewKeeps DEF ReviseFailed, Decision
<1>4. ASSUME NEW p \in Proc, PromotionStep(p) PROVE DelegationInv'
  <2>1. LocalTypes /\ StoreTypes
    BY TypeParts DEF DelegationInv
  <2>2. UNCHANGED <<tasks, records, files>>
    BY <1>4 DEF PromotionStep, CheckRepository, Apply, GitFails, Verify, Rollback, RecordPromotion,
       AddEntry, PromoteQueued, Proceed, TakeAccepted
  <2>3. StoreTypes' /\ UNCHANGED <<tasks, results, reviews, revdirs>>
    BY <2>1, <2>2 DEF StoreTypes, records, files
  <2>4. {"promoting", "promoted", "promotion_failed"} \subseteq PlainStatus
          /\ {"apply", "idle"} \subseteq Continuation
    BY DEF PlainStatus, TaskStatus, Transitions, TerminalStatus, Continuation
  <2>5. CASE CheckRepository(p)
    BY <2>3, <2>4, <2>5, AskGood, ReturnGood, QuietFrame DEF CheckRepository
  <2>6. CASE Apply(p) \/ GitFails(p) \/ Verify(p) \/ Rollback(p)
    <3>1. PICK label \in {"verify", "rollback", "stranded", "promoted", "rolled_back"} :
              Proceed(p, label) /\ pc[p] \notin {"idle", "record"}
      BY <2>6 DEF Apply, GitFails, Verify, Rollback
    <3>2. label \in Label \ {"idle", "save", "capture", "record", "review", "move", "set"}
      BY DEF Label
    <3> QED BY <2>3, <3>1, <3>2, GotoGood, QuietFrame DEF Proceed
  <2>7. CASE RecordPromotion(p)
    BY <2>3, <2>4, <2>7, AskGood, QuietFrame DEF RecordPromotion
  <2>8. CASE AddEntry(p)
    BY <2>3, <2>8, ReturnGood, QuietFrame DEF AddEntry
  <2>9. CASE PromoteQueued(p)
    <3>1. CASE Promotable(tid[p])
      <4>1. tid[p] \in Task /\ TakeAccepted(p, tid[p]) /\ pc[p] = "promote"
        BY <2>9, <3>1 DEF PromoteQueued, DelegationInv, GoodLocals
      <4> QED BY <1>1, <3>1, <4>1, TakeGood DEF TakeAccepted
    <3>2. CASE ~Promotable(tid[p])
      BY <2>3, <2>9, <3>2, ReturnGood, QuietFrame DEF PromoteQueued
    <3> QED BY <3>1, <3>2
  <2> QED BY <1>4, <2>5, <2>6, <2>7, <2>8, <2>9 DEF PromotionStep
<1> QED BY <1>2, <1>3, <1>4

-----------------------------------------------------------------------------
(* What a step does to its command, as far as promotion is concerned.      *)

(* The command has nothing to do with promotion.                           *)
Aside(p) == ~Holds(p) /\ ~Carrying(p) /\ pc[p] # "enqueue"

(* Its transition went through the table.                                  *)
Looked(p) ==
    /\ pc[p] = "move" /\ pc'[p] = "set"
    /\ tid'[p] = tid[p] /\ res'[p] = res[p] /\ to'[p] = to[p] /\ next'[p] = next[p]
    /\ UNCHANGED tasks

(* It wrote the row that it had read.                                      *)
Wrote(p) ==
    /\ pc[p] = "set" /\ tid[p] \in Task
    /\ MayMove(tasks[tid[p]].status, to[p])
    /\ \A t \in Task : tasks'[t].status = IF t = tid[p] THEN to[p] ELSE tasks[t].status
    /\ \/ /\ next[p] = "apply" /\ pc'[p] = "apply" /\ next'[p] # "apply"
          /\ tid'[p] = tid[p] /\ res'[p] = res[p]
       \/ Aside(p)'

(* Nothing is taken back.                                                  *)
Grows == \A t \in Task :
    /\ \A i \in DOMAIN results[t] : i \in DOMAIN results'[t] /\ results'[t][i] = results[t][i]
    /\ reviews[t] \subseteq reviews'[t]

LEMMA GrowsWhenSame == UNCHANGED <<results, reviews>> => Grows
BY DEF Grows

(* Status words of a promotion.                                            *)
LEMMA PromotingMoves ==
    /\ \A s : MayMove("promoting", s) => s \in {"promoted", "promotion_failed"}
    /\ \A s : MayMove(s, "promoting") => s \in {"accepted", "promotion_failed"}
    /\ \A s : ~MayMove("promoted", s)
    /\ \A s : MayMove(s, "promoted") \/ MayMove(s, "promotion_failed") => s = "promoting"
<1>1. \A s : MayMove("promoting", s) => s \in {"promoted", "promotion_failed"}
    BY DEF MayMove, Transitions
<1>2. \A s : MayMove(s, "promoting") => s \in {"accepted", "promotion_failed"}
    BY DEF MayMove, Transitions
<1>3. \A s : ~MayMove("promoted", s)
    BY DEF MayMove, Transitions
<1>4. \A s : MayMove(s, "promoted") \/ MayMove(s, "promotion_failed") => s = "promoting"
    BY DEF MayMove, Transitions
<1> QED BY <1>1, <1>2, <1>3, <1>4

LEMMA WrotesTask ==
    ASSUME DelegationInv, NEW p \in Proc, pc[p] = "set", tasks[tid[p]].status = row[p].status,
           tasks' = [tasks EXCEPT ![tid[p]] = Updated(p)]
    PROVE  /\ tid[p] \in Task /\ MayMove(tasks[tid[p]].status, to[p])
           /\ \A t \in Task : tasks'[t].status = IF t = tid[p] THEN to[p] ELSE tasks[t].status
<1>1. LocalTypes /\ StoreTypes /\ tid[p] \in Task /\ MayMove(row[p].status, to[p])
    BY TypeParts DEF DelegationInv, GoodLocals
<1>2. Updated(p).status = to[p]
  <2>1. row[p] \in TaskRow
    BY <1>1 DEF LocalTypes
  <2> QED BY <2>1 DEF Updated, TaskRow
<1> QED BY <1>1, <1>2 DEF StoreTypes

LEMMA ReturnAside ==
    ASSUME DelegationInv, NEW p \in Proc, Return(p)
    PROVE  Only(p) /\ Aside(p)'
<1>1. LocalTypes
    BY TypeParts DEF DelegationInv
<1>2. Only(p) /\ pc'[p] = "idle" /\ next'[p] = "idle"
    BY <1>1 DEF LocalTypes, Return, Goto, Only
<1> QED BY <1>2 DEF Aside, Holds, Closing, Carrying, Promoting

LEMMA GoOnAside ==
    ASSUME DelegationInv, NEW p \in Proc,
           NEW label \in {"executor", "launch", "attempt", "attempted", "raised"}, GoOn(p, label)
    PROVE  Only(p) /\ Aside(p)'
<1>1. LocalTypes
    BY TypeParts DEF DelegationInv
<1>2. Only(p) /\ pc'[p] = label /\ next'[p] = "idle"
    BY <1>1 DEF LocalTypes, GoOn, Goto, Only
<1> QED BY <1>2 DEF Aside, Holds, Closing, Carrying, Promoting

(* The status that is asked for is not one of promotion.                   *)
LEMMA AskAside ==
    ASSUME DelegationInv, NEW p \in Proc, NEW s, NEW label \in Label, Ask(p, s, label),
           s \notin {"promoted", "promotion_failed"}, label # "apply"
    PROVE  Aside(p)'
<1>1. LocalTypes
    BY TypeParts DEF DelegationInv
<1>2. pc'[p] = "move" /\ to'[p] = s /\ next'[p] = label
    BY <1>1 DEF LocalTypes, Ask, Goto
<1> QED BY <1>2 DEF Aside, Holds, Closing, Carrying, Promoting

LEMMA OnlyOne ==
    ASSUME DelegationInv, NEW p \in Proc, NEW t \in Task, Command(p, t) \/ Step(p) \/ Crash(p)
    PROVE  Only(p)
<1>1. LocalTypes
    BY TypeParts DEF DelegationInv
<1>2. CASE Command(p, t)
    BY <1>1, <1>2 DEF Command, Assign, Report, Launch, ReviseWork, Prepare, Capture, Accept, Reject,
       ReviseResult, BeginReview, Begin, Ask, Goto, Only, LocalTypes
<1>3. CASE Step(p) \/ Crash(p)
  <2>1. ASSUME Return(p) PROVE Only(p)
    BY <2>1, ReturnAside
  <2>2. ASSUME NEW label, GoOn(p, label) PROVE Only(p)
    BY <1>1, <2>2 DEF LocalTypes, GoOn, Goto, Only
  <2>3. ASSUME NEW s, NEW label, Ask(p, s, label), UNCHANGED <<tid, row, res>> PROVE Only(p)
    BY <1>1, <2>3 DEF LocalTypes, Ask, Goto, Only
  <2>4. CASE Move(p) \/ SetTask(p)
    <3>1. ASSUME Refused(p) PROVE Only(p)
      BY <2>1, <2>2, <3>1 DEF Refused
    <3>2. CASE SetTask(p)
      BY <2>1, <2>2, <3>1, <3>2 DEF SetTask
    <3>3. CASE Move(p)
      BY <1>1, <2>1, <2>2, <3>1, <3>3 DEF Move, Goto, Only, LocalTypes
    <3> QED BY <2>4, <3>2, <3>3
  <2>5. CASE WorktreeFails(p) \/ ExecutorRaises(p) \/ Crash(p)
    BY <2>1, <2>5 DEF WorktreeFails, ExecutorRaises, Crash
  <2>6. CASE AddWorkspace(p) \/ ExecutorEnds(p) \/ AddResult(p) \/ AddReview(p)
    BY <2>3, <2>6 DEF AddWorkspace, ExecutorEnds, AddResult, AddReview
  <2>7. CASE MakeRoot(p)
    BY <1>1, <2>1, <2>7 DEF MakeRoot, Goto, Only, LocalTypes
  <2>8. CASE CaptureRevision(p)
    BY <1>1, <2>1, <2>8 DEF CaptureRevision, Goto, Only, LocalTypes
  <2> QED BY <1>3, <2>4, <2>5, <2>6, <2>7, <2>8 DEF Step
<1> QED BY <1>2, <1>3

(* A step of Delegation gives back what it holds, goes on with a           *)
(* transition, or has nothing to do with promotion.                        *)
LEMMA DelegationSteps ==
    ASSUME DelegationInv, Holders, NEW p \in Proc, NEW t \in Task,
           Command(p, t) \/ Step(p) \/ Crash(p)
    PROVE  Looked(p) \/ Wrote(p) \/ (UNCHANGED tasks /\ Aside(p)')
<1>1. LocalTypes
    BY TypeParts DEF DelegationInv
<1>2. next[p] = "apply" => pc[p] \in {"move", "set"}
    BY DEF Holders
<1>3. CASE Command(p, t)
  <2>1. UNCHANGED tasks
    BY <1>3 DEF Command, Assign, Report, Launch, ReviseWork, Prepare, Capture, Accept, Reject,
       ReviseResult, BeginReview, Begin
  <2>2. pc[p] = "idle"
    BY <1>3 DEF Command, Assign, Report, Launch, ReviseWork, Prepare, Capture, Accept, Reject,
       ReviseResult, BeginReview, Begin
  <2>3. CASE Assign(p, t) \/ Report(p, t) \/ Launch(p, t) \/ ReviseWork(p, t)
    <3>1. {"idle", "executor"} \subseteq Label
      BY DEF Label
    <3> QED BY <2>1, <2>3, <3>1, AskAside DEF Assign, Report, Launch, ReviseWork, Begin
  <2>4. CASE Prepare(p, t) \/ Capture(p, t) \/ Accept(p, t) \/ Reject(p, t) \/ ReviseResult(p, t)
    <3>1. pc'[p] \in {"root", "capture", "review"} /\ next'[p] = next[p]
      BY <1>1, <2>4 DEF Prepare, Capture, Accept, Reject, ReviseResult, BeginReview, Goto, LocalTypes
    <3>2. Aside(p)'
      BY <1>2, <2>2, <3>1 DEF Aside, Holds, Closing, Carrying, Promoting
    <3> QED BY <2>1, <3>2
  <2> QED BY <1>3, <2>3, <2>4 DEF Command
<1>4. ASSUME Refused(p) PROVE Aside(p)'
    BY <1>4, ReturnAside, GoOnAside DEF Refused
<1>5. CASE Move(p)
  <2>1. CASE MayMove(tasks[tid[p]].status, to[p])
    BY <1>1, <1>5, <2>1 DEF Move, Goto, Looked, LocalTypes
  <2>2. CASE ~MayMove(tasks[tid[p]].status, to[p])
    BY <1>4, <1>5, <2>2 DEF Move
  <2> QED BY <2>1, <2>2
<1>6. CASE SetTask(p)
  <2>1. CASE tasks[tid[p]].status = row[p].status
    <3>1. /\ tid[p] \in Task /\ MayMove(tasks[tid[p]].status, to[p]) /\ pc[p] = "set"
          /\ \A u \in Task : tasks'[u].status = IF u = tid[p] THEN to[p] ELSE tasks[u].status
      BY <1>6, <2>1, WrotesTask DEF SetTask
    <3>2. CASE next[p] = "idle"
      BY <1>6, <2>1, <3>1, <3>2, ReturnAside DEF SetTask, Wrote
    <3>3. CASE next[p] = "apply"
      <4>1. pc'[p] = "apply" /\ next'[p] = "idle" /\ tid'[p] = tid[p] /\ res'[p] = res[p]
        BY <1>1, <1>6, <2>1, <3>3 DEF SetTask, GoOn, Goto, LocalTypes
      <4> QED BY <3>1, <3>3, <4>1 DEF Wrote
    <3>4. CASE next[p] \notin {"idle", "apply"}
      <4>1. next[p] \in {"executor", "launch", "attempt", "attempted", "raised"}
        BY <3>4 DEF DelegationInv, GoodLocals, Continuation
      <4>2. GoOn(p, next[p])
        BY <1>6, <2>1, <3>4 DEF SetTask
      <4>3. Aside(p)'
        BY <4>1, <4>2, GoOnAside
      <4> QED BY <3>1, <4>3 DEF Wrote
    <3> QED BY <3>2, <3>3, <3>4
  <2>2. CASE tasks[tid[p]].status # row[p].status
    BY <1>4, <1>6, <2>2 DEF SetTask
  <2> QED BY <2>1, <2>2
<1>7. CASE WorktreeFails(p) \/ ExecutorRaises(p) \/ Crash(p)
    BY <1>7, ReturnAside DEF WorktreeFails, ExecutorRaises, Crash
<1>8. CASE AddWorkspace(p) \/ ExecutorEnds(p) \/ AddResult(p) \/ AddReview(p)
  <2>1. UNCHANGED tasks
    BY <1>8 DEF AddWorkspace, ExecutorEnds, AddResult, AddReview
  <2>2. "idle" \in Label
    BY DEF Label
  <2>3. CASE AddReview(p)
    <3>1. to[p] \in Decision
      BY <2>3 DEF AddReview, DelegationInv, GoodLocals
    <3> QED BY <2>1, <2>2, <2>3, <3>1, AskAside DEF AddReview, Decision
  <2>4. CASE AddWorkspace(p) \/ ExecutorEnds(p) \/ AddResult(p)
    BY <2>1, <2>2, <2>4, AskAside DEF AddWorkspace, ExecutorEnds, AddResult
  <2> QED BY <1>8, <2>3, <2>4
<1>9. CASE MakeRoot(p) \/ CaptureRevision(p)
  <2>1. UNCHANGED tasks /\ pc[p] \in {"root", "capture"}
    BY <1>9 DEF MakeRoot, CaptureRevision
  <2>2. Return(p) \/ (pc'[p] \in {"worktree", "record"} /\ next'[p] = next[p])
    BY <1>1, <1>9 DEF MakeRoot, CaptureRevision, Goto, LocalTypes
  <2>3. ASSUME pc'[p] \in {"worktree", "record"}, next'[p] = next[p] PROVE Aside(p)'
    BY <1>2, <2>1, <2>3 DEF Aside, Holds, Closing, Carrying, Promoting
  <2> QED BY <2>1, <2>2, <2>3, ReturnAside
<1> QED BY <1>3, <1>5, <1>6, <1>7, <1>8, <1>9 DEF Step

-----------------------------------------------------------------------------
(* The parts of ReviewInv, kept by a step of one command.                  *)

LEMMA HoldersKeep ==
    ASSUME Holders, NEW p \in Proc, Only(p),
           \A q \in Proc : q # p /\ Holds(q) => tasks'[tid[q]].status = "promoting",
           Holds(p)' => /\ tasks'[tid'[p]].status = "promoting"
                        /\ \A q \in Proc : q # p /\ Holds(q) => tid[q] # tid'[p],
           next'[p] = "apply" => pc'[p] \in {"move", "set"} /\ to'[p] = "promoting"
    PROVE  Holders'
<1>1. ASSUME NEW q \in Proc, q # p
      PROVE  /\ Holds(q)' <=> Holds(q)
             /\ pc'[q] = pc[q] /\ tid'[q] = tid[q] /\ to'[q] = to[q] /\ next'[q] = next[q]
    BY <1>1 DEF Only, Holds, Closing
<1>2. \A q \in Proc : Holds(q)' => tasks'[tid'[q]].status = "promoting"
    BY <1>1
<1>3. ASSUME NEW q \in Proc, NEW r \in Proc, Holds(q)', Holds(r)', tid'[q] = tid'[r] PROVE q = r
    BY <1>1, <1>3 DEF Holders
<1>4. \A q \in Proc : next'[q] = "apply" => pc'[q] \in {"move", "set"} /\ to'[q] = "promoting"
    BY <1>1 DEF Holders
<1> QED BY <1>2, <1>3, <1>4 DEF Holders

(* A step that moves no task and brings its command no promotion.          *)
LEMMA HoldersSame ==
    ASSUME Holders, NEW p \in Proc, Only(p), UNCHANGED tasks,
           Holds(p)' => Holds(p) /\ tid'[p] = tid[p],
           next'[p] = "apply" => pc'[p] \in {"move", "set"} /\ to'[p] = "promoting"
    PROVE  Holders'
<1>1. Holds(p)' => /\ tasks'[tid'[p]].status = "promoting"
                   /\ \A q \in Proc : q # p /\ Holds(q) => tid[q] # tid'[p]
    BY DEF Holders
<1>2. \A q \in Proc : q # p /\ Holds(q) => tasks'[tid[q]].status = "promoting"
    BY DEF Holders
<1> QED BY <1>1, <1>2, HoldersKeep

(* Only the command that made a task "promoting" moves it on.              *)
LEMMA HoldersWrote ==
    ASSUME Holders, DelegationInv, NEW p \in Proc, Only(p), Wrote(p)
    PROVE  Holders'
<1>1. /\ pc[p] = "set" /\ tid[p] \in Task /\ MayMove(tasks[tid[p]].status, to[p])
      /\ \A t \in Task : tasks'[t].status = IF t = tid[p] THEN to[p] ELSE tasks[t].status
    BY DEF Wrote
<1>2. ASSUME NEW q \in Proc, q # p, Holds(q)
      PROVE  tid[q] \in Task /\ tid[q] # tid[p] /\ tasks[tid[q]].status = "promoting"
  <2>1. tasks[tid[q]].status = "promoting"
    BY <1>2 DEF Holders
  <2>2. tid[q] \in Task
    BY <1>2 DEF Holds, Closing, Promoting, DelegationInv, GoodLocals
  <2>3. ASSUME tid[q] = tid[p] PROVE FALSE
    <3>1. Closing(p)
      BY <1>1, <2>1, <2>3, PromotingMoves DEF Closing
    <3> QED BY <1>2, <2>3, <3>1 DEF Holders, Holds
  <2> QED BY <2>1, <2>2, <2>3
<1>3. CASE Aside(p)'
    BY <1>1, <1>2, <1>3, HoldersKeep DEF Aside, Carrying
<1>4. CASE next[p] = "apply" /\ pc'[p] = "apply" /\ next'[p] # "apply" /\ tid'[p] = tid[p]
  <2>1. to[p] = "promoting"
    BY <1>4 DEF Holders
  <2> QED BY <1>1, <1>2, <1>4, <2>1, HoldersKeep
<1> QED BY <1>3, <1>4 DEF Wrote

(* What was reviewed stays so.                                             *)
LEMMA ReviewedStays ==
    ASSUME DelegationInv, Holders, NEW q \in Proc, Carrying(q), WasReviewed(q), Grows,
           tid'[q] = tid[q], res'[q] = res[q]
    PROVE  WasReviewed(q)'
<1>1. pc[q] \notin {"idle", "record"}
    BY DEF Carrying, Promoting, Holders
<1>2. /\ tid[q] \in Task /\ res[q] \in Result
      /\ res[q] # None => res[q].revision <= Len(results[tid[q]])
    BY <1>1 DEF DelegationInv, GoodLocals, WasReviewed
<1>3. results[tid[q]] \in Seq(Result) /\ res[q] # None /\ res[q].revision \in Revision
    BY <1>2, TypeParts, DelegationAssumption DEF DelegationInv, StoreTypes, Result, Revision
<1>4. DOMAIN results[tid[q]] = 1 .. Len(results[tid[q]])
    BY <1>3
<1>5. res[q].revision \in DOMAIN results[tid[q]]
    BY <1>2, <1>3, <1>4, DelegationAssumption DEF Revision
<1>6. res[q] = results'[tid[q]][res[q].revision]
    BY <1>2, <1>5 DEF WasReviewed, Grows
<1>7. [revision |-> res[q].revision, decision |-> "accepted"] \in reviews'[tid[q]]
    BY <1>2 DEF WasReviewed, Approved, Grows
<1> QED BY <1>2, <1>6, <1>7 DEF WasReviewed, Approved

LEMMA CarriersKeep ==
    ASSUME DelegationInv, Holders, Carriers, NEW p \in Proc, Only(p), Grows,
           Carrying(p)' => WasReviewed(p)' \/ (Carrying(p) /\ tid'[p] = tid[p] /\ res'[p] = res[p]),
           pc'[p] = "enqueue" => res'[p] \in Result
    PROVE  Carriers'
<1>1. ASSUME NEW q \in Proc, Carrying(q)' PROVE WasReviewed(q)'
  <2>1. ASSUME Carrying(q), tid'[q] = tid[q], res'[q] = res[q] PROVE WasReviewed(q)'
    BY <2>1, ReviewedStays DEF Carriers
  <2>2. CASE q = p
    BY <1>1, <2>1, <2>2
  <2>3. CASE q # p
    BY <1>1, <2>1, <2>3 DEF Only, Carrying
  <2> QED BY <2>2, <2>3
<1>2. ASSUME NEW q \in Proc, pc'[q] = "enqueue" PROVE res'[q] \in Result
    BY <1>2 DEF Carriers, Only
<1> QED BY <1>1, <1>2 DEF Carriers

(* What was approved stays so.                                             *)
LEMMA ApprovalStays ==
    ASSUME Grows, NEW t \in Task, NEW c, ApprovedFor(t, c)
    PROVE  ApprovedFor(t, c)'
<1>1. PICK i \in DOMAIN results[t] :
          /\ results[t][i].patch = c
          /\ [revision |-> results[t][i].revision, decision |-> "accepted"] \in reviews[t]
    BY DEF ApprovedFor
<1>2. /\ i \in DOMAIN results'[t] /\ results'[t][i] = results[t][i]
      /\ reviews[t] \subseteq reviews'[t]
    BY DEF Grows
<1> QED BY <1>1, <1>2 DEF ApprovedFor

LEMMA CanonicalSame ==
    ASSUME CanonicalWasApproved, Grows, \A h \in Hunk : canonical'[h] \in {None, canonical[h]}
    PROVE  CanonicalWasApproved'
<1> SUFFICES ASSUME NEW h \in Hunk, canonical'[h] # None
             PROVE  \E t \in Task, c \in Patch : ApprovedFor(t, c)' /\ Brings(c, h, canonical'[h])
    BY DEF CanonicalWasApproved, Brings
<1>1. canonical[h] # None /\ canonical'[h] = canonical[h]
    OBVIOUS
<1>2. PICK t \in Task, c \in Patch : ApprovedFor(t, c) /\ Brings(c, h, canonical[h])
    BY <1>1 DEF CanonicalWasApproved
<1>3. ApprovedFor(t, c)'
    BY <1>2, ApprovalStays
<1> QED BY <1>1, <1>2, <1>3

(* What is carried may be applied.                                         *)
LEMMA CarriedIsApproved ==
    ASSUME DelegationInv, Holders, Carriers, NEW p \in Proc, Carrying(p)
    PROVE  /\ tid[p] \in Task /\ res[p] \in Result
           /\ res[p].revision \in DOMAIN results[tid[p]]
           /\ results[tid[p]][res[p].revision] = res[p]
           /\ Approved(tid[p], res[p].revision)
<1>1. pc[p] \notin {"idle", "record"} /\ WasReviewed(p)
    BY DEF Carrying, Promoting, Holders, Carriers
<1>2. /\ tid[p] \in Task /\ res[p] \in Result
      /\ res[p] # None => res[p].revision <= Len(results[tid[p]])
    BY <1>1 DEF DelegationInv, GoodLocals, WasReviewed
<1>3. results[tid[p]] \in Seq(Result) /\ res[p] # None /\ res[p].revision \in Revision
    BY <1>2, TypeParts, DelegationAssumption DEF DelegationInv, StoreTypes, Result, Revision
<1>4. DOMAIN results[tid[p]] = 1 .. Len(results[tid[p]])
    BY <1>3
<1>5. res[p].revision \in DOMAIN results[tid[p]]
    BY <1>2, <1>3, <1>4, DelegationAssumption DEF Revision
<1> QED BY <1>1, <1>2, <1>5 DEF WasReviewed

LEMMA CarriedWasApproved ==
    ASSUME ReviewInv, NEW p \in Proc, Carrying(p)
    PROVE  tid[p] \in Task /\ res[p].patch \in Patch /\ ApprovedFor(tid[p], res[p].patch)
<1>1. /\ tid[p] \in Task /\ res[p] \in Result
      /\ res[p].revision \in DOMAIN results[tid[p]]
      /\ results[tid[p]][res[p].revision] = res[p]
      /\ Approved(tid[p], res[p].revision)
    BY CarriedIsApproved DEF ReviewInv
<1> QED BY <1>1 DEF Result, ApprovedFor, Approved

LEMMA DelegationGrows ==
    ASSUME DelegationInv, NEW p \in Proc, NEW t \in Task, Command(p, t) \/ Step(p) \/ Crash(p)
    PROVE  Grows
<1>1. StoreTypes
    BY TypeParts DEF DelegationInv
<1>2. CASE AddResult(p)
  <2>1. /\ tid[p] \in Task /\ res[p] \in Result /\ UNCHANGED reviews
        /\ results' = [results EXCEPT ![tid[p]] = Append(@, res[p])]
    BY <1>2, DelegationAssumption, TypeParts DEF AddResult, DelegationInv, GoodLocals, LocalTypes
  <2>2. results[tid[p]] \in Seq(Result)
    BY <1>1, <2>1 DEF StoreTypes
  <2>3. \A i \in DOMAIN results[tid[p]] :
            /\ i \in DOMAIN Append(results[tid[p]], res[p])
            /\ Append(results[tid[p]], res[p])[i] = results[tid[p]][i]
    BY <2>1, <2>2
  <2>4. results'[tid[p]] = Append(results[tid[p]], res[p])
          /\ \A u \in Task : u # tid[p] => results'[u] = results[u]
    BY <1>1, <2>1 DEF StoreTypes
  <2> QED BY <2>1, <2>3, <2>4 DEF Grows
<1>3. CASE AddReview(p)
  <2>1. UNCHANGED results /\ \A u \in Task : reviews[u] \subseteq reviews'[u]
    BY <1>1, <1>3 DEF AddReview, StoreTypes
  <2> QED BY <2>1 DEF Grows
<1>4. ASSUME UNCHANGED records PROVE Grows
    BY <1>4, GrowsWhenSame DEF records
<1>5. CASE ExecutorEnds(p)
    BY <1>5, GrowsWhenSame DEF ExecutorEnds
<1>6. CASE Command(p, t)
    BY <1>4, <1>6 DEF Command, Assign, Report, Launch, ReviseWork, Prepare, Capture, Accept, Reject,
       ReviseResult, BeginReview, Begin
<1>7. CASE \/ Move(p) \/ SetTask(p) \/ MakeRoot(p) \/ WorktreeFails(p) \/ AddWorkspace(p)
           \/ ExecutorRaises(p) \/ CaptureRevision(p) \/ Crash(p)
    BY <1>4, <1>7 DEF Move, SetTask, MakeRoot, WorktreeFails, AddWorkspace, ExecutorRaises,
       CaptureRevision, Crash
<1> QED BY <1>2, <1>3, <1>5, <1>6, <1>7 DEF Step

-----------------------------------------------------------------------------
(* The steps of a promotion.                                               *)

LEMMA PromotableAccepted ==
    ASSUME DelegationInv, NEW t \in Task, Promotable(t)
    PROVE  tasks[t].accepted # None
<1>1. tasks[t].accepted \in 1 .. Len(results[t])
    BY ResultFound DEF Promotable
<1> QED BY <1>1, DelegationAssumption

(* What a command takes up was reviewed.                                   *)
LEMMA TakesReviewed ==
    ASSUME DelegationInv, NEW p \in Proc, NEW t \in Task, tasks[t].accepted # None,
           tid' = [tid EXCEPT ![p] = t], UNCHANGED records,
           res' = [res EXCEPT ![p] = ResultOf(t, tasks[t].accepted)]
    PROVE  /\ WasReviewed(p)' /\ res'[p] \in Result
           /\ \A q \in Proc : q # p => tid'[q] = tid[q] /\ res'[q] = res[q]
<1>1. LocalTypes
    BY TypeParts DEF DelegationInv
<1> DEFINE n == tasks[t].accepted
<1>2. /\ ResultOf(t, n) = results[t][n] /\ results[t][n] \in Result
      /\ results[t][n].revision = n /\ Approved(t, n)
    BY AcceptedFound, ResultFound
<1>3. /\ tid'[p] = t /\ res'[p] = results[t][n]
      /\ \A q \in Proc : q # p => tid'[q] = tid[q] /\ res'[q] = res[q]
    BY <1>1, <1>2 DEF LocalTypes
<1>4. UNCHANGED <<results, reviews>>
    BY DEF records
<1> HIDE DEF n
<1> QED BY <1>2, <1>3, <1>4 DEF WasReviewed, Approved

(* What is the same in the steps before a promotion begins to change the   *)
(* canonical worktree, and in those of the queue.                          *)
Prepares(p) ==
    /\ Only(p) /\ pc'[p] # "record"
    /\ ~Holds(p) /\ ~Holds(p)'
    /\ UNCHANGED <<tasks, results, reviews, canonical, promotions, stranded>>
    /\ next'[p] = "apply" => pc'[p] = "move" /\ to'[p] = "promoting"
    /\ Carrying(p)' => WasReviewed(p)' \/ (Carrying(p) /\ tid'[p] = tid[p] /\ res'[p] = res[p])
    /\ pc'[p] = "enqueue" => res'[p] \in Result
    /\ queue' \in [Task -> Patch \cup {None}]

LEMMA TakeAcceptedPrepares ==
    ASSUME ReviewInv, NEW p \in Proc, NEW t \in Task, Promotable(t), TakeAccepted(p, t),
           pc[p] \in {"idle", "promote"}
    PROVE  Prepares(p)
<1>1. LocalTypes /\ DelegationInv
    BY TypeParts DEF ReviewInv, DelegationInv
<1>2. WasReviewed(p)' /\ \A q \in Proc : q # p => tid'[q] = tid[q] /\ res'[q] = res[q]
    BY <1>1, PromotableAccepted, TakesReviewed DEF TakeAccepted
<1>3. Only(p) /\ pc'[p] = "check" /\ next'[p] = next[p]
    BY <1>1, <1>2 DEF LocalTypes, TakeAccepted, Goto, Only
<1>4. next[p] # "apply"
    BY DEF ReviewInv, Holders
<1>5. UNCHANGED <<tasks, results, reviews, canonical, promotions, stranded, queue>>
    BY DEF TakeAccepted, records, pvars
<1>6. queue' \in [Task -> Patch \cup {None}]
    BY <1>5 DEF ReviewInv, PromotionTypeOK
<1>7. ~Holds(p) /\ ~Holds(p)'
    BY <1>3 DEF Holds, Closing, Promoting
<1> QED BY <1>2, <1>3, <1>4, <1>5, <1>6, <1>7 DEF Prepares

LEMMA ReturnPrepares ==
    ASSUME ReviewInv, NEW p \in Proc, Return(p), UNCHANGED <<tasks, records, files, pvars>>,
           ~Holds(p)
    PROVE  Prepares(p)
<1>1. Only(p) /\ Aside(p)' /\ pc'[p] # "record"
    BY ReturnAside, ReturnGood DEF ReviewInv
<1>2. UNCHANGED <<tasks, results, reviews, canonical, promotions, stranded, queue>>
    BY DEF records, pvars
<1>3. queue' \in [Task -> Patch \cup {None}]
    BY <1>2 DEF ReviewInv, PromotionTypeOK
<1> QED BY <1>1, <1>2, <1>3 DEF Prepares, Aside, Carrying

LEMMA PreparingSteps ==
    ASSUME ReviewInv, NEW p \in Proc, NEW t \in Task,
           \/ PromotionCommand(p, t) \/ ReviseFailed(p, t)
           \/ CheckRepository(p) \/ AddEntry(p) \/ PromoteQueued(p)
    PROVE  Prepares(p)
<1>1. LocalTypes /\ DelegationInv
    BY TypeParts DEF ReviewInv, DelegationInv
<1>2. next[p] = "apply" => pc[p] \in {"move", "set"}
    BY DEF ReviewInv, Holders
<1>3. \A u \in Task : Promotable(u) => tasks[u].accepted # None
    BY <1>1, PromotableAccepted
<1>4. CASE Promote(p, t)
    BY <1>4, TakeAcceptedPrepares DEF Promote
<1>5. CASE PromoteQueued(p)
  <2>1. tid[p] \in Task /\ pc[p] = "promote" /\ ~Holds(p)
    BY <1>1, <1>5 DEF PromoteQueued, DelegationInv, GoodLocals, Holds, Closing, Promoting
  <2> QED BY <1>5, <2>1, TakeAcceptedPrepares, ReturnPrepares DEF PromoteQueued
<1>6. CASE Enqueue(p, t)
  <2>1. res'[p] \in Result /\ \A q \in Proc : q # p => tid'[q] = tid[q] /\ res'[q] = res[q]
    BY <1>1, <1>6, TakesReviewed DEF Enqueue
  <2>2. Only(p) /\ pc'[p] = "enqueue" /\ next'[p] = next[p] /\ pc[p] = "idle"
    BY <1>1, <1>6, <2>1 DEF LocalTypes, Enqueue, Goto, Only
  <2>3. UNCHANGED <<tasks, results, reviews, canonical, promotions, stranded, queue>>
    BY <1>6 DEF Enqueue, records, pvars
  <2>4. queue' \in [Task -> Patch \cup {None}]
    BY <2>3 DEF ReviewInv, PromotionTypeOK
  <2>5. ~Holds(p) /\ ~Holds(p)' /\ ~Carrying(p)'
    BY <1>2, <2>2 DEF Holds, Closing, Promoting, Carrying
  <2> QED BY <1>2, <2>1, <2>2, <2>3, <2>4, <2>5 DEF Prepares
<1>7. CASE QueuePromote(p, t) \/ ReviseFailed(p, t)
  <2>1. Only(p) /\ pc'[p] \in {"promote", "review"} /\ next'[p] = next[p] /\ pc[p] = "idle"
    BY <1>1, <1>7 DEF LocalTypes, QueuePromote, ReviseFailed, BeginReview, Goto, Only
  <2>2. UNCHANGED <<tasks, results, reviews, canonical, promotions, stranded, queue>>
    BY <1>7 DEF QueuePromote, ReviseFailed, BeginReview, records, pvars
  <2>3. queue' \in [Task -> Patch \cup {None}]
    BY <2>2 DEF ReviewInv, PromotionTypeOK
  <2>4. ~Holds(p) /\ ~Holds(p)' /\ ~Carrying(p)'
    BY <1>2, <2>1 DEF Holds, Closing, Promoting, Carrying
  <2> QED BY <1>2, <2>1, <2>2, <2>3, <2>4 DEF Prepares
<1>8. CASE CheckRepository(p)
  <2>1. pc[p] = "check" /\ UNCHANGED <<tasks, records, files, pvars>>
    BY <1>8 DEF CheckRepository
  <2>2. ~Holds(p) /\ Carrying(p)
    BY <2>1 DEF Holds, Closing, Promoting, Carrying
  <2>3. CASE Clean(res[p].patch)
    <3>1. /\ Only(p) /\ pc'[p] = "move" /\ to'[p] = "promoting" /\ next'[p] = "apply"
          /\ tid'[p] = tid[p] /\ res'[p] = res[p]
      BY <1>1, <1>8, <2>3 DEF LocalTypes, CheckRepository, Ask, Goto, Only
    <3>2. UNCHANGED <<tasks, results, reviews, canonical, promotions, stranded, queue>>
      BY <2>1 DEF records, pvars
    <3>3. queue' \in [Task -> Patch \cup {None}]
      BY <3>2 DEF ReviewInv, PromotionTypeOK
    <3>4. ~Holds(p)'
      BY <3>1 DEF Holds, Closing, Promoting
    <3> QED BY <2>2, <3>1, <3>2, <3>3, <3>4 DEF Prepares
  <2>4. CASE ~Clean(res[p].patch)
    BY <1>8, <2>1, <2>2, <2>4, ReturnPrepares DEF CheckRepository
  <2> QED BY <2>3, <2>4
<1>9. CASE AddEntry(p)
  <2>1. Only(p) /\ Aside(p)' /\ pc'[p] # "record"
    BY <1>1, <1>9, ReturnAside, ReturnGood DEF AddEntry
  <2>2. pc[p] = "enqueue" /\ tid[p] \in Task /\ res[p] \in Result
    BY <1>1, <1>9 DEF AddEntry, ReviewInv, Carriers, DelegationInv, GoodLocals
  <2>3. queue' \in [Task -> Patch \cup {None}]
    BY <1>9, <2>2 DEF AddEntry, ReviewInv, PromotionTypeOK, Result
  <2>4. UNCHANGED <<tasks, results, reviews, canonical, promotions, stranded>>
    BY <1>9 DEF AddEntry, records
  <2>5. ~Holds(p)
    BY <2>2 DEF Holds, Closing, Promoting
  <2> QED BY <2>1, <2>3, <2>4, <2>5 DEF Prepares, Aside, Carrying
<1> QED BY <1>4, <1>5, <1>6, <1>7, <1>8, <1>9 DEF PromotionCommand

(* The canonical worktree is changed, or compared.                         *)
Works(p, label) ==
    /\ Only(p) /\ pc[p] \in {"apply", "verify", "rollback"} /\ pc'[p] = label
    /\ tid'[p] = tid[p] /\ res'[p] = res[p] /\ to'[p] = to[p] /\ next'[p] = next[p]
    /\ UNCHANGED <<tasks, records, promotions, queue, stranded>>

LEMMA ProceedWorks ==
    ASSUME DelegationInv, NEW p \in Proc, NEW label, Proceed(p, label),
           pc[p] \in {"apply", "verify", "rollback"}
    PROVE  Works(p, label)
<1>1. LocalTypes
    BY TypeParts DEF DelegationInv
<1> QED BY <1>1 DEF LocalTypes, Proceed, Goto, Works, Only

LEMMA WorkingSteps ==
    ASSUME ReviewInv, NEW p \in Proc, Apply(p) \/ GitFails(p) \/ Verify(p) \/ Rollback(p)
    PROVE  /\ \E label \in Promoting : Works(p, label)
           /\ canonical' \in [Hunk -> Content \cup {None}]
           /\ CanonicalWasApproved'
<1>1. DelegationInv /\ CanonicalWasApproved /\ canonical \in [Hunk -> Content \cup {None}]
    BY DEF ReviewInv, PromotionTypeOK
<1>2. pc[p] \in {"apply", "verify", "rollback"} /\ Carrying(p)
    BY DEF Apply, GitFails, Verify, Rollback, Carrying, Promoting
<1>3. PICK c \in Patch : c = res[p].patch /\ ApprovedFor(tid[p], c) /\ tid[p] \in Task
    BY <1>2, CarriedWasApproved
<1>4. \E label \in Promoting : Proceed(p, label)
    BY DEF Apply, GitFails, Verify, Rollback, Promoting
<1>5. \E label \in Promoting : Works(p, label)
    BY <1>1, <1>2, <1>4, ProceedWorks
<1>6. Grows
    BY <1>5, GrowsWhenSame DEF Works, records
<1>7. UNCHANGED canonical \/ Put(c) \/ Undo(c)
    BY <1>3 DEF Apply, GitFails, Verify, Rollback
<1>8. HunksOf(c) \subseteq Hunk /\ \A h \in HunksOf(c) : Change[c][h] \in Content
    BY PromotionAssumption
<1>9. canonical' \in [Hunk -> Content \cup {None}]
    BY <1>1, <1>7, <1>8 DEF Put, Undo
<1>10. \A h \in Hunk : canonical'[h] \in {None, canonical[h]} \/ Brings(c, h, canonical'[h])
    BY <1>1, <1>7 DEF Put, Undo, Brings
<1>11. ASSUME NEW h \in Hunk, canonical'[h] # None
       PROVE  \E t \in Task, d \in Patch : ApprovedFor(t, d)' /\ Brings(d, h, canonical'[h])
  <2>1. CASE Brings(c, h, canonical'[h])
    BY <1>3, <1>6, <2>1, ApprovalStays
  <2>2. CASE canonical'[h] = canonical[h]
    <3>1. PICK t \in Task, d \in Patch : ApprovedFor(t, d) /\ Brings(d, h, canonical[h])
      BY <1>1, <1>11, <2>2 DEF CanonicalWasApproved
    <3>2. ApprovedFor(t, d)'
      BY <1>6, <3>1, ApprovalStays
    <3> QED BY <2>2, <3>1, <3>2
  <2> QED BY <1>10, <1>11, <2>1, <2>2
<1>12. CanonicalWasApproved'
    BY <1>11 DEF CanonicalWasApproved, Brings
<1> QED BY <1>5, <1>9, <1>12

(* Its outcome is recorded.                                                *)
Records(p) ==
    /\ Only(p) /\ pc[p] \in {"promoted", "rolled_back", "stranded"} /\ pc'[p] = "move"
    /\ to'[p] = IF pc[p] = "promoted" THEN "promoted" ELSE "promotion_failed"
    /\ tid'[p] = tid[p] /\ res'[p] = res[p] /\ next'[p] = "idle"
    /\ tid[p] \in Task /\ res[p] \in Result
    /\ promotions' = [promotions EXCEPT ![tid[p]] = [outcome |-> pc[p], result |-> res[p]]]
    /\ stranded' = IF pc[p] = "stranded" THEN stranded \cup {tid[p]} ELSE stranded
    /\ UNCHANGED <<tasks, records, canonical, queue>>

LEMMA RecordingSteps ==
    ASSUME ReviewInv, NEW p \in Proc, RecordPromotion(p)
    PROVE  Records(p)
<1>1. LocalTypes /\ DelegationInv /\ Holders /\ Carriers
    BY TypeParts DEF ReviewInv, DelegationInv
<1>2. Carrying(p)
    BY DEF RecordPromotion, Carrying, Promoting
<1>3. tid[p] \in Task /\ res[p] \in Result
    BY <1>1, <1>2, CarriedIsApproved
<1>4. Only(p) /\ pc'[p] = "move" /\ next'[p] = "idle"
        /\ to'[p] = IF pc[p] = "promoted" THEN "promoted" ELSE "promotion_failed"
    BY <1>1 DEF LocalTypes, RecordPromotion, Ask, Goto, Only
<1> QED BY <1>3, <1>4 DEF RecordPromotion, Records

-----------------------------------------------------------------------------
(* ReviewInv is an invariant.                                              *)

LEMMA InitReview == InitPromotion => ReviewInv
<1> SUFFICES ASSUME InitPromotion PROVE ReviewInv
    OBVIOUS
<1>1. DelegationInv
    BY InitDelegation DEF InitPromotion
<1>2. PromotionTypeOK
    BY DEF InitPromotion, PromotionTypeOK
<1>3. \A p \in Proc : pc[p] = "idle" /\ next[p] = "idle"
    BY DEF InitPromotion, Init
<1>4. Holders /\ Carriers
    BY <1>3 DEF Holders, Carriers, Holds, Closing, Carrying, Promoting
<1>5. CanonicalWasApproved
    BY DEF InitPromotion, CanonicalWasApproved
<1> QED BY <1>1, <1>2, <1>4, <1>5 DEF ReviewInv

LEMMA DelegationReview ==
    ASSUME ReviewInv, NEW p \in Proc, NEW t \in Task, Command(p, t) \/ Step(p) \/ Crash(p),
           UNCHANGED pvars
    PROVE  Holders' /\ Carriers' /\ CanonicalWasApproved' /\ PromotionTypeOK'
<1>1. DelegationInv /\ Holders /\ Carriers /\ CanonicalWasApproved /\ PromotionTypeOK
    BY DEF ReviewInv
<1>2. Only(p) /\ Grows
    BY <1>1, OnlyOne, DelegationGrows
<1>3. Looked(p) \/ Wrote(p) \/ (UNCHANGED tasks /\ Aside(p)')
    BY <1>1, DelegationSteps
<1>4. Holders'
  <2>1. CASE Looked(p)
    <3>1. /\ Holds(p)' => Holds(p) /\ tid'[p] = tid[p]
          /\ next'[p] = "apply" => pc'[p] \in {"move", "set"} /\ to'[p] = "promoting"
      BY <1>1, <2>1 DEF Looked, Holders, Holds, Closing, Promoting
    <3> QED BY <1>1, <1>2, <2>1, <3>1, HoldersSame DEF Looked
  <2>2. CASE Wrote(p)
    BY <1>1, <1>2, <2>2, HoldersWrote
  <2>3. CASE UNCHANGED tasks /\ Aside(p)'
    BY <1>1, <1>2, <2>3, HoldersSame DEF Aside, Carrying
  <2> QED BY <1>3, <2>1, <2>2, <2>3
<1>5. Carriers'
  <2>1. Carrying(p)' => Carrying(p) /\ tid'[p] = tid[p] /\ res'[p] = res[p]
    BY <1>1, <1>3 DEF Looked, Wrote, Aside, Carrying, Promoting, Holders
  <2>2. pc'[p] # "enqueue"
    BY <1>3 DEF Looked, Wrote, Aside
  <2> QED BY <1>1, <1>2, <2>1, <2>2, CarriersKeep
<1>6. UNCHANGED <<canonical, promotions, queue, stranded>>
    BY DEF pvars
<1>7. CanonicalWasApproved'
    BY <1>1, <1>2, <1>6, CanonicalSame
<1>8. PromotionTypeOK'
    BY <1>1, <1>6 DEF PromotionTypeOK
<1> QED BY <1>4, <1>5, <1>7, <1>8

LEMMA PromotionReview ==
    ASSUME ReviewInv, NEW p \in Proc, NEW t \in Task,
           PromotionCommand(p, t) \/ ReviseFailed(p, t) \/ PromotionStep(p)
    PROVE  Holders' /\ Carriers' /\ CanonicalWasApproved' /\ PromotionTypeOK'
<1>1. DelegationInv /\ Holders /\ Carriers /\ CanonicalWasApproved /\ PromotionTypeOK
    BY DEF ReviewInv
<1>2. CASE \/ PromotionCommand(p, t) \/ ReviseFailed(p, t)
           \/ CheckRepository(p) \/ AddEntry(p) \/ PromoteQueued(p)
  <2>1. Prepares(p)
    BY <1>2, PreparingSteps
  <2>2. Only(p) /\ Grows /\ UNCHANGED <<tasks, canonical, promotions, stranded>>
    BY <2>1, GrowsWhenSame DEF Prepares
  <2>3. Holders'
    BY <1>1, <2>1, <2>2, HoldersSame DEF Prepares
  <2>4. Carriers'
    BY <1>1, <2>1, <2>2, CarriersKeep DEF Prepares
  <2>5. CanonicalWasApproved' /\ PromotionTypeOK'
    BY <1>1, <2>1, <2>2, CanonicalSame DEF Prepares, PromotionTypeOK
  <2> QED BY <2>3, <2>4, <2>5
<1>3. CASE Apply(p) \/ GitFails(p) \/ Verify(p) \/ Rollback(p)
  <2>1. PICK label \in Promoting : Works(p, label)
    BY <1>3, WorkingSteps
  <2>2. CanonicalWasApproved' /\ canonical' \in [Hunk -> Content \cup {None}]
    BY <1>3, WorkingSteps
  <2>3. Only(p) /\ Grows /\ UNCHANGED tasks
    BY <2>1, GrowsWhenSame DEF Works, records
  <2>4. /\ Holds(p) /\ Carrying(p) /\ tid'[p] = tid[p] /\ res'[p] = res[p]
        /\ next'[p] # "apply" /\ pc'[p] # "enqueue"
    BY <1>1, <2>1 DEF Works, Holds, Carrying, Promoting, Holders
  <2>5. Holders'
    BY <1>1, <2>3, <2>4, HoldersSame
  <2>6. Carriers'
    BY <1>1, <2>3, <2>4, CarriersKeep
  <2>7. PromotionTypeOK'
    BY <1>1, <2>1, <2>2 DEF Works, PromotionTypeOK
  <2> QED BY <2>2, <2>5, <2>6, <2>7
<1>4. CASE RecordPromotion(p)
  <2>1. Records(p)
    BY <1>4, RecordingSteps
  <2>2. Only(p) /\ Grows /\ UNCHANGED <<tasks, canonical>>
    BY <2>1, GrowsWhenSame DEF Records, records
  <2>3. /\ Holds(p) /\ tid'[p] = tid[p] /\ ~Carrying(p)'
        /\ next'[p] # "apply" /\ pc'[p] # "enqueue"
    BY <2>1 DEF Records, Holds, Carrying, Promoting
  <2>4. Holders'
    BY <1>1, <2>2, <2>3, HoldersSame
  <2>5. Carriers'
    BY <1>1, <2>2, <2>3, CarriersKeep
  <2>6. CanonicalWasApproved'
    BY <1>1, <2>2, CanonicalSame
  <2>7. PromotionTypeOK'
    <3>1. [outcome |-> pc[p], result |-> res[p]] \in PromotionRecord
      BY <2>1 DEF Records, PromotionRecord
    <3>2. promotions' \in [Task -> PromotionRecord \cup {None}]
      BY <1>1, <2>1, <3>1 DEF Records, PromotionTypeOK
    <3> QED BY <1>1, <2>1, <3>2 DEF Records, PromotionTypeOK
  <2> QED BY <2>4, <2>5, <2>6, <2>7
<1> QED BY <1>2, <1>3, <1>4 DEF PromotionStep

(* A task is created, or somebody edits its worktree, or nothing happens.  *)
LEMMA OutsideReview ==
    ASSUME ReviewInv,
           \/ \E t \in Task : Create(t)
           \/ \E t \in Task, c \in Patch \cup {None} : Edit(t, c)
           \/ UNCHANGED dvars,
           UNCHANGED pvars
    PROVE  Holders' /\ Carriers' /\ CanonicalWasApproved' /\ PromotionTypeOK'
<1>1. /\ UNCHANGED <<results, reviews, pc, tid, row, res, to, next>>
      /\ UNCHANGED <<canonical, promotions, queue, stranded>>
    BY DEF Create, Edit, records, locals, dvars, pvars
<1>2. /\ DelegationInv /\ Holders /\ Carriers /\ CanonicalWasApproved /\ PromotionTypeOK
      /\ StoreTypes
    BY TypeParts DEF ReviewInv, DelegationInv
<1>3. \A t \in Task : tasks[t].status = "promoting" => tasks'[t].status = "promoting"
    BY <1>2 DEF Create, Edit, dvars, StoreTypes
<1>4. Holders'
  <2>1. \A p \in Proc : /\ Holds(p)' <=> Holds(p)
                        /\ Holds(p) => tid[p] \in Task
    BY <1>1, <1>2 DEF Holds, Closing, Promoting, DelegationInv, GoodLocals
  <2> QED BY <1>1, <1>2, <1>3, <2>1 DEF Holders
<1>5. Carriers'
    BY <1>1, <1>2 DEF Carriers, Carrying, WasReviewed, Approved
<1>6. CanonicalWasApproved' /\ PromotionTypeOK'
    BY <1>1, <1>2, GrowsWhenSame, CanonicalSame DEF PromotionTypeOK
<1> QED BY <1>4, <1>5, <1>6

LEMMA NextReview == ReviewInv /\ [NextPromotion]_vars => ReviewInv'
<1> SUFFICES ASSUME ReviewInv, [NextPromotion]_vars PROVE ReviewInv'
    OBVIOUS
<1> USE DEF ReviewInv
<1>1. CASE UNCHANGED vars
  <2>1. UNCHANGED dvars /\ UNCHANGED pvars
    BY <1>1 DEF vars
  <2>2. DelegationInv'
    BY <2>1, NextDelegation
  <2> QED BY <2>1, <2>2, OutsideReview
<1>2. CASE Next /\ UNCHANGED pvars
  <2>1. DelegationInv'
    BY <1>2, NextDelegation DEF NextSelection
  <2>2. CASE \/ \E t \in Task : Create(t)
             \/ \E t \in Task, c \in Patch \cup {None} : Edit(t, c)
    BY <1>2, <2>1, <2>2, OutsideReview
  <2>3. CASE \E p \in Proc, t \in Task : Command(p, t)
    BY <1>2, <2>1, <2>3, DelegationReview
  <2>4. CASE \E p \in Proc : Step(p) \/ Crash(p)
    <3>1. PICK p \in Proc : Step(p) \/ Crash(p)
      BY <2>4
    <3>2. pc[p] # "idle"
      BY <3>1 DEF Step, Crash, Move, SetTask, MakeRoot, WorktreeFails, AddWorkspace, ExecutorEnds,
         ExecutorRaises, CaptureRevision, AddResult, AddReview
    <3>3. tid[p] \in Task
      BY <3>2 DEF DelegationInv, GoodLocals
    <3> QED BY <1>2, <2>1, <3>1, <3>3, DelegationReview
  <2> QED BY <1>2, <2>2, <2>3, <2>4 DEF Next
<1>3. CASE \E p \in Proc, t \in Task : PromotionCommand(p, t) \/ ReviseFailed(p, t)
    BY <1>3, PromotionKeepsDelegation, PromotionReview
<1>4. CASE \E p \in Proc : PromotionStep(p)
  <2>1. DelegationInv'
    BY <1>4, PromotionKeepsDelegation
  <2>2. PICK p \in Proc : PromotionStep(p)
    BY <1>4
  <2>3. pc[p] # "idle"
    BY <2>2 DEF PromotionStep, CheckRepository, Apply, GitFails, Verify, Rollback, RecordPromotion,
       AddEntry, PromoteQueued
  <2>4. tid[p] \in Task
    BY <2>3 DEF DelegationInv, GoodLocals
  <2> QED BY <2>1, <2>2, <2>4, PromotionReview
<1> QED BY <1>1, <1>2, <1>3, <1>4 DEF NextPromotion

LEMMA ReviewInvariant == SpecPromotion => []ReviewInv
BY InitReview, NextReview, PTL DEF SpecPromotion

(* Whatever commands overlap or die, of one task or of many: what stands   *)
(* in the canonical worktree was captured and a reviewer accepted that     *)
(* revision, and one command at most is applying for a task                *)
(* (DelegationPromotionService.promote, DelegationService.transition).      *)
THEOREM PromotionsReviewed == SpecPromotion => []PromotionIsReviewed
<1>1. ReviewInv => PromotionIsReviewed
    BY DEF ReviewInv, Holders, Holds, OnePromoter, PromotionIsReviewed
<1> QED BY <1>1, ReviewInvariant, PTL

-----------------------------------------------------------------------------
(* What a step changes for a task.                                         *)

HoldsFor(p, t) == Holds(p) /\ tid[p] = t

(* Nothing: what was promoted for t, and by whom.                          *)
SameFor(t) ==
    /\ Done(t)' <=> Done(t)
    /\ Abandoned(t)' <=> Abandoned(t)
    /\ \A c \in Patch : /\ Verified(t, c)' <=> Verified(t, c)
                        /\ Pending(t, c)' <=> Pending(t, c)

LEMMA Untouched ==
    ASSUME NEW t \in Task,
           tasks'[t].status = "promoted" <=> tasks[t].status = "promoted",
           tasks'[t].status = "promoting" <=> tasks[t].status = "promoting",
           promotions'[t] = promotions[t],
           \A q \in Proc :
               \/ pc'[q] = pc[q] /\ tid'[q] = tid[q] /\ res'[q] = res[q] /\ to'[q] = to[q]
               \/ ~HoldsFor(q, t) /\ ~HoldsFor(q, t)'
               \/ /\ pc[q] = "move" /\ pc'[q] = "set"
                  /\ tid'[q] = tid[q] /\ res'[q] = res[q] /\ to'[q] = to[q]
    PROVE  SameFor(t)
<1>1. \A q \in Proc : HoldsFor(q, t)' <=> HoldsFor(q, t)
    BY DEF HoldsFor, Holds, Closing, Promoting
<1>2. ASSUME NEW q \in Proc
      PROVE  /\ pc'[q] \in {"move", "set"} /\ to'[q] = "promoted" /\ tid'[q] = t
                  <=> pc[q] \in {"move", "set"} /\ to[q] = "promoted" /\ tid[q] = t
             /\ pc'[q] = "promoted" /\ tid'[q] = t <=> pc[q] = "promoted" /\ tid[q] = t
             /\ pc[q] = "promoted" /\ tid[q] = t => res'[q] = res[q]
             /\ pc'[q] \in {"verify", "rollback", "stranded"} /\ tid'[q] = t
                  <=> pc[q] \in {"verify", "rollback", "stranded"} /\ tid[q] = t
             /\ pc[q] \in {"verify", "rollback", "stranded"} /\ tid[q] = t => res'[q] = res[q]
    BY DEF HoldsFor, Holds, Closing, Promoting
<1>3. Done(t)' <=> Done(t)
    BY <1>2 DEF Done
<1>4. Abandoned(t)' <=> Abandoned(t)
  <2>1. (\A q \in Proc : ~HoldsFor(q, t)') <=> (\A q \in Proc : ~HoldsFor(q, t))
    BY <1>1
  <2> QED BY <2>1 DEF Abandoned, HoldsFor
<1>5. ASSUME NEW c \in Patch PROVE Verified(t, c)' <=> Verified(t, c)
    BY <1>2, <1>3 DEF Verified
<1>6. ASSUME NEW c \in Patch PROVE Pending(t, c)' <=> Pending(t, c)
    BY <1>2 DEF Pending
<1> QED BY <1>3, <1>4, <1>5, <1>6 DEF SameFor

(* While p promotes t, that is all there is to say of t ...                *)
HolderTells(p, t) ==
    /\ tasks[t].status = "promoting" /\ ~Abandoned(t)
    /\ \A q \in Proc : HoldsFor(q, t) => q = p
    /\ Done(t) <=> pc[p] \in {"move", "set"} /\ to[p] = "promoted"
    /\ \A c \in Patch :
          /\ Verified(t, c) <=> \/ Done(t) /\ c = promotions[t].result.patch
                                \/ pc[p] = "promoted" /\ c = res[p].patch
          /\ Pending(t, c) <=> pc[p] \in {"verify", "rollback", "stranded"} /\ c = res[p].patch

(* ... and while nobody does, its status tells.                            *)
StatusTells(t) ==
    /\ Abandoned(t) <=> tasks[t].status = "promoting"
    /\ Done(t) <=> tasks[t].status = "promoted"
    /\ \A c \in Patch :
          /\ Verified(t, c) <=> Done(t) /\ c = promotions[t].result.patch
          /\ ~Pending(t, c)

LEMMA HeldBy ==
    Holders => \A p \in Proc, t \in Task : HoldsFor(p, t) => HolderTells(p, t)
<1> SUFFICES ASSUME Holders, NEW p \in Proc, NEW t \in Task, HoldsFor(p, t)
             PROVE  HolderTells(p, t)
    OBVIOUS
<1>1. tasks[t].status = "promoting" /\ \A q \in Proc : HoldsFor(q, t) => q = p
    BY DEF Holders, HoldsFor
<1>2. ~Abandoned(t)
    BY DEF Abandoned, HoldsFor
<1>3. \A q \in Proc : tid[q] = t /\ (\/ pc[q] \in {"move", "set"} /\ to[q] = "promoted"
                                     \/ pc[q] \in {"promoted", "verify", "rollback", "stranded"})
                          => q = p
    BY <1>1 DEF HoldsFor, Holds, Closing, Promoting
<1>4. tid[p] = t
    BY DEF HoldsFor
<1>5. Done(t) <=> pc[p] \in {"move", "set"} /\ to[p] = "promoted"
    BY <1>1, <1>3, <1>4 DEF Done
<1>6. ASSUME NEW c \in Patch
      PROVE  /\ Verified(t, c) <=> \/ Done(t) /\ c = promotions[t].result.patch
                                   \/ pc[p] = "promoted" /\ c = res[p].patch
             /\ Pending(t, c) <=>
                    pc[p] \in {"verify", "rollback", "stranded"} /\ c = res[p].patch
    BY <1>3, <1>4 DEF Verified, Pending
<1> QED BY <1>1, <1>2, <1>5, <1>6 DEF HolderTells

LEMMA HeldByNobody ==
    \A t \in Task : (\A q \in Proc : ~HoldsFor(q, t)) => StatusTells(t)
<1> SUFFICES ASSUME NEW t \in Task, \A q \in Proc : ~HoldsFor(q, t) PROVE StatusTells(t)
    OBVIOUS
<1>1. \A q \in Proc : ~(tid[q] = t /\ (\/ pc[q] \in {"move", "set"} /\ to[q] = "promoted"
                                       \/ pc[q] \in {"promoted", "verify", "rollback", "stranded"}))
    BY DEF HoldsFor, Holds, Closing, Promoting
<1>2. Abandoned(t) <=> tasks[t].status = "promoting"
    BY DEF Abandoned, HoldsFor
<1>3. Done(t) <=> tasks[t].status = "promoted"
    BY <1>1 DEF Done
<1>4. ASSUME NEW c \in Patch
      PROVE  /\ Verified(t, c) <=> Done(t) /\ c = promotions[t].result.patch
             /\ ~Pending(t, c)
    BY <1>1 DEF Verified, Pending
<1> QED BY <1>2, <1>3, <1>4 DEF StatusTells

(* They hold of the next state as of any.                                  *)
LEMMA HeldByNext ==
    /\ Holders' => (\A p \in Proc, t \in Task : HoldsFor(p, t) => HolderTells(p, t))'
    /\ (\A t \in Task : (\A q \in Proc : ~HoldsFor(q, t)) => StatusTells(t))'
BY HeldBy, HeldByNobody, PTL

-----------------------------------------------------------------------------
(* The parts of WorkInv, as long as the canonical worktree stays as it is. *)

LEMMA StuckStays ==
    ASSUME NEW t \in Task, SameFor(t), stranded \subseteq stranded'
    PROVE  \A h \in Hunk : Stuck(t, h) => Stuck(t, h)'
BY DEF SameFor, Stuck

LEMMA SharedStays ==
    ASSUME Grows, NEW t \in Task, NEW c \in Patch, ~Shared(t, c)'
    PROVE  ~Shared(t, c)
<1> SUFFICES ASSUME Shared(t, c) PROVE FALSE
    OBVIOUS
<1>1. PICK u \in Task \ {t}, d \in Patch :
          ApprovedFor(u, d) /\ \E h \in HunksOf(c) : Brings(d, h, Change[c][h])
    BY DEF Shared
<1>2. ApprovedFor(u, d)'
    BY <1>1, ApprovalStays
<1>3. Shared(t, c)'
    BY <1>1, <1>2 DEF Shared, Brings, HunksOf
<1> QED BY <1>3

LEMMA StillKeeps ==
    ASSUME WorkInv, Grows, UNCHANGED canonical,
           \A t \in Task : Done(t)' => promotions'[t] \in PromotionRecord,
           \A t \in Task, c \in Patch : Verified(t, c)' => Verified(t, c),
           \A t \in Task, h \in Hunk : Stuck(t, h) => Stuck(t, h)'
    PROVE  WorkInv'
<1>1. Outcomes'
    BY DEF Outcomes
<1>2. ASSUME NEW t \in Task, NEW c \in Patch, Verified(t, c)', ~Shared(t, c)'
      PROVE  /\ Reverses(c)'
             /\ \A h \in HunksIn(FilesOf(c)) \ HunksOf(c) :
                    canonical[h] # None => \E u \in Task : Stuck(u, h)'
  <2>1. Verified(t, c) /\ ~Shared(t, c)
    BY <1>2, SharedStays
  <2>2. Reverses(c)'
    BY <2>1 DEF WorkInv, VerifiedStands, Reverses
  <2>3. ASSUME NEW h \in HunksIn(FilesOf(c)) \ HunksOf(c), canonical[h] # None
        PROVE  \E u \in Task : Stuck(u, h)'
    <3>1. PICK u \in Task : Stuck(u, h)
      BY <2>1, <2>3 DEF WorkInv, VerifiedAlone
    <3>2. h \in Hunk
      BY DEF HunksIn
    <3> QED BY <3>1, <3>2
  <2> QED BY <2>2, <2>3
<1>3. VerifiedStands'
    BY <1>2 DEF VerifiedStands
<1>4. VerifiedAlone'
    BY <1>2 DEF VerifiedAlone
<1> QED BY <1>1, <1>3, <1>4 DEF WorkInv

(* Nothing changes for any task.                                           *)
LEMMA AllSame ==
    ASSUME WorkInv, Grows, UNCHANGED <<canonical, promotions, stranded>>,
           \A t \in Task : SameFor(t)
    PROVE  WorkInv'
<1>1. \A t \in Task : Done(t)' => promotions'[t] \in PromotionRecord
    BY DEF SameFor, WorkInv, Outcomes
<1>2. \A t \in Task, c \in Patch : Verified(t, c)' => Verified(t, c)
    BY DEF SameFor
<1>3. \A t \in Task, h \in Hunk : Stuck(t, h) => Stuck(t, h)'
    BY StuckStays
<1> QED BY <1>1, <1>2, <1>3, StillKeeps

(* Nothing changes for the tasks other than t.                             *)
LEMMA OneTask ==
    ASSUME WorkInv, Grows, UNCHANGED canonical, stranded \subseteq stranded', NEW t \in Task,
           \A u \in Task : u # t => SameFor(u) /\ promotions'[u] = promotions[u],
           Done(t)' => promotions'[t] \in PromotionRecord,
           \A c \in Patch : Verified(t, c)' => Verified(t, c),
           \A h \in Hunk : Stuck(t, h) => Stuck(t, h)'
    PROVE  WorkInv'
<1>1. ASSUME NEW u \in Task PROVE Done(u)' => promotions'[u] \in PromotionRecord
    BY DEF SameFor, WorkInv, Outcomes
<1>2. ASSUME NEW u \in Task, NEW c \in Patch PROVE Verified(u, c)' => Verified(u, c)
    BY DEF SameFor
<1>3. ASSUME NEW u \in Task, NEW h \in Hunk PROVE Stuck(u, h) => Stuck(u, h)'
    BY StuckStays
<1> QED BY <1>1, <1>2, <1>3, StillKeeps

(* The tasks that a command does not work on.                              *)
LEMMA OthersSame ==
    ASSUME NEW p \in Proc, Only(p), NEW u \in Task, ~HoldsFor(p, u), ~HoldsFor(p, u)',
           tasks'[u].status = tasks[u].status, promotions'[u] = promotions[u]
    PROVE  SameFor(u)
<1>1. \A q \in Proc : q # p =>
          pc'[q] = pc[q] /\ tid'[q] = tid[q] /\ res'[q] = res[q] /\ to'[q] = to[q]
    BY DEF Only
<1> QED BY <1>1, Untouched

LEMMA HolderHasTask ==
    ASSUME DelegationInv, NEW p \in Proc, Holds(p) PROVE tid[p] \in Task
BY DEF Holds, Closing, Promoting, DelegationInv, GoodLocals

(* A command that promotes nothing, before and after.                      *)
LEMMA AwayKeeps ==
    ASSUME WorkInv, Grows, NEW p \in Proc, Only(p), ~Holds(p), ~Holds(p)',
           UNCHANGED <<tasks, canonical, promotions, stranded>>
    PROVE  WorkInv'
<1>1. \A u \in Task : SameFor(u)
    BY OthersSame DEF HoldsFor
<1> QED BY <1>1, AllSame

(* A command dies, or gives up, while it promotes.                         *)
LEMMA AbandonKeeps ==
    ASSUME ReviewInv, WorkInv, Grows, NEW p \in Proc, Only(p), Holds(p), ~Holds(p)',
           UNCHANGED <<tasks, canonical, promotions, stranded>>
    PROVE  WorkInv'
<1>1. DelegationInv /\ Holders
    BY DEF ReviewInv
<1>2. PICK t \in Task : t = tid[p]
    BY <1>1, HolderHasTask
<1>3. HoldsFor(p, t) /\ HolderTells(p, t)
    BY <1>1, <1>2, HeldBy DEF HoldsFor
<1>4. \A q \in Proc : ~HoldsFor(q, t)'
  <2>1. \A q \in Proc : q # p => (HoldsFor(q, t)' <=> HoldsFor(q, t))
    BY DEF Only, HoldsFor, Holds, Closing
  <2>2. ~HoldsFor(p, t)'
    BY DEF HoldsFor
  <2> QED BY <1>3, <2>1, <2>2 DEF HolderTells
<1>5. StatusTells(t)'
    BY <1>4, HeldByNext
<1>6. \A u \in Task : u # t => SameFor(u) /\ promotions'[u] = promotions[u]
    BY <1>2, OthersSame DEF HoldsFor
<1>7. tasks'[t].status = "promoting"
    BY <1>3 DEF HolderTells
<1>8. /\ ~Done(t)' /\ \A c \in Patch : ~Verified(t, c)'
      /\ \A h \in Hunk : Stuck(t, h)'
    BY <1>5, <1>7 DEF StatusTells, Stuck
<1> QED BY <1>6, <1>8, OneTask

(* A transition is written: to "promoting", by the command that promotes,  *)
(* or of a task that nobody promotes.                                      *)
LEMMA WroteKeeps ==
    ASSUME ReviewInv, ReviewInv', WorkInv, Grows, NEW p \in Proc, Only(p), Wrote(p),
           UNCHANGED <<canonical, promotions, stranded>>
    PROVE  WorkInv'
<1>1. Holders /\ Holders' /\ DelegationInv
    BY DEF ReviewInv
<1>2. PICK t \in Task : t = tid[p]
    BY DEF Wrote
<1>3. /\ pc[p] = "set" /\ MayMove(tasks[t].status, to[p])
      /\ tasks'[t].status = to[p]
      /\ \A u \in Task : u # t => tasks'[u].status = tasks[u].status
    BY <1>2 DEF Wrote
<1>4. \/ pc'[p] = "apply" /\ tid'[p] = t /\ next[p] = "apply"
      \/ ~Holds(p)'
    BY <1>2 DEF Wrote, Aside
<1>5. \A u \in Task : u # t => SameFor(u) /\ promotions'[u] = promotions[u]
    BY <1>2, <1>3, <1>4, OthersSame DEF HoldsFor
<1>6. \A q \in Proc : q # p => (HoldsFor(q, t)' <=> HoldsFor(q, t))
    BY DEF Only, HoldsFor, Holds, Closing
<1>7. CASE Closing(p)
  <2>1. HolderTells(p, t)
    BY <1>1, <1>2, <1>7, HeldBy DEF HoldsFor, Holds
  <2>2. ~Holds(p)'
    BY <1>1, <1>4, <1>7 DEF Holders, Closing
  <2>3. \A q \in Proc : ~HoldsFor(q, t)'
    BY <1>6, <2>1, <2>2 DEF HolderTells, HoldsFor
  <2>4. StatusTells(t)'
    BY <2>3, HeldByNext
  <2>5. Done(t)' <=> Done(t)
    BY <1>3, <1>7, <2>1, <2>4 DEF HolderTells, StatusTells, Closing
  <2>6. \A c \in Patch : Verified(t, c)' <=> Verified(t, c)
    BY <1>3, <2>1, <2>4, <2>5 DEF HolderTells, StatusTells
  <2>7. \A h \in Hunk : Stuck(t, h) => t \in stranded
    BY <1>3, <2>1 DEF HolderTells, Stuck
  <2> QED BY <1>5, <2>5, <2>6, <2>7, OneTask DEF Stuck, WorkInv, Outcomes
<1>8. CASE ~Closing(p)
  <2>1. to[p] \notin {"promoted", "promotion_failed"}
    BY <1>3, <1>8 DEF Closing
  <2>2. tasks[t].status \notin {"promoting", "promoted"}
    BY <1>3, <2>1, PromotingMoves
  <2>3. \A q \in Proc : ~HoldsFor(q, t)
    BY <1>1, <2>2 DEF Holders, HoldsFor
  <2>4. StatusTells(t)
    BY <2>3, HeldByNobody
  <2>5. ~Done(t)' /\ \A c \in Patch : ~Verified(t, c)'
    <3>1. CASE pc'[p] = "apply" /\ tid'[p] = t
      <4>1. HolderTells(p, t)'
        BY <1>1, <3>1, HeldByNext DEF HoldsFor, Holds, Promoting
      <4> QED BY <3>1, <4>1 DEF HolderTells
    <3>2. CASE ~Holds(p)'
      <4>1. StatusTells(t)'
        BY <1>6, <2>3, <3>2, HeldByNext DEF HoldsFor
      <4> QED BY <1>3, <2>1, <4>1 DEF StatusTells
    <3> QED BY <1>4, <3>1, <3>2
  <2>6. \A h \in Hunk : Stuck(t, h) => t \in stranded
    BY <2>2, <2>4 DEF StatusTells, Stuck
  <2> QED BY <1>5, <2>5, <2>6, OneTask DEF Stuck
<1> QED BY <1>7, <1>8

-----------------------------------------------------------------------------
(* Applying a patch, verifying it and undoing it.                          *)

(* One task is worked on, with a patch that was approved for it.           *)
WorksFor(p, t, c) ==
    /\ t = tid[p] /\ c = res[p].patch /\ ApprovedFor(t, c)
    /\ HolderTells(p, t) /\ HolderTells(p, t)'
    /\ \A u \in Task : u # t => SameFor(u) /\ promotions'[u] = promotions[u]
    /\ Grows /\ UNCHANGED stranded

LEMMA WorksForOne ==
    ASSUME ReviewInv, ReviewInv', NEW p \in Proc, NEW label \in Promoting, Works(p, label)
    PROVE  \E t \in Task, c \in Patch : WorksFor(p, t, c)
<1>1. DelegationInv /\ Holders /\ Holders'
    BY DEF ReviewInv
<1>2. Only(p) /\ UNCHANGED <<tasks, promotions, stranded, results, reviews>>
        /\ Holds(p) /\ Holds(p)' /\ tid'[p] = tid[p] /\ Carrying(p)
    BY DEF Works, Holds, Promoting, Carrying, records
<1>3. PICK t \in Task, c \in Patch : t = tid[p] /\ c = res[p].patch /\ ApprovedFor(t, c)
    BY <1>2, CarriedWasApproved
<1>4. HolderTells(p, t) /\ HolderTells(p, t)'
    BY <1>1, <1>2, <1>3, HeldBy, HeldByNext DEF HoldsFor
<1>5. \A u \in Task : u # t => SameFor(u) /\ promotions'[u] = promotions[u]
    BY <1>2, <1>3, OthersSame DEF HoldsFor
<1>6. Grows
    BY <1>2, GrowsWhenSame
<1> QED BY <1>2, <1>3, <1>4, <1>5, <1>6 DEF WorksFor

(* The command goes back, or gives up, without touching the worktree.      *)
LEMMA BackKeeps ==
    ASSUME ReviewInv, ReviewInv', WorkInv, NEW p \in Proc,
           NEW label \in {"rollback", "stranded"}, Works(p, label), UNCHANGED canonical
    PROVE  WorkInv'
<1>1. PICK t \in Task, c \in Patch : WorksFor(p, t, c)
    BY WorksForOne DEF Promoting
<1>2. pc'[p] = label /\ pc[p] \in {"apply", "verify", "rollback"} /\ res'[p] = res[p]
    BY DEF Works
<1>3. ~Done(t) /\ ~Done(t)' /\ ~Abandoned(t)
        /\ \A d \in Patch : /\ ~Verified(t, d) /\ ~Verified(t, d)'
                            /\ Pending(t, d) => Pending(t, d)'
    BY <1>1, <1>2 DEF WorksFor, HolderTells
<1>4. \A h \in Hunk : Stuck(t, h) => Stuck(t, h)'
    BY <1>1, <1>3 DEF WorksFor, Stuck
<1> QED BY <1>1, <1>3, <1>4, OneTask DEF WorksFor

(* A patch that was verified, and that no other task shares, is none of    *)
(* those that are at work on its hunks.                                    *)
LEMMA SharedChange ==
    ASSUME NEW t \in Task, NEW c \in Patch, ApprovedFor(t, c),
           NEW u \in Task, u # t, NEW d \in Patch, ~Shared(u, d),
           NEW h \in HunksOf(d), h \in HunksOf(c)
    PROVE  Change[c][h] # Change[d][h]
BY DEF Shared, Brings

(* The patch is put where the base commit stood.                           *)
LEMMA ApplyKeeps ==
    ASSUME ReviewInv, ReviewInv', WorkInv, NEW p \in Proc,
           Works(p, "verify"), pc[p] = "apply", Applies(res[p].patch), Put(res[p].patch)
    PROVE  WorkInv'
<1>1. PICK t \in Task, c \in Patch : WorksFor(p, t, c)
    BY WorksForOne DEF Promoting
<1>2. /\ pc'[p] = "verify" /\ res'[p] = res[p] /\ c = res[p].patch
      /\ \A h \in HunksOf(c) : canonical[h] = None
      /\ \A h \in Hunk : canonical'[h] = IF h \in HunksOf(c) THEN Change[c][h] ELSE canonical[h]
    BY <1>1 DEF Works, WorksFor, Applies, Put
<1>3. /\ ~Done(t)' /\ ~Abandoned(t)
      /\ \A d \in Patch : /\ ~Verified(t, d)'
                          /\ Pending(t, d)' <=> d = c
                          /\ ~Pending(t, d)
    BY <1>1, <1>2 DEF WorksFor, HolderTells
<1>4. \A d \in Patch : HunksOf(d) \subseteq Hunk
                         /\ \A h \in HunksOf(d) : Change[d][h] # None
    BY PromotionAssumption
<1>5. Outcomes'
    BY <1>1, <1>2, <1>3 DEF WorkInv, Outcomes, WorksFor, SameFor
<1>6. ASSUME NEW u \in Task, NEW d \in Patch, Verified(u, d)', ~Shared(u, d)'
      PROVE  u # t /\ Verified(u, d) /\ ~Shared(u, d)
  <2>1. ~Shared(u, d)
    BY <1>1, <1>6, SharedStays DEF WorksFor
  <2> QED BY <1>1, <1>3, <1>6, <2>1 DEF WorksFor, SameFor
<1>7. VerifiedStands'
  <2> SUFFICES ASSUME NEW u \in Task, NEW d \in Patch, Verified(u, d)', ~Shared(u, d)',
                      NEW h \in HunksOf(d)
               PROVE  canonical'[h] = Change[d][h]
    BY DEF VerifiedStands, Reverses
  <2>1. canonical[h] = Change[d][h]
    BY <1>6 DEF WorkInv, VerifiedStands, Reverses
  <2> QED BY <1>2, <1>4, <2>1
<1>8. ASSUME NEW v \in Task, NEW h \in Hunk, Stuck(v, h) PROVE Stuck(v, h)'
  <2>1. CASE v = t
    BY <1>1, <1>3, <1>8, <2>1 DEF Stuck, WorksFor
  <2>2. CASE v # t
    BY <1>1, <1>8, <2>2, StuckStays DEF WorksFor
  <2> QED BY <2>1, <2>2
<1>9. ASSUME NEW h \in HunksOf(c) PROVE Stuck(t, h)'
    BY <1>3 DEF Stuck
<1>10. VerifiedAlone'
  <2> SUFFICES ASSUME NEW u \in Task, NEW d \in Patch, Verified(u, d)', ~Shared(u, d)',
                      NEW h \in HunksIn(FilesOf(d)) \ HunksOf(d), canonical'[h] # None
               PROVE  \E v \in Task : Stuck(v, h)'
    BY DEF VerifiedAlone
  <2>1. h \in Hunk
    BY DEF HunksIn
  <2>2. CASE h \in HunksOf(c)
    BY <1>9, <2>2
  <2>3. CASE h \notin HunksOf(c)
    <3>1. canonical[h] # None
      BY <1>2, <2>1, <2>3
    <3>2. PICK v \in Task : Stuck(v, h)
      BY <1>6, <3>1 DEF WorkInv, VerifiedAlone
    <3> QED BY <1>8, <2>1, <3>2
  <2> QED BY <2>2, <2>3
<1> QED BY <1>5, <1>7, <1>10 DEF WorkInv

(* The comparison succeeds: nothing else is in these files.  A patch that  *)
(* was verified and that no other task shares is not, or its content would *)
(* have shown.                                                             *)
LEMMA VerifyKeeps ==
    ASSUME ReviewInv, ReviewInv', WorkInv, NEW p \in Proc,
           Works(p, "promoted"), pc[p] = "verify", Exact(res[p].patch), UNCHANGED canonical
    PROVE  WorkInv'
<1>1. PICK t \in Task, c \in Patch : WorksFor(p, t, c)
    BY WorksForOne DEF Promoting
<1>2. pc'[p] = "promoted" /\ res'[p] = res[p] /\ c = res[p].patch /\ Exact(c)
    BY <1>1 DEF Works, WorksFor
<1>3. /\ ~Done(t)' /\ ~Abandoned(t)
      /\ \A d \in Patch : /\ Verified(t, d)' <=> d = c
                          /\ Pending(t, d) <=> d = c
    BY <1>1, <1>2 DEF WorksFor, HolderTells
<1>4. \A d \in Patch : HunksOf(d) \subseteq Hunk
                         /\ \A h \in HunksOf(d) : Change[d][h] # None
    BY PromotionAssumption
<1>5. \A d \in Patch : HunksOf(d) \subseteq HunksIn(FilesOf(d))
    BY <1>4 DEF HunksIn, FilesOf
<1>6. Reverses(c) /\ \A h \in HunksIn(FilesOf(c)) \ HunksOf(c) : canonical[h] = None
    BY <1>2, <1>5 DEF Exact, Reverses
<1>7. Outcomes'
    BY <1>1, <1>2, <1>3 DEF WorkInv, Outcomes, WorksFor, SameFor
<1>8. ASSUME NEW u \in Task, NEW d \in Patch, Verified(u, d)', ~Shared(u, d)'
      PROVE  \/ d = c
             \/ u # t /\ Verified(u, d) /\ ~Shared(u, d)
  <2>1. ~Shared(u, d)
    BY <1>1, <1>8, SharedStays DEF WorksFor
  <2> QED BY <1>1, <1>3, <1>8, <2>1 DEF WorksFor, SameFor
<1>9. VerifiedStands'
  <2> SUFFICES ASSUME NEW u \in Task, NEW d \in Patch, Verified(u, d)', ~Shared(u, d)'
               PROVE  Reverses(d)
    BY DEF VerifiedStands, Reverses
  <2> QED BY <1>6, <1>8 DEF WorkInv, VerifiedStands
<1>10. ASSUME NEW u \in Task, u # t, NEW d \in Patch, Verified(u, d), ~Shared(u, d),
              NEW h \in HunksIn(FilesOf(d)), h \in HunksOf(c)
       PROVE  FALSE
  <2>1. PICK g \in HunksOf(d) : FileOf[g] = FileOf[h]
    BY DEF HunksIn, FilesOf
  <2>2. canonical[g] = Change[d][g] /\ canonical[g] # None
    BY <1>4, <1>10 DEF WorkInv, VerifiedStands, Reverses
  <2>3. g \in HunksIn(FilesOf(c))
    BY <1>4, <1>10, <2>1 DEF HunksIn, FilesOf
  <2>4. g \in HunksOf(c) /\ canonical[g] = Change[c][g]
    BY <1>6, <2>2, <2>3 DEF Reverses
  <2>5. ApprovedFor(t, c)
    BY <1>1 DEF WorksFor
  <2> QED BY <1>10, <2>2, <2>4, <2>5, SharedChange
<1>11. VerifiedAlone'
  <2> SUFFICES ASSUME NEW u \in Task, NEW d \in Patch, Verified(u, d)', ~Shared(u, d)',
                      NEW h \in HunksIn(FilesOf(d)) \ HunksOf(d), canonical[h] # None
               PROVE  \E v \in Task : Stuck(v, h)'
    BY DEF VerifiedAlone
  <2>1. u # t /\ Verified(u, d) /\ ~Shared(u, d)
    BY <1>6, <1>8
  <2>2. h \in Hunk /\ h \notin HunksOf(c)
    BY <1>10, <2>1 DEF HunksIn
  <2>3. PICK v \in Task : Stuck(v, h)
    BY <2>1 DEF WorkInv, VerifiedAlone
  <2>4. CASE v # t
    BY <1>1, <2>2, <2>3, <2>4, StuckStays DEF WorksFor
  <2>5. CASE v = t
    BY <1>1, <1>3, <2>2, <2>3, <2>5 DEF Stuck, WorksFor
  <2> QED BY <2>4, <2>5
<1> QED BY <1>7, <1>9, <1>11 DEF WorkInv

(* The patch is undone: what others verified, and share with none, is not  *)
(* in its hunks.                                                           *)
LEMMA RollbackKeeps ==
    ASSUME ReviewInv, ReviewInv', WorkInv, NEW p \in Proc,
           Works(p, "rolled_back"), pc[p] = "rollback", Reverses(res[p].patch),
           Undo(res[p].patch)
    PROVE  WorkInv'
<1>1. PICK t \in Task, c \in Patch : WorksFor(p, t, c)
    BY WorksForOne DEF Promoting
<1>2. /\ pc'[p] = "rolled_back" /\ res'[p] = res[p] /\ c = res[p].patch
      /\ \A h \in HunksOf(c) : canonical[h] = Change[c][h]
      /\ \A h \in Hunk : canonical'[h] = IF h \in HunksOf(c) THEN None ELSE canonical[h]
    BY <1>1 DEF Works, WorksFor, Reverses, Undo
<1>3. /\ ~Done(t)' /\ ~Abandoned(t)
      /\ \A d \in Patch : /\ ~Verified(t, d)'
                          /\ Pending(t, d) <=> d = c
    BY <1>1, <1>2 DEF WorksFor, HolderTells
<1>4. \A d \in Patch : HunksOf(d) \subseteq Hunk
    BY PromotionAssumption
<1>5. Outcomes'
    BY <1>1, <1>2, <1>3 DEF WorkInv, Outcomes, WorksFor, SameFor
<1>6. ASSUME NEW u \in Task, NEW d \in Patch, Verified(u, d)', ~Shared(u, d)'
      PROVE  u # t /\ Verified(u, d) /\ ~Shared(u, d)
  <2>1. ~Shared(u, d)
    BY <1>1, <1>6, SharedStays DEF WorksFor
  <2> QED BY <1>1, <1>3, <1>6, <2>1 DEF WorksFor, SameFor
<1>7. VerifiedStands'
  <2> SUFFICES ASSUME NEW u \in Task, NEW d \in Patch, Verified(u, d)', ~Shared(u, d)',
                      NEW h \in HunksOf(d)
               PROVE  canonical'[h] = Change[d][h]
    BY DEF VerifiedStands, Reverses
  <2>1. u # t /\ ~Shared(u, d) /\ canonical[h] = Change[d][h]
    BY <1>6 DEF WorkInv, VerifiedStands, Reverses
  <2>2. ApprovedFor(t, c)
    BY <1>1 DEF WorksFor
  <2>3. h \notin HunksOf(c)
    BY <1>2, <2>1, <2>2, SharedChange
  <2> QED BY <1>2, <1>4, <2>1, <2>3
<1>8. VerifiedAlone'
  <2> SUFFICES ASSUME NEW u \in Task, NEW d \in Patch, Verified(u, d)', ~Shared(u, d)',
                      NEW h \in HunksIn(FilesOf(d)) \ HunksOf(d), canonical'[h] # None
               PROVE  \E v \in Task : Stuck(v, h)'
    BY DEF VerifiedAlone
  <2>1. h \in Hunk /\ h \notin HunksOf(c) /\ canonical[h] # None
    BY <1>2 DEF HunksIn
  <2>2. PICK v \in Task : Stuck(v, h)
    BY <1>6, <2>1 DEF WorkInv, VerifiedAlone
  <2>3. CASE v # t
    BY <1>1, <2>1, <2>2, <2>3, StuckStays DEF WorksFor
  <2>4. CASE v = t
    BY <1>1, <1>3, <2>1, <2>2, <2>4 DEF Stuck, WorksFor
  <2> QED BY <2>3, <2>4
<1> QED BY <1>5, <1>7, <1>8 DEF WorkInv

(* What came of it is recorded.                                            *)
LEMMA RecordKeeps ==
    ASSUME ReviewInv, ReviewInv', WorkInv, NEW p \in Proc, Records(p)
    PROVE  WorkInv'
<1>1. DelegationInv /\ Holders /\ Holders' /\ promotions \in [Task -> PromotionRecord \cup {None}]
    BY DEF ReviewInv, PromotionTypeOK
<1>2. /\ Only(p) /\ pc[p] \in {"promoted", "rolled_back", "stranded"} /\ pc'[p] = "move"
      /\ to'[p] = IF pc[p] = "promoted" THEN "promoted" ELSE "promotion_failed"
      /\ tid'[p] = tid[p] /\ res'[p] = res[p] /\ tid[p] \in Task /\ res[p] \in Result
      /\ promotions' = [promotions EXCEPT ![tid[p]] = [outcome |-> pc[p], result |-> res[p]]]
      /\ stranded' = IF pc[p] = "stranded" THEN stranded \cup {tid[p]} ELSE stranded
      /\ UNCHANGED <<tasks, canonical>>
    BY DEF Records
<1>3. PICK t \in Task : t = tid[p]
    BY <1>2
<1>4. Holds(p) /\ Holds(p)'
    BY <1>2 DEF Holds, Closing, Promoting
<1>5. HolderTells(p, t) /\ HolderTells(p, t)'
    BY <1>1, <1>2, <1>3, <1>4, HeldBy, HeldByNext DEF HoldsFor
<1>6. \A u \in Task : u # t => promotions'[u] = promotions[u]
    BY <1>1, <1>2, <1>3
<1>7. \A u \in Task : u # t => SameFor(u) /\ promotions'[u] = promotions[u]
    BY <1>2, <1>3, <1>6, OthersSame DEF HoldsFor
<1>8. promotions'[t] = [outcome |-> pc[p], result |-> res[p]]
    BY <1>1, <1>2, <1>3
<1>9. promotions'[t] \in PromotionRecord /\ promotions'[t].result.patch = res[p].patch
    BY <1>2, <1>8 DEF PromotionRecord
<1>10. /\ Done(t)' <=> pc[p] = "promoted"
       /\ ~Done(t)
    BY <1>2, <1>5 DEF HolderTells
<1>11. ASSUME NEW c \in Patch
       PROVE  /\ Verified(t, c)' <=> pc[p] = "promoted" /\ c = res[p].patch
              /\ Verified(t, c) <=> pc[p] = "promoted" /\ c = res[p].patch
              /\ Pending(t, c) => pc[p] = "stranded"
    BY <1>2, <1>5, <1>9, <1>10 DEF HolderTells
<1>12. ~Abandoned(t)
    BY <1>5 DEF HolderTells
<1>13. \A h \in Hunk : Stuck(t, h) => Stuck(t, h)'
    BY <1>2, <1>3, <1>11, <1>12 DEF Stuck
<1>14. stranded \subseteq stranded' /\ Grows
    BY <1>2, GrowsWhenSame DEF Records, records
<1> QED BY <1>2, <1>7, <1>9, <1>11, <1>13, <1>14, OneTask

-----------------------------------------------------------------------------
(* WorkInv is an invariant.                                                *)

LEMMA InitWork == InitPromotion => WorkInv
<1> SUFFICES ASSUME InitPromotion PROVE WorkInv
    OBVIOUS
<1>1. /\ \A t \in Task : tasks[t].status = "absent"
      /\ \A p \in Proc : pc[p] = "idle"
    BY DEF InitPromotion, Init, AbsentTask
<1>2. \A t \in Task : ~Done(t) /\ \A c \in Patch : ~Verified(t, c)
    BY <1>1 DEF Done, Verified
<1> QED BY <1>2 DEF WorkInv, Outcomes, VerifiedStands, VerifiedAlone

LEMMA DelegationWork ==
    ASSUME ReviewInv, ReviewInv', WorkInv, NEW p \in Proc, NEW t \in Task,
           Command(p, t) \/ Step(p) \/ Crash(p), UNCHANGED pvars
    PROVE  WorkInv'
<1>1. /\ DelegationInv /\ Holders /\ Only(p) /\ Grows
      /\ UNCHANGED <<canonical, promotions, stranded>>
    BY OnlyOne, DelegationGrows DEF ReviewInv, pvars
<1>2. Looked(p) \/ Wrote(p) \/ (UNCHANGED tasks /\ Aside(p)')
    BY <1>1, DelegationSteps
<1>3. CASE Looked(p)
  <2>1. \A u \in Task : SameFor(u)
    <3>1. \A q \in Proc : q # p =>
              pc'[q] = pc[q] /\ tid'[q] = tid[q] /\ res'[q] = res[q] /\ to'[q] = to[q]
      BY <1>1 DEF Only
    <3> QED BY <1>1, <1>3, <3>1, Untouched DEF Looked
  <2> QED BY <1>1, <2>1, AllSame
<1>4. CASE Wrote(p)
    BY <1>1, <1>4, WroteKeeps
<1>5. CASE UNCHANGED tasks /\ Aside(p)'
    BY <1>1, <1>5, AwayKeeps, AbandonKeeps DEF Aside
<1> QED BY <1>2, <1>3, <1>4, <1>5

LEMMA OutsideWork ==
    ASSUME ReviewInv, WorkInv,
           \/ \E t \in Task : Create(t)
           \/ \E t \in Task, c \in Patch \cup {None} : Edit(t, c)
           \/ UNCHANGED dvars,
           UNCHANGED pvars
    PROVE  WorkInv'
<1>1. /\ UNCHANGED <<results, reviews, pc, tid, res, to>>
      /\ UNCHANGED <<canonical, promotions, stranded>>
    BY DEF Create, Edit, records, locals, dvars, pvars
<1>2. StoreTypes
    BY TypeParts DEF ReviewInv, DelegationInv
<1>3. \A t \in Task : /\ tasks'[t].status = "promoted" <=> tasks[t].status = "promoted"
                      /\ tasks'[t].status = "promoting" <=> tasks[t].status = "promoting"
  <2>1. CASE \E t \in Task : Create(t)
    <3>1. PICK t \in Task : Create(t)
      BY <2>1
    <3>2. \A u \in Task : tasks'[u].status = IF u = t THEN "draft" ELSE tasks[u].status
      BY <1>2, <3>1 DEF Create, StoreTypes, TaskRow
    <3> QED BY <3>1, <3>2 DEF Create
  <2>2. CASE UNCHANGED tasks
    BY <2>2
  <2> QED BY <2>1, <2>2 DEF Edit, dvars
<1>4. \A u \in Task : SameFor(u)
    BY <1>1, <1>3, Untouched
<1> QED BY <1>1, <1>4, GrowsWhenSame, AllSame

LEMMA PromotionWork ==
    ASSUME ReviewInv, ReviewInv', WorkInv, NEW p \in Proc, NEW t \in Task,
           PromotionCommand(p, t) \/ ReviseFailed(p, t) \/ PromotionStep(p)
    PROVE  WorkInv'
<1>1. CASE \/ PromotionCommand(p, t) \/ ReviseFailed(p, t)
           \/ CheckRepository(p) \/ AddEntry(p) \/ PromoteQueued(p)
  <2>1. Prepares(p)
    BY <1>1, PreparingSteps
  <2> QED BY <2>1, AwayKeeps, GrowsWhenSame DEF Prepares
<1>2. CASE Apply(p) \/ GitFails(p) \/ Verify(p) \/ Rollback(p)
  <2>1. DelegationInv /\ pc[p] \in {"apply", "verify", "rollback"}
    BY <1>2 DEF ReviewInv, Apply, GitFails, Verify, Rollback
  <2>2. ASSUME NEW label, Proceed(p, label) PROVE Works(p, label)
    BY <2>1, <2>2, ProceedWorks
  <2>3. CASE \E label \in {"rollback", "stranded"} : Proceed(p, label) /\ UNCHANGED canonical
    <3>1. PICK label \in {"rollback", "stranded"} : Proceed(p, label) /\ UNCHANGED canonical
      BY <2>3
    <3>2. Works(p, label)
      BY <2>2, <3>1
    <3> QED BY <3>1, <3>2, BackKeeps
  <2>4. CASE Apply(p)
    <3>1. CASE Applies(res[p].patch)
      <4>1. Proceed(p, "verify")
        BY <2>4, <3>1 DEF Apply
      <4>2. Works(p, "verify")
        BY <2>2, <4>1
      <4> QED BY <2>4, <3>1, <4>2, ApplyKeeps DEF Apply
    <3>2. CASE ~Applies(res[p].patch)
      BY <2>3, <2>4, <3>2 DEF Apply
    <3> QED BY <3>1, <3>2
  <2>5. CASE GitFails(p)
    BY <2>3, <2>5 DEF GitFails
  <2>6. CASE Verify(p)
    <3>1. CASE Exact(res[p].patch)
      <4>1. Proceed(p, "promoted")
        BY <2>6, <3>1 DEF Verify
      <4>2. Works(p, "promoted")
        BY <2>2, <4>1
      <4> QED BY <2>6, <3>1, <4>2, VerifyKeeps DEF Verify
    <3>2. CASE ~Exact(res[p].patch)
      BY <2>3, <2>6, <3>2 DEF Verify
    <3> QED BY <3>1, <3>2
  <2>7. CASE Rollback(p)
    <3>1. CASE Reverses(res[p].patch)
      <4>1. Proceed(p, "rolled_back")
        BY <2>7, <3>1 DEF Rollback
      <4>2. Works(p, "rolled_back")
        BY <2>2, <4>1
      <4> QED BY <2>7, <3>1, <4>2, RollbackKeeps DEF Rollback
    <3>2. CASE ~Reverses(res[p].patch)
      BY <2>3, <2>7, <3>2 DEF Rollback
    <3> QED BY <3>1, <3>2
  <2> QED BY <1>2, <2>4, <2>5, <2>6, <2>7
<1>3. CASE RecordPromotion(p)
    BY <1>3, RecordingSteps, RecordKeeps
<1> QED BY <1>1, <1>2, <1>3 DEF PromotionStep

LEMMA NextWork ==
    ASSUME ReviewInv, ReviewInv', WorkInv, [NextPromotion]_vars
    PROVE  WorkInv'
<1>1. DelegationInv
    BY DEF ReviewInv
<1>2. CASE UNCHANGED vars
  <2>1. UNCHANGED dvars /\ UNCHANGED pvars
    BY <1>2 DEF vars
  <2> QED BY <2>1, OutsideWork
<1>3. CASE Next /\ UNCHANGED pvars
  <2>1. CASE \/ \E t \in Task : Create(t)
             \/ \E t \in Task, c \in Patch \cup {None} : Edit(t, c)
    BY <1>3, <2>1, OutsideWork
  <2>2. CASE \E p \in Proc, t \in Task : Command(p, t)
    BY <1>3, <2>2, DelegationWork
  <2>3. CASE \E p \in Proc : Step(p) \/ Crash(p)
    <3>1. PICK p \in Proc : Step(p) \/ Crash(p)
      BY <2>3
    <3>2. pc[p] # "idle"
      BY <3>1 DEF Step, Crash, Move, SetTask, MakeRoot, WorktreeFails, AddWorkspace, ExecutorEnds,
         ExecutorRaises, CaptureRevision, AddResult, AddReview
    <3>3. tid[p] \in Task
      BY <1>1, <3>2 DEF DelegationInv, GoodLocals
    <3> QED BY <1>3, <3>1, <3>3, DelegationWork
  <2> QED BY <1>3, <2>1, <2>2, <2>3 DEF Next
<1>4. CASE \E p \in Proc, t \in Task : PromotionCommand(p, t) \/ ReviseFailed(p, t)
    BY <1>4, PromotionWork
<1>5. CASE \E p \in Proc : PromotionStep(p)
  <2>1. PICK p \in Proc : PromotionStep(p)
    BY <1>5
  <2>2. pc[p] # "idle"
    BY <2>1 DEF PromotionStep, CheckRepository, Apply, GitFails, Verify, Rollback, RecordPromotion,
       AddEntry, PromoteQueued
  <2>3. tid[p] \in Task
    BY <1>1, <2>2 DEF DelegationInv, GoodLocals
  <2> QED BY <2>1, <2>3, PromotionWork
<1> QED BY <1>2, <1>3, <1>4, <1>5 DEF NextPromotion

(* What was promoted is where it was put, and alone in its files once      *)
(* nothing is under way.                                                   *)
LEMMA WorkStands ==
    ASSUME ReviewInv, WorkInv
    PROVE  PromotedWorkStands
<1>1. ASSUME NEW t \in Task, StandsAlone(t)
      PROVE  \E c \in Patch : /\ c = promotions[t].result.patch
                              /\ Verified(t, c) /\ ~Shared(t, c) /\ Reverses(c)
  <2>1. Done(t)
    BY <1>1 DEF Done, StandsAlone
  <2>2. PICK c \in Patch : c = promotions[t].result.patch
    BY <2>1 DEF WorkInv, Outcomes, PromotionRecord, Result
  <2>3. Verified(t, c) /\ ~Shared(t, c)
    BY <1>1, <2>1, <2>2 DEF Verified, StandsAlone
  <2> QED BY <2>2, <2>3 DEF WorkInv, VerifiedStands
<1>2. PromotedContentStays
    BY <1>1 DEF PromotedContentStays
<1>3. ASSUME Settled, NEW t \in Task, StandsAlone(t)
      PROVE  Exact(promotions[t].result.patch)
  <2>1. PICK c \in Patch : /\ c = promotions[t].result.patch
                           /\ Verified(t, c) /\ ~Shared(t, c) /\ Reverses(c)
    BY <1>1, <1>3
  <2>2. \A u \in Task, q \in Proc : ~HoldsFor(q, u)
    BY <1>3 DEF Settled, ReviewInv, Holders, HoldsFor
  <2>3. \A u \in Task : StatusTells(u) /\ u \notin stranded /\ tasks[u].status # "promoting"
    BY <1>3, <2>2, HeldByNobody DEF Settled
  <2>4. \A u \in Task, h \in Hunk : ~Stuck(u, h)
    BY <2>3 DEF StatusTells, Stuck
  <2>5. \A h \in HunksIn(FilesOf(c)) \ HunksOf(c) : canonical[h] = None
    BY <2>1, <2>4 DEF WorkInv, VerifiedAlone, HunksIn
  <2> QED BY <2>1, <2>5 DEF Exact, Reverses
<1>4. PromotedFilesAreExact
    BY <1>3 DEF PromotedFilesAreExact
<1> QED BY <1>2, <1>4 DEF PromotedWorkStands

(* What a task promoted stays in the canonical worktree whatever is        *)
(* applied, fails or is undone beside it, in the same hunks or in others   *)
(* of its files, and once no promotion is under way nothing else is in its *)
(* files (DelegationPromotionService.promote, _verify_applied, _rollback). *)
(* Only a task whose patch makes a change that a patch approved for        *)
(* another task makes as well can lose it.                                 *)
THEOREM PromotedStays == SpecPromotion => []PromotedWorkStands
<1>1. ReviewInv /\ ReviewInv' /\ WorkInv /\ [NextPromotion]_vars => WorkInv'
    BY NextWork
<1>2. ReviewInv /\ WorkInv => PromotedWorkStands
    BY WorkStands
<1> QED BY <1>1, <1>2, InitWork, ReviewInvariant, PTL DEF SpecPromotion
=============================================================================
