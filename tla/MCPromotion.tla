----------------------------- MODULE MCPromotion -----------------------------
(* Small instances of Promotion for TLC.                                   *)
EXTENDS Promotion, TLC

CONSTANTS p1, p2, t1, t2, c1, c2, c3, c4, h1, h2, x, y, f1

(* c4 shares a change with c1, and is at odds with c3.                     *)
OneFile == [h \in Hunk |-> f1]
Changes == (c1 :> (h1 :> x)) @@ (c2 :> (h2 :> x)) @@ (c3 :> (h1 :> y)) @@ (c4 :> (h1 :> x) @@ (h2 :> x))
PatchesInScope == (t1 :> {c1, c3}) @@ (t2 :> {c2, c4})

(* A state that review leads to: a task has one revision, captured and     *)
(* accepted, and its worktree is as it was captured.                       *)
Accepted == [status |-> "accepted", latest |-> 1, accepted |-> 1]

(* t1 is such a task, and t2 is one as well or does not exist: with        *)
(* changes of their own in one file, at odds, or in part the same.         *)
Work == {[t1 |-> c3, t2 |-> None], [t1 |-> c3, t2 |-> c2], [t1 |-> c3, t2 |-> c4], [t1 |-> c1, t2 |-> c4]}

InitAccepted ==
    \E work \in Work : LET begun == IF work.t2 = None THEN {t1} ELSE {t1, t2} IN
        /\ worktree = [t \in Task |-> IF t = t1 THEN work.t1 ELSE work.t2]
        /\ tasks = [t \in Task |-> IF t \in begun THEN Accepted ELSE AbsentTask]
        /\ results = [t \in Task |->
              IF t \in begun THEN <<[revision |-> 1, patch |-> worktree[t]]>> ELSE <<>>]
        /\ reviews = [t \in Task |->
              IF t \in begun THEN {[revision |-> 1, decision |-> "accepted"]} ELSE {}]
        /\ workless = [t \in Task |-> FALSE]
        /\ root = [t \in Task |-> t \in begun]
        /\ prepared = [t \in Task |-> t \in begun]
        /\ revdirs = [t \in Task |-> IF t \in begun THEN {1} ELSE {}]
        /\ pc = [p \in Proc |-> "idle"]
        /\ tid = [p \in Proc |-> None]
        /\ row = [p \in Proc |-> AbsentTask]
        /\ res = [p \in Proc |-> None]
        /\ to = [p \in Proc |-> None]
        /\ next = [p \in Proc |-> "idle"]
        /\ canonical = [h \in Hunk |-> None]
        /\ promotions = [t \in Task |-> None]
        /\ queue = [t \in Task |-> None]
        /\ stranded = {}

(* Two tasks that nobody reviews or reworks any more: promotions among     *)
(* themselves, out of the queue if their changes are apart.                *)
NextPromoting ==
    /\ tasks[t2] # AbsentTask
    /\ \/ \E p \in Proc, t \in Task : PromotionCommand(p, t)
       \/ \E p \in Proc : PromotionStep(p)
       \/ \E p \in Proc : (Move(p) \/ SetTask(p)) /\ UNCHANGED pvars
    /\ \A p \in Proc : pc'[p] \in {"enqueue", "promote"} => worktree[t2] = c2

(* Or one task, with everything that may be done to it, but that it is not *)
(* queued, that its executor is never blocked and does not fail, and that  *)
(* only one change out of its scope is made to its worktree.               *)
NextOnOne ==
    /\ tasks[t2] = AbsentTask
    /\ NextPromotion
    /\ tasks'[t2] = AbsentTask /\ worktree'[t1] # c4
    /\ \A p \in Proc :
          /\ pc'[p] \notin {"enqueue", "promote"}
          /\ to'[p] \notin {"executor_blocked", "failed"}

FairPromoting == InitAccepted /\ [][NextPromoting \/ NextOnOne]_vars /\ Fairness
=============================================================================
