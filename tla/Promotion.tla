------------------------------ MODULE Promotion ------------------------------
(***************************************************************************)
(* The last part of a delegated task: its accepted patch is applied to the *)
(* canonical repository, verified and, when that fails, undone             *)
(* (DelegationPromotionService), at once or out of the promotion queue     *)
(* (DelegationPromotionQueue).  The tasks, their commands and the          *)
(* transitions are Delegation's.                                           *)
(*                                                                         *)
(* A patch changes hunks, a hunk lies in a file.  git applies a patch to   *)
(* hunks that read as they did in the base commit, undoes it in hunks that *)
(* read as the patch leaves them, whichever patch has left them so, and    *)
(* does all of it or nothing.  HEAD stays the base commit of every task: a *)
(* HEAD that moved only refuses commands.  A promotion whose required      *)
(* commands did not pass, or whose artifacts were tampered with, is        *)
(* refused as well and takes no step here.                                 *)
(***************************************************************************)
EXTENDS Delegation

CONSTANTS
    Hunk, FileOf, Content,
    Change        \* what a patch makes of the hunks it changes

HunksOf(c) == DOMAIN Change[c]

ASSUME PromotionAssumption ==
    /\ DOMAIN FileOf = Hunk
    /\ None \notin Content
    /\ \A c \in Patch :
           /\ HunksOf(c) \subseteq Hunk /\ HunksOf(c) # {}
           /\ \A h \in HunksOf(c) : Change[c][h] \in Content

VARIABLES
    canonical,    \* what each hunk of the canonical worktree was changed to, or None
    promotions,   \* the last "promotions" record of each task, or None
    queue,        \* the last "promotion_queue" record of each task, or None
    stranded      \* history: tasks with a promotion that could not be undone

pvars == <<canonical, promotions, queue, stranded>>
vars  == <<dvars, pvars>>

PromotionRecord == [outcome: {"promoted", "rolled_back", "stranded"}, result: Result]

FilesOf(c) == {FileOf[h] : h \in HunksOf(c)}
HunksIn(files_) == {h \in Hunk : FileOf[h] \in files_}

InitPromotion ==
    /\ Init
    /\ canonical = [h \in Hunk |-> None]
    /\ promotions = [t \in Task |-> None]
    /\ queue = [t \in Task |-> None]
    /\ stranded = {}

-----------------------------------------------------------------------------
(* git apply                                                               *)

Applies(c)  == \A h \in HunksOf(c) : canonical[h] = None
Reverses(c) == \A h \in HunksOf(c) : canonical[h] = Change[c][h]

Put(c)  == canonical' = [h \in Hunk |-> IF h \in HunksOf(c) THEN Change[c][h] ELSE canonical[h]]
Undo(c) == canonical' = [h \in Hunk |-> IF h \in HunksOf(c) THEN None ELSE canonical[h]]

(* git status: nothing in the files of the patch differs from HEAD.        *)
Clean(c) == \A h \in HunksIn(FilesOf(c)) : canonical[h] = None

(* _verify_applied: these files are the base commit's with the patch.      *)
Exact(c) ==
    \A h \in HunksIn(FilesOf(c)) :
        canonical[h] = IF h \in HunksOf(c) THEN Change[c][h] ELSE None

-----------------------------------------------------------------------------
(* DelegationPromotionService.promote                                      *)

(* A failed promotion is retried only when its rollback was confirmed, and *)
(* only the latest revision is promoted.                                   *)
Promotable(t) ==
    /\ tasks[t].status \in {"accepted", "promotion_failed"}
    /\ tasks[t].status = "promotion_failed" =>
          promotions[t] # None /\ promotions[t].outcome = "rolled_back"
    /\ tasks[t].accepted = tasks[t].latest
    /\ \E i \in DOMAIN results[t] : results[t][i].revision = tasks[t].accepted

TakeAccepted(p, t) ==
    /\ tid' = [tid EXCEPT ![p] = t]
    /\ res' = [res EXCEPT ![p] = ResultOf(t, tasks[t].accepted)]
    /\ Goto(p, "check")
    /\ UNCHANGED <<tasks, records, files, row, to, next, pvars>>

Promote(p, t) == pc[p] = "idle" /\ Promotable(t) /\ TakeAccepted(p, t)

(* The decision is recorded, which nothing reads, and the task moves on.   *)
CheckRepository(p) ==
    /\ pc[p] = "check"
    /\ IF Clean(res[p].patch)
       THEN Ask(p, "promoting", "apply") /\ UNCHANGED <<tid, row, res>>
       ELSE Return(p)
    /\ UNCHANGED <<tasks, records, files, pvars>>

Proceed(p, label) ==
    /\ Goto(p, label)
    /\ UNCHANGED <<tasks, records, files, tid, row, res, to, next, promotions, queue, stranded>>

(* Mutant: what is applied is taken from the worktree, as it is by now.    *)
ApplyWorkspace(p) ==
    /\ pc[p] = "apply"
    /\ IF worktree[tid[p]] # None /\ Applies(worktree[tid[p]])
       THEN Put(worktree[tid[p]]) /\ Proceed(p, "verify")
       ELSE UNCHANGED canonical /\ Proceed(p, "rollback")

Apply(p) ==
    /\ pc[p] = "apply"
    /\ IF Applies(res[p].patch)
       THEN Put(res[p].patch) /\ Proceed(p, "verify")
       ELSE UNCHANGED canonical /\ Proceed(p, "rollback")

(* git fails for a reason of its own.                                      *)
GitFails(p) ==
    /\ pc[p] \in {"apply", "verify", "rollback"}
    /\ UNCHANGED canonical
    /\ Proceed(p, IF pc[p] = "rollback" THEN "stranded" ELSE "rollback")

(* Mutant: the applied content is not compared.                            *)
VerifyBlindly(p) ==
    /\ pc[p] = "verify"
    /\ UNCHANGED canonical
    /\ Proceed(p, "promoted")

Verify(p) ==
    /\ pc[p] = "verify"
    /\ UNCHANGED canonical
    /\ Proceed(p, IF Exact(res[p].patch) THEN "promoted" ELSE "rollback")

(* Mutant: a patch that cannot be undone raises out of promote.            *)
RollbackRaises(p) ==
    /\ pc[p] = "rollback"
    /\ IF Reverses(res[p].patch)
       THEN Undo(res[p].patch) /\ Proceed(p, "rolled_back")
       ELSE Return(p) /\ UNCHANGED <<tasks, records, files, pvars>>

(* Mutant: the files of the patch are checked out from HEAD.               *)
RollbackByCheckout(p) ==
    /\ pc[p] = "rollback"
    /\ canonical' = [h \in Hunk |->
         IF FileOf[h] \in FilesOf(res[p].patch) THEN None ELSE canonical[h]]
    /\ Proceed(p, "rolled_back")

Rollback(p) ==
    /\ pc[p] = "rollback"
    /\ IF Reverses(res[p].patch)
       THEN Undo(res[p].patch) /\ Proceed(p, "rolled_back")
       ELSE UNCHANGED canonical /\ Proceed(p, "stranded")

(* Mutant: the record tells the status only, not whether the rollback was  *)
(* confirmed.                                                              *)
RecordStatus(p) ==
    /\ pc[p] \in {"promoted", "rolled_back", "stranded"}
    /\ LET status == IF pc[p] = "promoted" THEN "promoted" ELSE "promotion_failed"
       IN /\ promotions' = [promotions EXCEPT
                ![tid[p]] = [outcome |-> status, result |-> res[p]]]
          /\ Ask(p, status, "idle")
    /\ UNCHANGED <<tasks, records, files, tid, row, res, canonical, queue, stranded>>

(* The record is appended, then the task moves on.                         *)
RecordPromotion(p) ==
    /\ pc[p] \in {"promoted", "rolled_back", "stranded"}
    /\ promotions' = [promotions EXCEPT ![tid[p]] = [outcome |-> pc[p], result |-> res[p]]]
    /\ stranded' = IF pc[p] = "stranded" THEN stranded \cup {tid[p]} ELSE stranded
    /\ Ask(p, IF pc[p] = "promoted" THEN "promoted" ELSE "promotion_failed", "idle")
    /\ UNCHANGED <<tasks, records, files, tid, row, res, canonical, queue>>

(* request_revision, of a result whose promotion failed.                   *)
ReviseFailed(p, t) ==
    /\ tasks[t].status = "promotion_failed"
    /\ \E i \in DOMAIN results[t] : results[t][i].revision = tasks[t].latest
    /\ BeginReview(p, t, ResultOf(t, tasks[t].latest), "revision_requested")
    /\ UNCHANGED pvars

-----------------------------------------------------------------------------
(* DelegationPromotionQueue                                                *)

(* enqueue reads the task and its entry, and appends one later.            *)
Enqueue(p, t) ==
    /\ pc[p] = "idle"
    /\ tasks[t].status = "accepted"
    /\ tasks[t].accepted # None
    /\ queue[t] = None
    /\ tid' = [tid EXCEPT ![p] = t]
    /\ res' = [res EXCEPT ![p] = ResultOf(t, tasks[t].accepted)]
    /\ Goto(p, "enqueue")
    /\ UNCHANGED <<tasks, records, files, row, to, next, pvars>>

AddEntry(p) ==
    /\ pc[p] = "enqueue"
    /\ queue' = [queue EXCEPT ![tid[p]] = res[p].patch]
    /\ Return(p)
    /\ UNCHANGED <<tasks, records, files, canonical, promotions, stranded>>

(* blockers: entries of other tasks with files in common.  An entry is     *)
(* pending or blocked when it is added and stays so: nothing changes it.   *)
Blocked(t) ==
    \E other \in Task \ {t} :
        queue[other] # None /\ FilesOf(queue[t]) \cap FilesOf(queue[other]) # {}

QueuePromote(p, t) ==
    /\ pc[p] = "idle"
    /\ queue[t] # None
    /\ ~Blocked(t)
    /\ tid' = [tid EXCEPT ![p] = t]
    /\ Goto(p, "promote")
    /\ UNCHANGED <<tasks, records, files, row, res, to, next, pvars>>

PromoteQueued(p) ==
    /\ pc[p] = "promote"
    /\ IF Promotable(tid[p])
       THEN TakeAccepted(p, tid[p])
       ELSE Return(p) /\ UNCHANGED <<tasks, records, files, pvars>>

-----------------------------------------------------------------------------
(* The specification.                                                      *)

PromotionCommand(p, t) == Promote(p, t) \/ Enqueue(p, t) \/ QueuePromote(p, t)

PromotionStep(p) ==
    \/ CheckRepository(p) \/ Apply(p) \/ GitFails(p) \/ Verify(p) \/ Rollback(p)
    \/ RecordPromotion(p) \/ AddEntry(p) \/ PromoteQueued(p)

NextPromotion ==
    \/ Next /\ UNCHANGED pvars
    \/ \E p \in Proc, t \in Task : PromotionCommand(p, t) \/ ReviseFailed(p, t)
    \/ \E p \in Proc : PromotionStep(p)

(* A command that does not die takes its next step.                        *)
Fairness ==
    \A p \in Proc : WF_vars(PromotionStep(p) \/ (Step(p) /\ UNCHANGED pvars))

SpecPromotion == InitPromotion /\ [][NextPromotion]_vars

-----------------------------------------------------------------------------
(* Properties.                                                             *)

PromotionTypeOK ==
    /\ canonical \in [Hunk -> Content \cup {None}]
    /\ promotions \in [Task -> PromotionRecord \cup {None}]
    /\ queue \in [Task -> Patch \cup {None}]
    /\ stranded \subseteq Task

(* Whatever stands in the canonical worktree was captured as a revision of *)
(* some task, and a reviewer approved that revision.                       *)
ApprovedFor(t, c) ==
    \E i \in DOMAIN results[t] :
        /\ results[t][i].patch = c
        /\ [revision |-> results[t][i].revision, decision |-> "accepted"] \in reviews[t]

Brings(c, h, content) == h \in HunksOf(c) /\ Change[c][h] = content

CanonicalWasApproved ==
    \A h \in Hunk : canonical[h] # None =>
        \E t \in Task, c \in Patch : ApprovedFor(t, c) /\ Brings(c, h, canonical[h])

(* One command at most changes the canonical worktree for a task: the one  *)
(* that made it "promoting", until it has recorded what came of it.        *)
Promoting == {"apply", "verify", "rollback", "promoted", "rolled_back", "stranded"}

OnePromoter ==
    \A p, q \in Proc :
        pc[p] \in Promoting /\ pc[q] \in Promoting /\ tid[p] = tid[q] => p = q

(* A hunk of the patch of t is changed in the same way by a patch that was *)
(* approved for another task: when that one fails to apply, its rollback   *)
(* undoes the change for both.                                             *)
Shared(t, c) ==
    \E u \in Task \ {t}, d \in Patch :
        ApprovedFor(u, d) /\ \E h \in HunksOf(c) : Brings(d, h, Change[c][h])

StandsAlone(t) == tasks[t].status = "promoted" /\ ~Shared(t, promotions[t].result.patch)

(* What a promoted task brought stays in the canonical worktree, whatever  *)
(* other patches for the same files or hunks are approved, applied, fail   *)
(* or are undone, unless they share a change with it.                      *)
PromotedContentStays ==
    \A t \in Task : StandsAlone(t) => Reverses(promotions[t].result.patch)

(* And when no task is promoting any more and each promotion that failed   *)
(* was undone, nothing else stands in its files.                           *)
Settled == stranded = {} /\ \A t \in Task : tasks[t].status # "promoting"

PromotedFilesAreExact ==
    Settled => \A t \in Task : StandsAlone(t) => Exact(promotions[t].result.patch)

(* A promotion that began comes to an end, unless its process dies.        *)
PromotionEnds ==
    \A t \in Task : tasks[t].status = "promoting" ~> tasks[t].status # "promoting"

(* What is applied, and by whom.                                           *)
PromotionIsReviewed == PromotionTypeOK /\ OnePromoter /\ CanonicalWasApproved

(* What was promoted stands as it was captured, whatever fails beside it,  *)
(* but for a change that another task brings as well.                      *)
PromotedWorkStands == PromotedContentStays /\ PromotedFilesAreExact
=============================================================================
