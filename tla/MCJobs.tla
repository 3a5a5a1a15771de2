------------------------------- MODULE MCJobs -------------------------------
(* Small instances of Jobs for TLC.                                        *)
EXTENDS Jobs, FiniteSets, TLC

Request(kind, key, gated) == [kind |-> kind, key |-> key, gated |-> gated]

(* Jobs without a write contract, gated by policy or not.                  *)
PlainRequests == {Request("plain", None, g) : g \in BOOLEAN}
GatedRequests == {Request("plain", None, TRUE)}

(* Writes: dry runs, and live requests under an earlier approval.          *)
WriteRequests == {Request(kind, k, FALSE) : kind \in {"dry_run", "live"}, k \in Key}
MixedRequests == GatedRequests \cup {Request("live", k, FALSE) : k \in Key}
LiveRequests  == {Request("live", k, FALSE) : k \in Key}

Symmetry == Permutations(Proc) \cup Permutations(JobId)
            \cup Permutations(ApprovalId)

(* A store in which one dry run per digest has completed for one of the    *)
(* keys, the state a review starts from.                                   *)
ReviewedKey == CHOOSE k \in Key : TRUE

DryRun(k) == [AbsentJob EXCEPT !.status = "completed", !.kind = "dry_run", !.key = k]

ReviewedStore ==
    \E place \in [Digest -> JobId] :
        LET dry == {place[d] : d \in Digest} IN
        /\ Cardinality(dry) = Cardinality(Digest)
        /\ jobs = [j \in JobId |-> IF j \in dry THEN DryRun(ReviewedKey) ELSE AbsentJob]
        /\ artifact = [j \in JobId |-> IF j \in dry
                          THEN CHOOSE d \in Digest : place[d] = j ELSE None]
        /\ runs = [j \in JobId |-> IF j \in dry THEN 1 ELSE 0]
        /\ approvals = [a \in ApprovalId |-> AbsentApproval]
        /\ idem = [i \in Key |-> AbsentRecord]
        /\ pc = [p \in Proc |-> "idle"]
        /\ jid = [p \in Proc |-> None]
        /\ job = [p \in Proc |-> AbsentJob]
        /\ aid = [p \in Proc |-> None]
        /\ apv = [p \in Proc |-> AbsentApproval]

ReviewedSpec == ReviewedStore /\ [][Next]_vars

FairReviewedSpec == ReviewedSpec /\ \A p \in Proc : WF_vars(Step(p))
=============================================================================
