------------------------------ MODULE MCMemory ------------------------------
(* An instance of Memory for TLC: three items taken from one source.       *)
EXTENDS Memory

(* Items 1 and 2 conflict, item 3 has a name of its own.                   *)
Names == [m \in MemoryId |-> <<"fact", "fact", "other">>[m]]
SameSource == [m \in MemoryId |-> "task"]
CostOf == [m \in MemoryId |-> <<4, 3, 1>>[m]]
SmallBudgets == {[items |-> 2, tokens |-> 3], [items |-> 1, tokens |-> 4]}
=============================================================================
