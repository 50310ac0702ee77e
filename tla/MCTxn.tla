-------------------------------- MODULE MCTxn --------------------------------
(* Instances of Txn: two transactions on two documents.                    *)
EXTENDS Txn, TLC

Change(d) == [doc |-> d, kind |-> "update", assert |-> "none"]
UpdateExisting(d) == [doc |-> d, kind |-> "update", assert |-> "exists"]
InsertNew(d) == [doc |-> d, kind |-> "insert", assert |-> "missing"]
Delete(d) == [doc |-> d, kind |-> "remove", assert |-> "none"]

(* The workloads leave out a transaction that removes what another one     *)
(* inserts: see the comment in apply about a delayed insert.               *)
MCWorkloads ==
    [crossing |-> [faults |-> 0, exist |-> {1, 2}, ops |-> <<<<Change(1), Change(2)>>, <<Change(2), Change(1)>>>>],
     insertBoth |-> [faults |-> 1, exist |-> {2}, ops |-> <<<<InsertNew(1), Change(2)>>, <<InsertNew(1)>>>>],
     removeUpdate |-> [faults |-> 1, exist |-> {1, 2}, ops |-> <<<<Delete(1), Change(2)>>, <<UpdateExisting(1)>>>>],
     replace |-> [faults |-> 1, exist |-> {1}, ops |-> <<<<Delete(1), InsertNew(1)>>, <<Change(1)>>>>]]

Symmetry == Permutations(Runners)
====
