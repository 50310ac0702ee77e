---------------------------- MODULE MCCollection ----------------------------
(* Small instances of module Collection.                                   *)
EXTENDS Collection

CONSTANTS c1, c2

Call(op, doc) == [op |-> op, doc |-> doc]
Ins(n) == [i \in 1..n |-> Call("insert", i)]

P(calls, ordered, command, rejected, there, f, read) ==
    [calls |-> calls, ordered |-> ordered, safe |-> TRUE, command |-> command, single |-> FALSE,
     rejected |-> rejected, there |-> there, faults |-> f, read |-> read]

Mixed == <<Call("insert", 1), Call("update", 1), Call("insert", 2), Call("remove", 1),
           Call("insert", 3), Call("upsert", 4)>>
Singles == <<Call("update", 1), Call("upsert", 1), Call("update", 1), Call("upsert", 1), Call("updateAll", 1),
             Call("remove", 2), Call("insert", 2), Call("removeAll", 2), Call("remove", 1)>>

MCPlans ==
    {P(Ins(5), TRUE, TRUE, {}, {}, 0, "many"),                                   \* read thoroughly
     P(Ins(5), TRUE, TRUE, {Call("insert", 4)}, {}, 1, "few"),                   \* ordered batches
     P(Ins(5), FALSE, TRUE, {Call("insert", 1), Call("insert", 4)}, {5}, 0, "few"),
     P(Mixed, TRUE, TRUE, {Call("remove", 1)}, {}, 1, "few"),
     P(Mixed, FALSE, TRUE, {Call("insert", 2), Call("update", 1)}, {}, 1, "few"),
     P(Mixed, TRUE, FALSE, {}, {}, 1, "few"),                                    \* an old server
     P(Ins(2) \o <<Call("update", 1), Call("update", 2), Call("remove", 1)>>, TRUE, FALSE, {}, {}, 1, "few"),
     P(Ins(3), FALSE, FALSE, {Call("insert", 2)}, {}, 1, "few"),
     P(Mixed, TRUE, FALSE, {Call("update", 1)}, {}, 0, "few"),                   \* whose errors are dropped
     P(Ins(5), FALSE, TRUE, {}, {}, 1, "few"),                                   \* an unordered batch is lost
     [P(Mixed, FALSE, TRUE, {}, {2}, 1, "few") EXCEPT !.safe = FALSE],
     [P(SubSeq(Singles, 1, 3) \o SubSeq(Singles, 6, 9), TRUE, TRUE, {}, {}, 1, "few") EXCEPT !.single = TRUE],
     [P(<<Call("upsert", 1), Call("updateAll", 1), Call("remove", 1)>>, TRUE, FALSE, {}, {1}, 1, "few") EXCEPT !.single = TRUE]}

Q(kind, batch, limit, prefetch, p1, p2, f) ==
    [kind |-> kind, batch |-> batch, limit |-> limit, prefetch |-> prefetch,
     plan |-> (c1 :> p1) @@ (c2 :> p2), fails |-> FALSE, dies |-> FALSE, cuts |-> TRUE,
     grows |-> 6, faults |-> f, after |-> "many"]

(* What Iter is not made for: a Batch beyond the limit, the error of a     *)
(* query with a limit of 1, a reply cut while the next batch is requested, *)
(* a Close before the first reply, a getMore that fails while others wait. *)
OverQuery == Q("find", 5, 3, 1, 0, -1, 0)
HiddenQuery == [Q("find", 0, 1, 1, 0, -1, 0) EXCEPT !.fails = TRUE]
CutQuery == Q("find", 5, 0, 4, 0, -1, 1)
EarlyQuery == Q("find", 2, 0, 1, -2, -1, 0)
WaitQuery == Q("find", 2, 0, 0, 0, 0, 1)

MCQueries ==
    {Q("find", 2, 0, 2, 0, 0, 0), Q("find", 2, 3, 1, 0, 2, 0), Q("find", 0, 3, 4, 0, 1, 0),  \* two callers
     Q("tail", 0, 0, 1, 0, 2, 0), Q("command", 0, 0, 1, 0, 2, 0), Q("find", 1, 4, 4, 0, 0, 0),
     Q("find", 0, -3, 1, 0, 2, 0),
     Q("find", 2, 0, 4, 0, -1, 2), Q("find", 0, 0, 4, 2, -1, 2), Q("find", 2, 3, 0, 0, -1, 2),  \* failures
     Q("find", 0, 4, 0, 0, -1, 2), Q("tail", 2, 0, 0, 3, -1, 2), Q("command", 0, 0, 1, 0, -1, 2),
     Q("find", 0, 1, 1, 0, -1, 2), [Q("find", 0, 0, 1, 0, -1, 2) EXCEPT !.fails = TRUE],
     [Q("find", 2, 0, 1, 0, -1, 1) EXCEPT !.dies = TRUE],
     [Q("find", 2, 0, 0, 0, -1, 1) EXCEPT !.after = "few"],
     Q("find", 2, 0, 1, 0, 0, 1),                                     \* a failure, two callers
     OverQuery, HiddenQuery, CutQuery, EarlyQuery, WaitQuery, Q("find", 2, 0, 1, -2, 0, 0)}
=============================================================================
