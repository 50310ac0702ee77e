---------------------------- MODULE CollectionInv ----------------------------
(***************************************************************************)
(* The inductive invariants of Collection, which CollectionProofs is       *)
(* about.                                                                  *)
(*                                                                         *)
(* The iterator: at any time at most one batch is being asked for, by a    *)
(* caller about to send the request, by a request on its way, or by a      *)
(* reply of which nothing was read; another reply may be read in part.     *)
(* Most of the invariant relates what is counted in iter to where the      *)
(* documents are.                                                          *)
(*                                                                         *)
(* The writes: the actions of a bulk, and how far they were sent, are      *)
(* related to what was queued up and to what the server did.               *)
(***************************************************************************)
EXTENDS Collection, ModLemmas

-----------------------------------------------------------------------------
(* The ring of documents: q.nelems items from q.popi on.                   *)

Ring(q) ==
    LET cap == R!Slots(q) IN
      /\ cap \in Nat
      /\ q \in [elems : [0..cap - 1 -> Int], nelems : 0..cap, popi : Nat, pushi : Nat]
      /\ cap = 0 => q.popi = 0 /\ q.pushi = 0
      /\ cap > 0 => /\ q.popi < cap
                    /\ q.pushi = IF q.popi + q.nelems < cap THEN q.popi + q.nelems ELSE q.popi + q.nelems - cap

Slot(q, i) == IF q.popi + i - 1 < R!Slots(q) THEN q.popi + i - 1 ELSE q.popi + i - 1 - R!Slots(q)
Item(q, i) == q.elems[Slot(q, i)]

-----------------------------------------------------------------------------
(* Where documents and requests are.                                       *)

Limit == R!LimitOf(query.limit)
Limited == query.limit # 0
Failing == query.fails /\ query.kind # "command"
Opened == \A c \in Callers : app[c].pc # "start"

Whole(x) == Len(x.docs) = x.total
HeadPartial == replies # <<>> /\ ~Whole(replies[1])
Answered == replies # <<>> /\ Whole(replies[Len(replies)])
Fetchers == {c \in Callers : app[c].pc \in {"getMore", "prefetch"}}
Requests == {i \in DOMAIN wire : wire[i].op # "kill"}
Pending == Fetchers # {} \/ Requests # {} \/ Answered

PartialLen == IF HeadPartial THEN Len(replies[1].docs) ELSE 0
AnswerLen == IF Answered THEN Len(replies[Len(replies)].docs) ELSE 0

(* The position in stored up to which documents were returned, are in the  *)
(* ring, in the reply that is read or in a reply at all.                   *)
Received == Len(returned) + iter.docData.nelems
Base == Received + PartialLen
End == Base + AnswerLen

-----------------------------------------------------------------------------
(* The invariant.                                                          *)

(* The finite sets of documents a collection can be.                       *)
Contents(S) == S \in SUBSET Documents /\ IsFiniteSet(S)

Operations == [op : Ops, doc : Documents]
Actions == [op : {"insert", "update", "remove"}, docs : Seq(Operations) \ {<<>>}]

WriteInv ==
    /\ plan \in Plans /\ collection \subseteq Documents /\ IsFiniteSet(collection) /\ wfaults \in Nat
    /\ bulk \in [actions : Seq(Actions), next : 1..Len(plan.calls) + 1, at : 1..Len(bulk.actions) + 1,
                 from : Nat, acc : {bulk.acc}, errs : {bulk.errs}, failed : BOOLEAN, matched : Nat]
    /\ writer \in {"queue", "acquire", "write", "done", "crashed"}
    /\ writer \in {"acquire", "write"} => bulk.at <= Len(bulk.actions)
    /\ writer = "queue" => bulk.at = 1

WireOps == [op : {"query"}, limit : Int] \cup [op : {"getMore"}, limit : Int, id : 0..1] \cup [op : {"kill"}]
Replies == [docs : Seq(Int), total : Nat, cursorId : 0..1, notFound : BOOLEAN]

TypeInv ==
    /\ query \in Queries /\ faults \in 0..query.faults /\ reading \in BOOLEAN
    /\ stored \in Seq(Documents) /\ \A i, j \in DOMAIN stored : i < j => stored[i] < stored[j]
    /\ iter \in [err : R!Errs, docsToReceive : Nat, docsBeforeMore : Int, limit : Nat, opLimit : Int,
                 cursorId : 0..1, docData : {iter.docData}, timedout : BOOLEAN]
    /\ Ring(iter.docData)
    /\ app \in [Callers -> [pc : R!Pcs, left : Nat]]
    /\ wire \in Seq(WireOps) /\ replies \in Seq(Replies)
    /\ cursor \in [state : {"none", "open", "gone"}, pos : 0..Len(stored)]
    /\ returned \in Seq(Documents) /\ closed \in BOOLEAN /\ ended \in {"no", "exhausted", "error"}
    /\ panic # R!LimitPanic /\ astray \subseteq {"early", "unwoken"}

StageInv ==
    /\ ~reading => stored = <<>> /\ ~Opened
    /\ ~Opened => /\ \A c \in Callers : app[c].pc = "start"
                  /\ iter = R!Unopened /\ wire = <<>> /\ replies = <<>>
                  /\ cursor = [state |-> "none", pos |-> 0] /\ returned = <<>> /\ ~closed /\ ended = "no"
                  /\ astray = {}

(* A reply with nothing read of it comes last; read ones are dropped.      *)
ReplyInv ==
    /\ Len(replies) <= 2
    /\ Len(replies) = 2 => ~Whole(replies[1]) /\ Whole(replies[2])
    /\ \A i \in DOMAIN replies :
         /\ ~Whole(replies[i]) => 0 < Len(replies[i].docs) /\ Len(replies[i].docs) < replies[i].total
         /\ replies[i].notFound => replies[i].docs = <<>> /\ replies[i].cursorId = 0

OneRequest ==
    /\ \A c, d \in Fetchers : c = d
    /\ \A i, j \in Requests : i = j
    /\ Fetchers # {} => Requests = {} /\ ~Answered
    /\ Requests # {} => ~Answered

(* Nobody has seen a document; who is to close the iterator before that    *)
(* may have done so.                                                       *)
FirstPcs(n) == CASE n = -1 -> {"done"} [] n = -2 -> {"close"} [] OTHER -> {"next", "wait"}
Waiting ==
    /\ \A c \in Callers : app[c].pc \in {"next", "wait", "close", "done"}
    /\ "early" \notin astray => ~closed /\ \A c \in Callers : app[c].pc \in FirstPcs(query.plan[c])
    /\ iter.err = "nil" /\ iter.docData.nelems = 0 /\ iter.cursorId = 0 /\ returned = <<>> /\ ended = "no"

QueryInv ==
    \A i \in DOMAIN wire : wire[i].op = "query" =>
      /\ wire = << [op |-> "query", limit |-> R!OpLimit] >> /\ iter.opLimit = R!OpLimit
      /\ query.kind \in {"find", "tail"}
      /\ replies = <<>> /\ Fetchers = {} /\ cursor = [state |-> "none", pos |-> 0] /\ Waiting

CountInv ==
    LET n == (IF Pending THEN 1 ELSE 0) + PartialLen IN
      /\ iter.docsToReceive >= n
      /\ iter.err = "nil" \/ Pending => iter.docsToReceive = n

(* A batch is only asked for ahead of need once since a reply began, and   *)
(* without prefetching never before that reply was read.                   *)
FetchInv ==
    /\ Pending /\ iter.docsBeforeMore >= 0 => iter.docData.nelems = 0 /\ ~HeadPartial
    /\ query.prefetch = 0 /\ HeadPartial =>
         /\ ~Pending
         /\ iter.docsBeforeMore >= 0 => iter.docsBeforeMore >= iter.docData.nelems + PartialLen
    /\ (\E c \in Callers : app[c].pc = "getMore") => iter.docData.nelems = 0 /\ ~HeadPartial

(* Once something failed, or the end is known, nothing is asked for.       *)
ErrInv ==
    /\ \A c \in Callers : app[c].pc \in {"limitClose", "limitKill"} => iter.err # "nil"
    /\ \A c \in Callers : app[c].pc = "kill" => closed \/ iter.err # "nil"
    /\ iter.err # "nil" /\ ~closed => ~Pending
    /\ iter.err = "notFound" => ~Pending /\ replies = <<>>
    /\ ended = "exhausted" => iter.docData.nelems = 0 /\ replies = <<>> /\ ~Pending /\ iter.err # "nil"

ContentInv ==
    ~Failing =>
      /\ End <= cursor.pos
      /\ Pending \/ iter.err = "nil" \/ replies # <<>> => cursor.pos = End
      /\ \A i \in 1..Len(returned) : returned[i] = stored[i]
      /\ \A i \in 1..iter.docData.nelems : Item(iter.docData, i) = stored[Len(returned) + i]
      /\ HeadPartial => \A i \in DOMAIN replies[1].docs : replies[1].docs[i] = stored[Received + i]
      /\ Answered => LET x == replies[Len(replies)] IN \A i \in DOMAIN x.docs : x.docs[i] = stored[Base + i]

LimitInv ==
    /\ ~Limited => iter.limit = 0
    /\ Limited /\ ~Failing /\ Opened =>
         /\ iter.limit = Limit - Len(returned) /\ Base <= Limit
         /\ Pending \/ iter.docsBeforeMore >= 0 => Base < Limit
         /\ \A i \in Requests : wire[i].limit # 0
         /\ \A i \in Requests : wire[i].op = "getMore" \/ ~R!Overasked => Base + R!LimitOf(wire[i].limit) <= Limit
         /\ End <= Limit
         /\ iter.err # "nil" /\ ~closed => iter.limit = 0 \/ Base < Limit
         /\ iter.err = "nil" => iter.limit > 0
         /\ iter.opLimit # 0
         /\ iter.opLimit < 0 =>
              /\ iter.cursorId = 0 /\ Fetchers = {} /\ cursor.state # "open"
              /\ \A i \in DOMAIN replies : replies[i].cursorId = 0
              /\ \A i \in DOMAIN wire : wire[i].op # "getMore"

(* The server has no more documents, or none that are asked for.           *)
Complete(p) == (cursor.state = "gone" /\ p = Len(stored)) \/ (Limited /\ p = Limit)
EndInv ==
    ~Failing /\ Opened =>
      /\ iter.err = "nil" /\ ~closed /\ iter.cursorId = 0 /\ ~Pending => cursor.state = "gone" /\ Complete(cursor.pos)
      /\ \A i \in DOMAIN replies : Whole(replies[i]) /\ replies[i].cursorId = 0 /\ ~replies[i].notFound =>
           cursor.state = "gone" /\ Complete(cursor.pos)
      /\ iter.err = "notFound" /\ ~closed => Complete(Received)

(* The query fails: its one document is an error.                          *)
FailInv ==
    Failing /\ Opened =>
      /\ returned = <<>> /\ iter.cursorId = 0 /\ Fetchers = {} /\ cursor.state # "open"
      /\ \A c \in Callers : app[c].pc \notin {"kill", "limitKill", "limitClose"}
      /\ \A i \in Requests : wire[i].op = "query"
      /\ \/ /\ Requests # {} /\ iter.docData.nelems = 0 /\ replies = <<>>
         \/ /\ Requests = {} /\ iter.docData.nelems = 0 /\ iter.err = "nil"
            /\ replies = << [docs |-> <<R!ErrorDoc>>, total |-> 1, cursorId |-> 0, notFound |-> FALSE] >>
         \/ /\ Requests = {} /\ iter.docData.nelems = 1 /\ replies = <<>> /\ iter.err = "nil"
            /\ Item(iter.docData, 1) = R!ErrorDoc
         \/ /\ Requests = {} /\ iter.docData.nelems = 0 /\ replies = <<>> /\ iter.err # "nil"
            /\ iter.err = "notFound" => Limit = 1
      /\ iter.err = "nil" => iter.limit = Limit

KillPending == \/ \E i \in DOMAIN wire : wire[i].op = "kill"
               \/ \E c \in Callers : app[c].pc \in {"kill", "limitKill"}
FirstUnread == Waiting /\ Answered /\ ~HeadPartial /\ replies[Len(replies)].cursorId = 1

(* As long as nothing failed, an open cursor is known or being killed, or  *)
(* its number is about to be read.                                         *)
ReleaseInv ==
    panic = "none" /\ faults = query.faults /\ cursor.state = "open" /\ ~KillPending /\ "early" \notin astray =>
      FirstUnread \/ (iter.cursorId = 1 /\ \E c \in Callers : app[c].pc # "done")

IterInv ==
    /\ TypeInv /\ StageInv /\ ReplyInv /\ OneRequest /\ QueryInv /\ CountInv /\ FetchInv
    /\ ErrInv /\ ContentInv /\ LimitInv /\ EndInv /\ FailInv /\ ReleaseInv

(* What makes the iterator irregular: a batch beyond the limit was asked   *)
(* for by Batch, and a reply is only cut by a failure.                     *)
StrayInv ==
    /\ query \in Queries /\ faults \in 0..query.faults
    /\ astray \subseteq {"overrun", "cut", "early", "unwoken"}
    /\ "overrun" \in astray => R!Overasked \/ "cut" \in astray
    /\ "cut" \in astray => faults # query.faults

(* For any query, and as long as the iterator is regular.                  *)
IInv == WriteInv /\ StrayInv /\ (R!Regular => IterInv)

-----------------------------------------------------------------------------
(* What the writes did and reported.                                       *)

Failures == [op : {"net", "write", "concern"}, doc : {0}]
Reports == Operations \cup Failures

(* The operations of a bulk that are in its actions, and those of them     *)
(* that were sent.                                                         *)
AllOps(b) == {x \in Operations : \E a \in 1..Len(b.actions) : \E k \in 1..Len(b.actions[a].docs) :
                x = b.actions[a].docs[k]}
SentOps(b) == {x \in Operations : \E a \in 1..Len(b.actions) : \E k \in 1..Len(b.actions[a].docs) :
                /\ x = b.actions[a].docs[k]
                /\ a < b.at \/ (a = b.at /\ k <= b.from)}

(* Every operation queued up so far is in one place of one action of its   *)
(* kind.                                                                   *)
Sorted(b) ==
    /\ \A a \in 1..Len(b.actions) :
         /\ Injective(b.actions[a].docs)
         /\ \A k \in 1..Len(b.actions[a].docs) : W!Kind(b.actions[a].docs[k].op) = b.actions[a].op
    /\ \A a, c \in 1..Len(b.actions) : a # c =>
         \A k \in 1..Len(b.actions[a].docs) : \A m \in 1..Len(b.actions[c].docs) :
           b.actions[a].docs[k] # b.actions[c].docs[m]
    /\ AllOps(b) = {W!Queued[i] : i \in 1..(b.next - 1)}

(* An ordered bulk: action a begins with the operation after s[a].         *)
Starts(b, s) ==
    /\ s \in [1..(Len(b.actions) + 1) -> 0..(b.next - 1)] /\ s[1] = 0 /\ s[Len(b.actions) + 1] = b.next - 1
    /\ \A a \in 1..Len(b.actions) :
         /\ s[a + 1] = s[a] + Len(b.actions[a].docs)
         /\ \A k \in 1..Len(b.actions[a].docs) : b.actions[a].docs[k] = W!Queued[s[a] + k]

(* Where the writer is, and what it has sent and kept.                     *)
PlaceInv ==
    /\ writer = "queue" => /\ applied = <<>> /\ bulk.at = 1 /\ bulk.from = 0 /\ bulk.acc = <<>> /\ bulk.errs = <<>>
                           /\ ~bulk.failed /\ wfaults = plan.faults
    /\ writer # "queue" => bulk.next = Len(W!Queued) + 1
    /\ writer \in {"acquire", "done"} => bulk.from = 0 /\ bulk.acc = <<>>
    /\ writer = "write" => /\ bulk.from < Len(W!Current.docs)
                           /\ ~W!Splits => bulk.acc = <<>>
                           /\ ~W!Splits /\ ~W!OneByOne => bulk.from = 0
                           /\ plan.ordered /\ W!Telling => ~bulk.failed /\ bulk.acc = <<>>
    /\ writer = "acquire" /\ plan.ordered /\ W!Telling => ~bulk.failed
    /\ writer = "done" /\ (~plan.ordered \/ ~bulk.failed) => bulk.at = Len(bulk.actions) + 1
    /\ wfaults <= plan.faults

(* What was sent was done once, or was reported.                           *)
DoneInv ==
    /\ applied \in Seq(Operations) /\ Injective(applied) /\ ToSet(applied) \subseteq AllOps(bulk)
    /\ writer # "crashed" => ToSet(applied) \subseteq SentOps(bulk)
    /\ W!Telling /\ ~W!BatchLost /\ ~bulk.failed /\ bulk.acc = <<>> /\ writer # "crashed" => SentOps(bulk) \subseteq ToSet(applied)
    /\ bulk.acc \in Seq(Reports) /\ bulk.errs \in Seq(Reports)
    /\ ~plan.ordered /\ plan.command /\ plan.safe /\ wfaults = plan.faults =>
         ToSet(bulk.errs) \cup ToSet(bulk.acc) = SentOps(bulk) \ ToSet(applied)

(* What an ordered bulk did is the beginning of what was queued up, to the *)
(* place it has come to.                                                   *)
OrderInv ==
    plan.ordered =>
      \E s \in [1..(Len(bulk.actions) + 1) -> 0..(bulk.next - 1)] :
        /\ Starts(bulk, s)
        /\ W!Telling => Begins(applied, W!Queued)
        /\ W!Telling /\ writer \in {"acquire", "write"} => Len(applied) = s[bulk.at] + bulk.from

BulkInv == ~plan.single => Sorted(bulk) /\ PlaceInv /\ DoneInv /\ OrderInv

(* What single operations were told.                                       *)
Tellings == [result : [op : Operations, err : {"nil", "write", "net", "concern", "notFound"}, changed : Nat, upserted : BOOLEAN],
             before : SUBSET Documents, after : SUBSET Documents]

IsTrue(t) ==
    LET r == t.result
        d == r.op.doc
    IN  /\ r.err = "notFound" => d \notin t.before /\ t.after = t.before
        /\ r.err = "nil" => /\ r.op.op \in {"update", "remove"} => d \in t.before
                            /\ r.op.op \in {"remove", "removeAll"} => d \notin t.after
                            /\ r.op.op \in {"insert", "upsert"} => d \in t.after
                            /\ r.op.op = "upsert" => (r.upserted <=> d \notin t.before)

TellInv == told \in Seq(Tellings) /\ (plan.safe => \A i \in 1..Len(told) : IsTrue(told[i]))

-----------------------------------------------------------------------------
(* Where the server is with a message.                                     *)

Carryings == {r \in [docs : SUBSET Documents, done : Seq(Operations), errors : Seq(Operations), n : Nat,
                     upserted : BOOLEAN, stop : BOOLEAN, goOn : BOOLEAN] : Contents(r.docs)}

(* What the server has done and rejected after i of the operations.        *)
ProgressOf(ops, goOn, i, done, errors, stop) ==
    /\ goOn => ~stop
    /\ \A j \in 1..Len(done) : \E k \in 1..i : done[j] = ops[k]
    /\ \A j \in 1..Len(errors) : \E k \in 1..i : errors[j] = ops[k]
    /\ Injective(ops) => /\ Injective(done)
                         /\ \A j \in 1..Len(done) : \A k \in 1..Len(errors) : done[j] # errors[k]
    /\ ~stop => \A k \in 1..i : \/ \E j \in 1..Len(done) : done[j] = ops[k]
                                \/ \E j \in 1..Len(errors) : errors[j] = ops[k]
    /\ ~goOn => /\ Begins(done, ops)
                /\ errors = <<>> <=> ~stop
                /\ ~stop => Len(done) = i
    /\ (\A k \in 1..Len(ops) : ops[k] \notin plan.rejected /\ ops[k].op # "insert") => errors = <<>>
Progress(ops, goOn, i, r) == r.goOn = goOn /\ ProgressOf(ops, goOn, i, r.done, r.errors, r.stop)

(* What is known of the outcome of sending ops: o.r.done are done,         *)
(* o.r.errors are the errors it comes back with.                           *)
OutcomeOk(ops, goOn, o) ==
    /\ o.r.done \in Seq(Operations) /\ o.r.errors \in Seq(Operations)
    /\ o.err \in {"nil", "write", "net", "concern"} /\ (o.fault <=> o.err \in {"net", "concern"})
    /\ o.fault => wfaults > 0
    /\ o.err = "concern" => plan.command
    /\ \A j \in 1..Len(o.r.done) : \E k \in 1..Len(ops) : o.r.done[j] = ops[k]
    /\ Injective(ops) => Injective(o.r.done)
    /\ ~goOn => Begins(o.r.done, ops)
    /\ o.err = "nil" /\ plan.safe => /\ o.r.errors = <<>>
                                     /\ \A k \in 1..Len(ops) : \E j \in 1..Len(o.r.done) : o.r.done[j] = ops[k]
                                     /\ ~goOn => Len(o.r.done) = Len(ops)
    /\ o.err = "write" => o.r.errors # <<>>
    /\ ~o.fault => \A j \in 1..Len(o.r.errors) : \E k \in 1..Len(ops) : o.r.errors[j] = ops[k]
    /\ ~o.fault /\ Injective(ops) =>
         \A j \in 1..Len(o.r.done) : \A k \in 1..Len(o.r.errors) : o.r.done[j] # o.r.errors[k]
    /\ ~o.fault /\ goOn => \A k \in 1..Len(ops) : \/ \E j \in 1..Len(o.r.done) : o.r.done[j] = ops[k]
                                                  \/ \E j \in 1..Len(o.r.errors) : o.r.errors[j] = ops[k]
    /\ (\A k \in 1..Len(ops) : ops[k] \notin plan.rejected /\ ops[k].op # "insert") => o.err # "write"

-----------------------------------------------------------------------------
(* What was written is read.                                               *)

Removed(op, d) == op.doc = d /\ W!Kind(op.op) = "remove"

(* A document that was inserted by one of s is in D, or was removed later. *)
Kept(s, D) == \A i \in 1..Len(s) : s[i].op = "insert" =>
                s[i].doc \in D \/ \E j \in 1..Len(s) : i < j /\ Removed(s[j], s[i].doc)

Has(s, D) == \A d \in D : \E i \in 1..Len(s) : s[i] = d

ReadInv ==
    /\ applied \in Seq(Operations) /\ Kept(applied, collection)
    /\ reading => writer = "done"
    /\ R!Regular => /\ reading => Has(stored, collection)
                    /\ ended = "exhausted" /\ ~closed /\ query.limit = 0 => Has(returned, collection)

-----------------------------------------------------------------------------
(* What the proofs say of the operations, part by part.                    *)

(* A ring given by its parts.                                              *)
RingOf(cap, e, n, popi, pushi) ==
    /\ cap \in Nat /\ e \in [0..(cap - 1) -> Int] /\ n \in 0..cap /\ popi \in Nat /\ pushi \in Nat
    /\ cap = 0 => popi = 0 /\ pushi = 0
    /\ cap > 0 => popi < cap /\ pushi = IF popi + n < cap THEN popi + n ELSE popi + n - cap

Pushed(p, q, x) == p = [q EXCEPT !.elems[q.pushi] = x, !.nelems = @ + 1, !.pushi = (@ + 1) % R!Slots(q)]

Rings == {q \in [elems : UNION {[0..(c - 1) -> Int] : c \in Nat}, nelems : Nat, popi : Nat, pushi : Nat] : Ring(q)}

Increasing(s) == \A i, j \in DOMAIN s : i < j => s[i] < s[j]

(* An iterator.                                                            *)
Typed(it) ==
    it \in [err : R!Errs, docsToReceive : Nat, docsBeforeMore : Int, limit : Nat, opLimit : Int,
            cursorId : 0..1, docData : {it.docData}, timedout : BOOLEAN]

(* The iterator is in use, which its steps do not change.                  *)
InUse == reading /\ UNCHANGED <<query, reading>> /\ panic = "none"

(* Caller c, and nobody else, is now at pc.                                *)
Moved(c, pc) ==
    /\ app' \in [Callers -> [pc : R!Pcs, left : Nat]] /\ app'[c].pc = pc
    /\ \A d \in Callers : d # c => app'[d] = app[d]

(* Without a document, with one that is an error, and with another one.    *)
DeliversNothing(c, it) ==
    /\ iter' = [it EXCEPT !.err = IF @ = "nil" THEN "notFound" ELSE @]
    /\ R!Go(c, "close")
    /\ ended' = IF it.err \in {"nil", "notFound"} THEN (IF ended = "no" THEN "exhausted" ELSE ended) ELSE "error"
    /\ UNCHANGED <<returned, panic>>

Popped(new, it) ==
    /\ Typed(new) /\ new.cursorId = it.cursorId /\ new.opLimit = it.opLimit /\ new.docData = R!Pop(it.docData)
    /\ new.limit = IF it.limit > 0 THEN it.limit - 1 ELSE 0

DeliversError(c, it) ==
    /\ Popped(iter', it)
    /\ it.cursorId = 0 =>
         /\ iter'.err = (IF it.limit = 1 THEN "notFound" ELSE IF it.err = "nil" THEN "query" ELSE it.err)
         /\ iter'.docsToReceive = it.docsToReceive /\ iter'.docsBeforeMore = it.docsBeforeMore
    /\ ended' = IF iter'.err = "notFound" THEN (IF ended = "no" THEN "exhausted" ELSE ended) ELSE "error"
    /\ R!Go(c, "close") /\ UNCHANGED <<returned, panic>>

Asks(it) == it.cursorId # 0 /\ it.err = "nil" /\ it.limit # 1
DeliversDoc(c, it) ==
    /\ Popped(iter', it)
    /\ iter'.err = (IF it.limit = 1 THEN "notFound" ELSE it.err)
    /\ iter'.docsBeforeMore = IF Asks(it) THEN it.docsBeforeMore - 1 ELSE it.docsBeforeMore
    /\ iter'.docsToReceive = IF Asks(it) /\ it.docsBeforeMore = 0 THEN it.docsToReceive + 1 ELSE it.docsToReceive
    /\ returned' = Append(returned, Item(it.docData, 1))
    /\ IF it.limit = 1 THEN R!Go(c, "limitClose")
       ELSE IF Asks(it) /\ it.docsBeforeMore = 0 THEN R!Go(c, "prefetch")
       ELSE R!ReturnTrue(c)
    /\ UNCHANGED <<ended, panic>>

(* Documents are left and the limit is reached.                            *)
TooMany(it) == it.limit = 1 /\ it.docData.nelems > 1

(* The first document of the first reply is taken from it.                 *)
Taken ==
    /\ replies # <<>> /\ Head(replies).docs # <<>>
    /\ replies' = IF Len(Head(replies).docs) = 1 THEN Tail(replies)
                  ELSE <<[Head(replies) EXCEPT !.docs = Tail(@)]>> \o Tail(replies)

(* y is a possible answer to request m, and what becomes of the cursor.    *)
Final(m) == m.op = "query" /\ (m.limit < 0 \/ m.limit = 1)
Serves(m, y) ==
    /\ y \in Replies /\ Whole(y) /\ (y.notFound => y.docs = <<>> /\ y.cursorId = 0)
    /\ cursor' \in [state : {"none", "open", "gone"}, pos : 0..Len(stored)]
    /\ ~Failing =>
         /\ cursor'.pos = cursor.pos + Len(y.docs)
         /\ \A i \in DOMAIN y.docs : y.docs[i] = stored[cursor.pos + i]
         /\ m.limit # 0 => Len(y.docs) <= R!LimitOf(m.limit)
         /\ y.cursorId = 0 /\ ~y.notFound =>
              /\ cursor'.state = "gone"
              /\ cursor'.pos = Len(stored) \/ (Final(m) /\ Len(y.docs) = R!LimitOf(m.limit))
    /\ Failing => /\ y = [docs |-> <<R!ErrorDoc>>, total |-> 1, cursorId |-> 0, notFound |-> FALSE]
                  /\ cursor'.state # "open" /\ cursor'.pos = cursor.pos
    /\ cursor'.state = "open" => (m.op = "query" /\ y.cursorId = 1) \/ (m.op = "getMore" /\ cursor.state = "open")
    /\ m.op = "query" /\ m.limit < 0 => y.cursorId = 0 /\ cursor'.state # "open"

(* What came is within the limit, or the iterator is no longer regular.    *)
Measured(y) ==
    \/ UNCHANGED astray /\ (~Limited \/ y.docs = <<>> \/ cursor'.pos <= Limit)
    \/ astray' = astray \union {"overrun"} /\ Limited /\ cursor'.pos > Limit

(* The iterator has the first batch of a command, q, of n documents.       *)
Begun(n, err, q, id) ==
    /\ iter' = [err |-> err, docsToReceive |-> 0, docsBeforeMore |-> 0, limit |-> 0, opLimit |-> 0,
                cursorId |-> id, docData |-> q, timedout |-> FALSE]
    /\ cursor'.pos = n /\ cursor' \in [state : {"none", "open", "gone"}, pos : 0..Len(stored)]
    /\ faults' \in 0..query.faults
    /\ Ring(q) /\ q.nelems = n /\ \A i \in 1..n : Item(q, i) = stored[i]
    /\ id = 1 <=> cursor'.state = "open"
    /\ err = "nil" /\ id = 0 => cursor'.state = "gone" /\ n = Len(stored)

(* The parts of a bulk that change slowly.                                 *)
WritesTyped(b) == b.actions \in Seq(Actions) /\ b.at \in Nat /\ b.from \in Nat

(* The operations on their way in a message.                               *)
Between(b, n) == {x \in Operations : \E k \in 1..Len(b.actions[b.at].docs) :
                    x = b.actions[b.at].docs[k] /\ b.from < k /\ k <= n}
=============================================================================
