------------------------------- MODULE Writes -------------------------------
(***************************************************************************)
(* Writing to a collection with llmgo: bulk.go and the writing half of     *)
(* session.go.  A goroutine queues up operations in a Bulk and runs them,  *)
(* or runs each by itself; writeOp sends them as write commands, in        *)
(* batches, or to an old server one by one followed by getLastError.       *)
(*                                                                         *)
(* One action is one exchange with the server.  An operation names the     *)
(* document it selects; the server rejects some operations.                *)
(***************************************************************************)
EXTENDS Integers, Sequences, FiniteSets, SequencesExt

CONSTANT
    BatchMax      \* documents in one insert command, 1000 in the code

VARIABLES
    plan,        \* the operations, the server's version, the session's mode
    collection,  \* the documents at the server
    bulk,        \* Bulk, and the state of its Run
    writer,      \* where the goroutine is
    applied,     \* operations the server carried out, oldest first
    told,        \* what single operations returned
    wfaults      \* how many failures the environment may still inject

writeVars == <<plan, collection, bulk, writer, applied, told, wfaults>>

Op(op, doc) == [op |-> op, doc |-> doc]
Kind(op) == IF op \in {"update", "updateAll", "upsert"} THEN "update"
            ELSE IF op \in {"remove", "removeAll"} THEN "remove" ELSE "insert"
Queued == [i \in DOMAIN plan.calls |-> Op(plan.calls[i].op, plan.calls[i].doc)]

NewBulk == [actions |-> <<>>, next |-> 1, at |-> 1, from |-> 0, acc |-> <<>>,
            errs |-> <<>>, failed |-> FALSE, matched |-> 0]

Init ==
    /\ bulk = NewBulk /\ writer = "queue"
    /\ applied = <<>> /\ told = <<>>

-----------------------------------------------------------------------------
(* Bulk.action: where an operation is queued up.                           *)
action(actions, kind) ==
    LET last == Len(actions)
        same == {i \in 1..last : actions[i].op = kind}
    IN  IF last \in same THEN last
        ELSE IF ~plan.ordered /\ same # {} THEN CHOOSE i \in same : \A j \in same : i <= j
        ELSE last + 1

(* Insert, Remove, RemoveAll, Update, UpdateAll and Upsert of a Bulk.      *)
Queue ==
    /\ writer = "queue" /\ ~plan.single /\ bulk.next <= Len(Queued)
    /\ LET op == Queued[bulk.next]
           i == action(bulk.actions, Kind(op.op))
           new == [op |-> Kind(op.op), docs |-> <<>>]
           actions == IF i > Len(bulk.actions) THEN Append(bulk.actions, new) ELSE bulk.actions
       IN  bulk' = [bulk EXCEPT !.actions = [actions EXCEPT ![i].docs = Append(@, op)],
                                !.next = @ + 1]
    /\ UNCHANGED <<plan, collection, writer, applied, told, wfaults>>

-----------------------------------------------------------------------------
(* The server: operations one after the other, up to the first it rejects  *)
(* unless it is told to continue.                                          *)
Carry(r, op) ==
    LET there == op.doc \in r.docs
        bad == op \in plan.rejected \/ (op.op = "insert" /\ there)
        n == IF op.op # "insert" /\ (there \/ op.op = "upsert") THEN 1 ELSE 0
    IN  IF r.stop THEN r
        ELSE IF bad THEN [r EXCEPT !.errors = Append(@, op), !.stop = ~r.goOn]
        ELSE [r EXCEPT !.docs = IF Kind(op.op) = "remove" THEN @ \ {op.doc}
                                ELSE IF op.op \in {"insert", "upsert"} THEN @ \union {op.doc} ELSE @,
                       !.done = Append(@, op),
                       !.n = @ + n,
                       !.upserted = @ \/ (op.op = "upsert" /\ ~there)]

Carried(ops, goOn) ==
    LET upTo[i \in 0..Len(ops)] ==
          IF i = 0 THEN [docs |-> collection, done |-> <<>>, errors |-> <<>>, n |-> 0,
                         upserted |-> FALSE, stop |-> FALSE, goOn |-> goOn]
          ELSE Carry(upTo[i - 1], ops[i])
    IN  upTo[Len(ops)]

(* What one exchange comes to: the server's answer, an answer with a write *)
(* concern error, or none, and then nothing or everything may be done.     *)
Outcomes(ops, goOn) ==
    LET r == Carried(ops, goOn)
        none == [r EXCEPT !.docs = collection, !.done = <<>>, !.errors = <<>>, !.n = 0]
    IN  {[r |-> r, err |-> IF r.errors # <<>> /\ plan.safe THEN "write" ELSE "nil", fault |-> FALSE]}
        \union (IF wfaults = 0 THEN {}
                ELSE {[r |-> none, err |-> "net", fault |-> TRUE],
                      [r |-> [r EXCEPT !.errors = <<>>, !.n = 0], err |-> "net", fault |-> TRUE]}
                     \union (IF r.errors = <<>> /\ plan.command /\ plan.safe
                             THEN {[r |-> r, err |-> "concern", fault |-> TRUE]} ELSE {}))

Exchange(o) ==
    /\ collection' = o.r.docs
    /\ applied' = applied \o o.r.done
    /\ wfaults' = IF o.fault THEN wfaults - 1 ELSE wfaults

-----------------------------------------------------------------------------
(* Run: the queued actions, one after the other.                           *)
Run ==
    /\ writer = "queue" /\ ~plan.single /\ bulk.next > Len(Queued)
    /\ writer' = IF bulk.actions = <<>> THEN "done" ELSE "acquire"
    /\ UNCHANGED <<plan, collection, bulk, applied, told, wfaults>>

Current == bulk.actions[bulk.at]

(* Plausible bug: only the errors of the last action are kept.             *)
checkSuccess_KeepsLast(b, errors, err, n) ==
    LET new == IF errors # <<>> THEN errors ELSE IF err # "nil" THEN <<Op(err, 0)>> ELSE <<>>
    IN  /\ bulk' = [b EXCEPT !.errs = new, !.failed = @ \/ new # <<>>, !.matched = @ + n,
                             !.at = @ + 1, !.from = 0, !.acc = <<>>]
        /\ writer' = IF b.at = Len(b.actions) \/ (new # <<>> /\ plan.ordered) THEN "done" ELSE "acquire"

(* checkSuccess and the end of an action: lerr.errors before err.          *)
checkSuccess(b, errors, err, n) ==
    LET new == IF errors # <<>> THEN errors ELSE IF err # "nil" THEN <<Op(err, 0)>> ELSE <<>>
        failed == b.failed \/ new # <<>>
        over == b.at = Len(b.actions) \/ (new # <<>> /\ plan.ordered)
    IN  /\ bulk' = [b EXCEPT !.errs = @ \o new, !.failed = failed, !.matched = @ + n,
                             !.at = @ + 1, !.from = 0, !.acc = <<>>]
        /\ writer' = IF over THEN "done" ELSE "acquire"

Acquire ==
    /\ writer = "acquire" /\ writer' = "write"
    /\ UNCHANGED <<plan, collection, bulk, applied, told, wfaults>>

AcquireFails ==
    /\ writer = "acquire" /\ wfaults > 0 /\ wfaults' = wfaults - 1
    /\ checkSuccess(bulk, <<>>, "net", 0)
    /\ UNCHANGED <<plan, collection, applied, told>>

(* writeOp: inserts are sent in batches; an old server gets updates and    *)
(* removals one by one.                                                    *)
Large(a) == plan.command /\ a.op = "insert" /\ Len(a.docs) > BatchMax
Splits == Large(Current)
OneByOne == ~plan.command /\ Current.op # "insert"
Part ==
    LET size == IF Splits THEN BatchMax ELSE IF OneByOne THEN 1 ELSE Len(Current.docs)
        to == bulk.from + size
    IN  SubSeq(Current.docs, bulk.from + 1, IF to > Len(Current.docs) THEN Len(Current.docs) ELSE to)

(* writeOpCommand and the end of writeOp.                                  *)
writeOpCommand ==
    /\ writer = "write" /\ plan.command
    /\ \E o \in Outcomes(Part, ~plan.ordered) :
          LET errors == IF o.err = "write" THEN o.r.errors ELSE <<>>
              acc == bulk.acc \o errors
              last == bulk.from + Len(Part) = Len(Current.docs)
              n == IF plan.safe /\ Current.op # "insert" THEN o.r.n ELSE 0
          IN  /\ Exchange(o)
              /\ IF ~Splits THEN checkSuccess(bulk, errors, o.err, n)
                 ELSE IF o.err # "nil" /\ plan.ordered THEN checkSuccess(bulk, acc, o.err, 0)
                 ELSE IF last THEN checkSuccess(bulk, acc, IF acc = <<>> THEN "nil" ELSE "write", 0)
                 ELSE /\ bulk' = [bulk EXCEPT !.acc = acc, !.from = @ + Len(Part)]
                      /\ UNCHANGED writer
    /\ UNCHANGED <<plan, told>>

(* writeOpQuery: getLastError's answer has no list of errors, and writeOp  *)
(* only looks at that list for an update or a removal; without an answer   *)
(* it has no result to look at.                                            *)
writeOpQuery ==
    /\ writer = "write" /\ ~plan.command
    /\ \E o \in Outcomes(Part, ~plan.ordered) :
          LET last == bulk.from + Len(Part) = Len(Current.docs)
          IN  /\ Exchange(o)
              /\ IF ~OneByOne THEN checkSuccess(bulk, <<>>, o.err, 0)
                 ELSE IF o.err = "net" THEN writer' = "crashed" /\ UNCHANGED bulk
                 ELSE IF last \/ (o.err # "nil" /\ plan.ordered) THEN checkSuccess(bulk, <<>>, "nil", 0)
                 ELSE /\ bulk' = [bulk EXCEPT !.from = @ + 1]
                      /\ UNCHANGED writer
    /\ UNCHANGED <<plan, told>>

-----------------------------------------------------------------------------
(* Collection.Insert, Update, UpdateAll, Upsert, Remove and RemoveAll: one *)
(* operation and what is made of the LastError.                            *)
Made(op, o) ==
    LET known == o.err = "nil" /\ plan.safe
        existing == o.r.n > 0 /\ ~o.r.upserted
    IN  [op |-> op,
         err |-> IF known /\ ((op.op = "update" /\ ~existing) \/ (op.op = "remove" /\ o.r.n = 0))
                 THEN "notFound" ELSE o.err,
         changed |-> IF known /\ (op.op \in {"updateAll", "removeAll"} \/ (op.op = "upsert" /\ existing)) THEN o.r.n ELSE 0,
         upserted |-> known /\ op.op = "upsert" /\ ~existing]

Single ==
    /\ writer = "queue" /\ plan.single /\ bulk.next <= Len(Queued)
    /\ LET op == Queued[bulk.next]
       IN  \E o \in Outcomes(<<op>>, FALSE) :
             /\ Exchange(o)
             /\ told' = Append(told, [result |-> Made(op, o), before |-> collection, after |-> collection'])
    /\ bulk' = [bulk EXCEPT !.next = @ + 1]
    /\ writer' = IF bulk.next = Len(Queued) THEN "done" ELSE writer
    /\ UNCHANGED plan

WriterDone == writer \in {"done", "crashed"}

Next ==
    Queue \/ Run \/ Acquire \/ AcquireFails \/ writeOpCommand \/ writeOpQuery \/ Single

-----------------------------------------------------------------------------
TypeOK ==
    /\ writer \in {"queue", "acquire", "write", "done", "crashed"}
    /\ bulk.next \in 1..Len(Queued) + 1 /\ bulk.at \in 1..Len(bulk.actions) + 1
    /\ bulk.failed \in BOOLEAN /\ bulk.matched \in Nat /\ wfaults \in Nat
    /\ \A i \in DOMAIN bulk.actions : bulk.actions[i].docs # <<>>

Report == writer = "done" /\ ~plan.single

(* Errors reach the client.  Without a safe mode they do not, nor does the *)
(* error of an update or a removal in a bulk at an old server: getLastError*)
(* has no list of errors, which is all that writeOp looks at               *)
(* (session.go:4391).                                                      *)
Telling == plan.safe /\ (plan.command \/ \A op \in plan.rejected : op.op = "insert")

(* A batch of an unordered insert whose message was lost has no list of    *)
(* errors either, and its error is dropped (session.go:4372).              *)
BatchLost == ~plan.ordered /\ wfaults # plan.faults /\ \E i \in DOMAIN bulk.actions : Large(bulk.actions[i])

(* An ordered bulk is carried out in the order in which it was queued up,  *)
(* without gaps, and stops at the first failure, also where a large insert *)
(* is split into batches; in any mode nothing is carried out twice.        *)
OrderedIsPrefix ==
    ~plan.single =>
      /\ plan.ordered /\ Telling => IsPrefix(applied, Queued)
      /\ \A i, j \in DOMAIN applied : i # j => applied[i] # applied[j]
      /\ ToSet(applied) \subseteq ToSet(Queued)

(* Run returns no error only if everything that was queued up was done,    *)
(* whatever was split, merged, lost or rejected (session.go:4342, writeOp: *)
(* "if lerr.Err is set it will also be returned as err").                  *)
SuccessMeansApplied ==
    Report /\ ~bulk.failed /\ Telling /\ ~BatchLost => ToSet(applied) = ToSet(Queued)

(* An unordered bulk goes on after an error and reports each of them       *)
(* (bulk.go:228), in whichever batch or action it occurred.                *)
AllErrorsAreReported ==
    Report /\ ~plan.ordered /\ plan.command /\ plan.safe /\ wfaults = plan.faults =>
      ToSet(bulk.errs) = ToSet(Queued) \ ToSet(applied)

(* ErrNotFound and a nil error of Update, Upsert and Remove are true: the  *)
(* document was not there and nothing changed, or the change was made.     *)
SinglesTellTheTruth ==
    plan.safe => \A i \in DOMAIN told :
      LET t == told[i]
          r == t.result
          d == r.op.doc
      IN  /\ r.err = "notFound" => d \notin t.before /\ t.after = t.before
          /\ r.err = "nil" => /\ r.op.op \in {"update", "remove"} => d \in t.before
                              /\ r.op.op \in {"remove", "removeAll"} => d \notin t.after
                              /\ r.op.op \in {"insert", "upsert"} => d \in t.after
                              /\ r.op.op = "upsert" => (r.upserted <=> d \notin t.before)
=============================================================================
