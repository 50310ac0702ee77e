--------------------------------- MODULE Txn ---------------------------------
(***************************************************************************)
(* The transaction runner of llmgo/txn (flusher.go, txn.go, tarjan.go,     *)
(* chaos.go): multi-document transactions on a store that updates one      *)
(* document at a time.  A transaction puts a token on the queue of each of *)
(* its documents, then agrees with whoever else works on it, by            *)
(* conditional updates of its own record, on its nonce, on the revisions   *)
(* it applies to and on its outcome.  Several runners work on the same     *)
(* transactions at once, finish those of runners that were killed, and     *)
(* order transactions that wait for each other.                            *)
(*                                                                         *)
(* One action is one request to the database with the local computation    *)
(* that follows it.  A runner's stack holds the calls of run, recurse and  *)
(* advance; loadAndApply is an advance called from within an advance.      *)
(***************************************************************************)
EXTENDS Integers, Sequences, FiniteSets, FiniteSetsExt, SequencesExt

CONSTANTS
    Txns,        \* transaction ids, a set of positive integers
    Docs,        \* document keys, a set of positive integers
    Runners,     \* processes that run and resume transactions
    Workloads,   \* by name: what the transactions do, which documents exist and,
                 \* as a bound, how often a runner is killed or is asked to
                 \* resume what another one works on
    Retries      \* const retries of rescan, 3 in the code

OpRecords == [doc : Docs, kind : {"update", "insert", "remove", "assert"},
              assert : {"none", "missing", "exists"}]

ASSUME TxnsAssumption == Txns \subseteq Nat \ {0} /\ IsFiniteSet(Txns)
ASSUME DocsAssumption == Docs \subseteq Nat \ {0}
ASSUME RetriesAssumption == Retries \in Nat
(* What Run requires of ops, and assert of an insert.  A transaction has   *)
(* at least one operation: without any it touches no document.             *)
ASSUME WorkloadsAssumption ==
    \A w \in DOMAIN Workloads :
      /\ Workloads[w].exist \subseteq Docs /\ Workloads[w].faults \in Nat
      /\ \A t \in Txns :
           /\ Workloads[w].ops[t] \in Seq(OpRecords) \ {<<>>}
           /\ \A i \in DOMAIN Workloads[w].ops[t] :
                LET o == Workloads[w].ops[t][i]
                IN  /\ o.kind = "assert" => o.assert # "none"
                    /\ o.kind = "insert" => o.assert # "exists"

VARIABLES
    work,      \* the name of the workload
    txns,      \* the transaction collection: state, nonce and revnos
    docs,      \* the documents, as far as the runner sees them
    stash,     \* the stash collection, for documents that do not exist
    stack,     \* the calls of each runner, innermost last
    queue,     \* flusher.queue: the queues last read by each runner
    seen,      \* the transactions its recurse has visited, as last read
    nonces,    \* how many nonces were made for each transaction
    faults,    \* how many runners were killed or set on another one's work
    outcome,   \* how the last flush of each runner ended
    log        \* history: the transactions that changed each document

vars == <<work, txns, docs, stash, stack, queue, seen, nonces, faults, outcome, log>>

States == {"none", "preparing", "prepared", "applying", "aborting", "applied", "aborted"}
Done == {"applied", "aborted"}

NoTxn == [id |-> 0, s |-> "none", n |-> 0, r |-> <<>>]
NoDoc == [in |-> FALSE, revno |-> 0, queue |-> <<>>, mark |-> 0]
NoStash == [in |-> FALSE, revno |-> 0, queue |-> <<>>, mark |-> 0, n |-> {}]

NothingSeen == [t \in Txns |-> NoTxn]
NothingRead == [d \in Docs |-> <<>>]

EmptyFrame == [pc |-> "advance", t |-> NoTxn, pull |-> {}, force |-> FALSE, i |-> 0, retry |-> 0,
               tt |-> <<0, 0>>, revno |-> [d \in Docs |-> 0], revnos |-> <<>>, nonce |-> 0,
               copy |-> <<>>]

Init ==
    /\ work \in DOMAIN Workloads
    /\ docs = [d \in Docs |-> [NoDoc EXCEPT !.in = (d \in Workloads[work].exist)]]
    /\ txns = [t \in Txns |-> NoTxn]
    /\ stash = [d \in Docs |-> NoStash]
    /\ stack = [r \in Runners |-> <<>>]
    /\ queue = [r \in Runners |-> NothingRead]
    /\ seen = [r \in Runners |-> NothingSeen]
    /\ nonces = [t \in Txns |-> 0]
    /\ faults = 0
    /\ outcome = [r \in Runners |-> "ok"]
    /\ log = [d \in Docs |-> <<>>]

-----------------------------------------------------------------------------
(* Tokens, keys and revisions.                                             *)

(* The operations of each transaction.                                     *)
ops == Workloads[work].ops

Keys(t) == {ops[t][i].doc : i \in DOMAIN ops[t]}

(* The next of the transaction's documents in sorted order, 0 at the end.  *)
docKeys(t, after) == LET later == {d \in Keys(t) : d > after}
                     IN  IF later = {} THEN 0 ELSE Min(later)

token(t) == <<t.id, t.n>>
hasToken(tokens, tt) == \E k \in DOMAIN tokens : tokens[k] = tt
addToSet(tokens, tt) == IF hasToken(tokens, tt) THEN tokens ELSE Append(tokens, tt)

(* The items of a sequence that are in S, in order.                        *)
Keep(s, S) ==
    LET kept[k \in 0..Len(s)] ==
          IF k = 0 THEN <<>> ELSE IF s[k] \in S THEN Append(kept[k - 1], s[k]) ELSE kept[k - 1]
    IN  kept[Len(s)]
pullAll(tokens, gone) == Keep(tokens, ToSet(tokens) \ gone)

tokensToPull(dqueue, pull, dontPull) ==
    {x \in ToSet(dqueue) : x[1] \in pull /\ x # dontPull}

(* The revision an operation leaves its document at.  Negative revisions   *)
(* are those of documents that do not exist.                               *)
NextRevno(op, revno) ==
    CASE op.kind = "insert" /\ revno < 0  -> -revno + 1
      [] op.kind = "update" /\ revno >= 0 -> revno + 1
      [] op.kind = "remove" /\ revno >= 0 -> -revno - 1
      [] OTHER -> revno

(* The revision each operation of a transaction finds its document at:     *)
(* that after the operations before it.                                    *)
assembledRevnos(o, revno) ==
    LET after[k \in 0..Len(o)] ==
          IF k = 0 THEN revno ELSE [after[k - 1] EXCEPT ![o[k].doc] = NextRevno(o[k], @)]
    IN  [i \in 1..Len(o) |-> after[i - 1][o[i].doc]]

(* Tokens of other transactions before tt in the queues of its documents,  *)
(* and whether tt is in all of them.                                       *)
Before(q, tt) == IF hasToken(q, tt) THEN SubSeq(q, 1, (CHOOSE k \in DOMAIN q : q[k] = tt) - 1) ELSE q
prereqs(q, tt) == \E d \in Keys(tt[1]) : LET b == Before(q[d], tt)
                                         IN  \E k \in DOMAIN b : b[k][1] # tt[1]
found(q, tt) == \A d \in Keys(tt[1]) : hasToken(q[d], tt)

-----------------------------------------------------------------------------
(* Calls and returns.                                                      *)

Top(r) == Last(stack[r])
At(r, pc) == stack[r] # <<>> /\ Top(r).pc = pc
SetTop(r, f) == stack' = [stack EXCEPT ![r] = Append(Front(@), f)]
Call(r, f, callee) == stack' = [stack EXCEPT ![r] = Append(Append(Front(@), f), callee)]

(* pull is nil in most calls; apply and abortOrReload then use {t}.        *)
AdvanceFrame(t, pull, force) == [EmptyFrame EXCEPT !.t = t, !.pull = pull, !.force = force]
Again(f, t) == AdvanceFrame(t, f.pull, f.force)
loadAndApply(id) == AdvanceFrame(txns[id], {id}, TRUE)

InAdvance(f) == f.pc \notin {"recurse", "run", "order"}

(* advance returns.  Its caller keeps the pointer to t, unless it is       *)
(* loadAndApply; recurse goes on with the pre-requisites if there are any. *)
Return(r, f, hasPreReqs) ==
    LET rest == Front(stack[r])
        caller == Last(rest)
    IN  IF InAdvance(caller)
        THEN stack' = [stack EXCEPT ![r] = rest] /\ UNCHANGED seen
        ELSE /\ seen' = [seen EXCEPT ![r][f.t.id] = f.t]
             /\ stack' = [stack EXCEPT ![r] =
                  Append(Front(rest), IF hasPreReqs THEN [caller EXCEPT !.i = 0] ELSE caller)]

(* flush returns, with an error that goes up through all calls or without. *)
Leave(r, what) ==
    /\ stack' = [stack EXCEPT ![r] = <<>>]
    /\ queue' = [queue EXCEPT ![r] = NothingRead]
    /\ seen' = [seen EXCEPT ![r] = NothingSeen]
    /\ outcome' = [outcome EXCEPT ![r] = what]

-----------------------------------------------------------------------------
(* run and recurse.                                                        *)

RecurseFrame(id) == [pc |-> "recurse", id |-> id, i |-> -1, todo |-> <<>>]

flush(r, t) ==
    /\ stack' = [stack EXCEPT ![r] =
         << [pc |-> "run", id |-> t.id, todo |-> <<>>],
            RecurseFrame(t.id),
            AdvanceFrame(t, {t.id}, FALSE) >>]
    /\ seen' = [seen EXCEPT ![r] = [NothingSeen EXCEPT ![t.id] = t]]
    /\ UNCHANGED <<queue, outcome>>

Run(r, id) ==
    /\ stack[r] = <<>> /\ txns[id].s = "none"
    /\ LET t == [id |-> id, s |-> "preparing", n |-> 0, r |-> <<>>]
       IN  txns' = [txns EXCEPT ![id] = t] /\ flush(r, t)
    /\ UNCHANGED <<work, docs, stash, nonces, faults, log>>

Attended(id) == \E r \in Runners : stack[r] # <<>> /\ stack[r][1].id = id
Resume(r, id) ==
    /\ stack[r] = <<>> /\ txns[id].s \notin Done \cup {"none"}
    /\ IF Attended(id) THEN faults < Workloads[work].faults /\ faults' = faults + 1 ELSE UNCHANGED faults
    /\ flush(r, txns[id])
    /\ UNCHANGED <<work, txns, docs, stash, nonces, log>>

(* The next transaction to visit among the tokens of t's queues: the rest  *)
(* of the queue recurse ranges over, then the queues of the next documents.*)
(* i is the document it is at, -1 when advance did not ask for it.         *)
Unseen(r, ids) == Keep(ids, {id \in Txns : seen[r][id].id = 0})
IdsOf(q) == [k \in DOMAIN q |-> q[k][1]]
NextToVisit(r, f) ==
    LET left == Unseen(r, f.todo)
        more == {d \in Keys(f.id) : d > f.i /\ Unseen(r, IdsOf(queue[r][d])) # <<>>}
    IN  CASE f.i < 0 -> [id |-> 0]
          [] f.i >= 0 /\ left # <<>> -> [id |-> Head(left), i |-> f.i, todo |-> Tail(left)]
          [] f.i >= 0 /\ left = <<>> /\ more = {} -> [id |-> 0]
          [] OTHER -> LET u == Unseen(r, IdsOf(queue[r][Min(more)]))
                      IN  [id |-> Head(u), i |-> Min(more), todo |-> Tail(u)]

recurse(r) ==
    /\ At(r, "recurse")
    /\ LET f == Top(r)
           next == NextToVisit(r, f)
       IN  IF next.id = 0
           THEN stack' = [stack EXCEPT ![r] = Front(@)] /\ UNCHANGED seen
           ELSE LET t == txns[next.id]
                IN  /\ seen' = [seen EXCEPT ![r][next.id] = t]
                    /\ stack' = [stack EXCEPT ![r] = Front(@) \o
                         << [f EXCEPT !.i = next.i, !.todo = next.todo],
                            RecurseFrame(t.id),
                            AdvanceFrame(t, {t.id}, FALSE) >>]
    /\ UNCHANGED <<work, txns, docs, stash, queue, nonces, faults, outcome, log>>

(* Pairs of transactions next to each other in a queue, counting only      *)
(* tokens with the nonce their transaction was prepared with.              *)
Valid(r) == {tt \in UNION {ToSet(queue[r][d]) : d \in Docs} : /\ seen[r][tt[1]].id # 0
                                                             /\ seen[r][tt[1]].n = tt[2]}
Queued(r) == {tt[1] : tt \in Valid(r)}
successors(r) ==
    UNION {LET v == Keep(queue[r][d], Valid(r))
           IN  {<<v[k][1], v[k + 1][1]>> : k \in 1..(Len(v) - 1)} : d \in Docs}

(* What Tarjan's algorithm computes: the strongly connected components.    *)
Reaches(E) ==
    LET within[k \in 0..Cardinality(Txns)] ==
          IF k = 0 THEN E
          ELSE within[k - 1] \cup {<<x[1][1], x[2][2]>> :
                                   x \in {y \in within[k - 1] \X within[k - 1] : y[1][2] = y[2][1]}}
    IN  within[Cardinality(Txns)]
Component(V, E, v) == {w \in V : w = v \/ (<<v, w>> \in Reaches(E) /\ <<w, v>> \in Reaches(E))}

(* Its output, read from the end: each component after its predecessors,   *)
(* and sorted within.  The iteration of a map chooses between the orders.  *)
tarjanSort(V, E) ==
    {s \in SetToSeqs(V) :
       \A i, j \in DOMAIN s :
         i < j => LET scc == Component(V, E, s[i])
                  IN  IF s[j] \in scc THEN s[i] < s[j] /\ \A k \in i..j : s[k] \in scc
                      ELSE <<s[j], s[i]>> \notin Reaches(E)}

(* The calls of advance for an order, with the transactions whose tokens   *)
(* each may pull: those of earlier components and, if alone, its own.      *)
Flushes(V, E, order) ==
    [k \in DOMAIN order |->
       LET scc == Component(V, E, order[k])
           earlier == {order[j] : j \in 1..(k - 1)} \ scc
       IN  [id |-> order[k], pull |-> earlier \cup (IF scc = {order[k]} THEN scc ELSE {})]]

(* The stack is down to run: the goal is done, or has no real              *)
(* pre-requisite left, or is flushed with all it depends on in order.      *)
runDone(r) ==
    /\ \/ At(r, "run") /\ seen[r][Top(r).id].s \in Done
       \/ At(r, "order") /\ Top(r).todo = <<>>
    /\ Leave(r, IF seen[r][Top(r).id].s \in Done THEN "ok" ELSE "panic")
    /\ UNCHANGED <<work, txns, docs, stash, nonces, faults, log>>

runOrder(r) ==
    /\ At(r, "run")
    /\ LET goal == Top(r).id
           E == successors(r)
           ready == \A e \in E : e[2] # goal
           V == IF ready THEN {goal} ELSE Queued(r)
       IN  /\ seen[r][goal].s \notin Done
           /\ \E order \in tarjanSort(V, E) :
                SetTop(r, [Top(r) EXCEPT !.pc = "order", !.todo = Flushes(V, E, order)])
    /\ UNCHANGED <<work, txns, docs, stash, queue, seen, nonces, faults, outcome, log>>

runNext(r) ==
    /\ At(r, "order") /\ Top(r).todo # <<>>
    /\ LET f == Top(r)
           next == Head(f.todo)
       IN  Call(r, [f EXCEPT !.todo = Tail(@)], AdvanceFrame(seen[r][next.id], next.pull, TRUE))
    /\ UNCHANGED <<work, txns, docs, stash, queue, seen, nonces, faults, outcome, log>>

-----------------------------------------------------------------------------
(* advance.  AssertFrom and ApplyFrom go to the next operation that needs  *)
(* the database: a failed DocMissing aborts, operations on a document that *)
(* is not in the state they need are skipped.                              *)

FirstOf(S) == IF S = {} THEN 0 ELSE Min(S)

AssertFrom(f, j) ==
    LET o == ops[f.t.id]
        k == FirstOf({i \in j..Len(o) : \/ o[i].assert = "exists"
                                        \/ o[i].assert = "missing" /\ f.revnos[i] >= 0})
        next == [Again(f, f.t) EXCEPT !.revnos = f.revnos]
    IN  IF k = 0 THEN [next EXCEPT !.pc = "setApplying"]
        ELSE [next EXCEPT !.pc = IF o[k].assert = "exists" THEN "assertDoc" ELSE "setAborting", !.i = k]

ApplyFrom(f, j) ==
    LET o == ops[f.t.id]
        k == FirstOf({i \in j..Len(o) : NextRevno(o[i], f.t.r[i]) # f.t.r[i]})
        next == Again(f, f.t)
    IN  IF k = 0 THEN [next EXCEPT !.pc = "setApplied"]
        ELSE [next EXCEPT !.i = k,
                       !.pc = CASE o[k].kind = "update" -> "applyUpdate"
                                [] o[k].kind = "remove" -> "removeStash"
                                [] o[k].kind = "insert" -> "insertMark"]

advance(r) ==
    /\ At(r, "advance")
    /\ LET f == Top(r)
           t == f.t
       IN  \/ /\ t.s = "preparing"
              /\ nonces' = [nonces EXCEPT ![t.id] = @ + 1]
              /\ SetTop(r, [f EXCEPT !.pc = "prepareDoc", !.i = docKeys(t.id, 0),
                                     !.tt = <<t.id, nonces[t.id] + 1>>])
              /\ UNCHANGED seen
           \/ /\ t.s = "prepared"
              /\ IF ~f.force /\ found(queue[r], token(t)) /\ prereqs(queue[r], token(t))
                 THEN Return(r, f, TRUE)
                 ELSE /\ SetTop(r, [f EXCEPT !.pc = "rescanDoc", !.i = docKeys(t.id, 0),
                                             !.tt = token(t), !.retry = 0])
                      /\ UNCHANGED seen
              /\ UNCHANGED nonces
           \/ /\ t.s = "applying"
              /\ SetTop(r, ApplyFrom(f, 1))
              /\ UNCHANGED <<seen, nonces>>
           \/ /\ t.s = "aborting"
              /\ SetTop(r, [f EXCEPT !.pc = "setAborted"])
              /\ UNCHANGED <<seen, nonces>>
           \/ /\ t.s \in Done
              /\ Return(r, f, FALSE)
              /\ UNCHANGED nonces
    /\ UNCHANGED <<work, txns, docs, stash, queue, faults, outcome, log>>

(* The queues of all documents are known: return the pre-requisites, or go *)
(* on to the assertions with the revisions found.                          *)
Scanned(r, f, q) ==
    IF prereqs(q, f.tt) /\ ~f.force
    THEN Return(r, f, TRUE)
    ELSE /\ SetTop(r, AssertFrom([f EXCEPT !.revnos = assembledRevnos(ops[f.t.id], f.revno)], 1))
         /\ UNCHANGED seen

-----------------------------------------------------------------------------
(* prepare: put the token on the queue of each document, or on that of its *)
(* stash when it does not exist.                                           *)

(* The queue of document f.i holds the token.                              *)
PreparedDoc(r, f, revno, q) ==
    LET next == docKeys(f.t.id, f.i)
    IN  /\ queue' = [queue EXCEPT ![r][f.i] = q]
        /\ SetTop(r, [f EXCEPT !.revno[f.i] = revno, !.i = next,
                               !.pc = IF next = 0 THEN "setPrepared" ELSE "prepareDoc"])

prepareDoc(r) ==
    /\ At(r, "prepareDoc")
    /\ LET f == Top(r)
           d == docs[f.i]
           q == addToSet(d.queue, f.tt)
       IN  IF ~d.in
           THEN SetTop(r, [f EXCEPT !.pc = "prepareStash"]) /\ UNCHANGED <<docs, queue>>
           ELSE /\ docs' = [docs EXCEPT ![f.i].queue = q]
                /\ IF d.mark = 0
                   THEN PreparedDoc(r, f, d.revno, q)
                   ELSE Call(r, f, loadAndApply(d.mark)) /\ UNCHANGED queue
    /\ UNCHANGED <<work, txns, stash, seen, nonces, faults, outcome, log>>

prepareStash(r) ==
    /\ At(r, "prepareStash")
    /\ LET f == Top(r)
           d == stash[f.i]
       IN  /\ stash' = [stash EXCEPT ![f.i].in = TRUE, ![f.i].queue = addToSet(@, f.tt)]
           /\ IF d.mark = 0
              THEN SetTop(r, [f EXCEPT !.pc = "confirmDoc"])
              ELSE Call(r, [f EXCEPT !.pc = "prepareDoc"], loadAndApply(d.mark))
    /\ UNCHANGED <<work, txns, docs, queue, seen, nonces, faults, outcome, log>>

(* The stash may have been replaced by a remove: read both once more.      *)
confirmDoc(r) ==
    /\ At(r, "confirmDoc")
    /\ LET f == Top(r)
           d == docs[f.i]
       IN  IF d.in /\ d.mark = 0 /\ hasToken(d.queue, f.tt)
           THEN PreparedDoc(r, f, d.revno, d.queue)
           ELSE /\ SetTop(r, [f EXCEPT !.pc = IF d.in THEN "unstash" ELSE "confirmStash"])
                /\ UNCHANGED queue
    /\ UNCHANGED <<work, txns, docs, stash, seen, nonces, faults, outcome, log>>

(* A stash without revision was upserted and stands for revision -1.       *)
StashRevno(d) == IF d.revno = 0 THEN -1 ELSE d.revno

confirmStash(r) ==
    /\ At(r, "confirmStash")
    /\ LET f == Top(r)
           d == stash[f.i]
       IN  IF d.in /\ d.mark = 0 /\ hasToken(d.queue, f.tt)
           THEN PreparedDoc(r, f, StashRevno(d), d.queue)
           ELSE SetTop(r, [f EXCEPT !.pc = "unstash"]) /\ UNCHANGED queue
    /\ UNCHANGED <<work, txns, docs, stash, seen, nonces, faults, outcome, log>>

(* The Remove of unstashToken asks for a queue that is an empty document,  *)
(* which an empty array is not: the stash stays.                           *)
unstashToken(r) ==
    /\ At(r, "unstash")
    /\ LET f == Top(r)
       IN  /\ stash' = [stash EXCEPT ![f.i].queue = pullAll(@, {f.tt})]
           /\ SetTop(r, [f EXCEPT !.pc = "prepareDoc"])
    /\ UNCHANGED <<work, txns, docs, queue, seen, nonces, faults, outcome, log>>

(* The nonce of the first runner that gets here becomes t's.               *)
setPrepared(r) ==
    /\ At(r, "setPrepared")
    /\ LET f == Top(r)
           t == [f.t EXCEPT !.s = "prepared", !.n = f.tt[2]]
       IN  IF txns[t.id].s = "preparing"
           THEN txns' = [txns EXCEPT ![t.id] = t] /\ Scanned(r, [f EXCEPT !.t = t], queue[r])
           ELSE SetTop(r, [f EXCEPT !.pc = "reloadPrepared"]) /\ UNCHANGED <<txns, seen>>
    /\ UNCHANGED <<work, docs, stash, queue, nonces, faults, outcome, log>>

reloadPrepared(r) ==
    /\ At(r, "reloadPrepared")
    /\ LET f == [Top(r) EXCEPT !.t = txns[Top(r).t.id]]
           g == [f EXCEPT !.tt = token(f.t)]
       IN  IF f.t.s = "prepared" /\ found(queue[r], g.tt)
           THEN Scanned(r, g, queue[r])
           ELSE SetTop(r, Again(f, f.t)) /\ UNCHANGED seen
    /\ UNCHANGED <<work, txns, docs, stash, queue, nonces, faults, outcome, log>>

-----------------------------------------------------------------------------
(* rescan: read the queues and revisions of a prepared transaction.        *)

(* A document or stash was read.                                           *)
Rescanned(r, f, revno, q) ==
    LET next == docKeys(f.t.id, f.i)
        newQueue == [queue[r] EXCEPT ![f.i] = q]
        g == [f EXCEPT !.revno[f.i] = revno, !.i = next, !.retry = 0, !.pc = "rescanDoc"]
    IN  /\ queue' = [queue EXCEPT ![r] = newQueue]
        /\ CASE ~hasToken(q, f.tt) -> SetTop(r, [f EXCEPT !.pc = "rescanReload"]) /\ UNCHANGED seen
             [] hasToken(q, f.tt) /\ next # 0 -> SetTop(r, g) /\ UNCHANGED seen
             [] OTHER -> Scanned(r, g, newQueue)

Retry(f) == [f EXCEPT !.pc = "rescanDoc", !.retry = Min({@ + 1, Retries + 1})]

rescanDoc(r) ==
    /\ At(r, "rescanDoc")
    /\ LET f == Top(r)
           d == docs[f.i]
       IN  CASE ~d.in -> SetTop(r, [f EXCEPT !.pc = "rescanStash"]) /\ UNCHANGED <<queue, seen>>
             [] d.in /\ d.mark # 0 -> Call(r, Retry(f), loadAndApply(d.mark)) /\ UNCHANGED <<queue, seen>>
             [] OTHER -> Rescanned(r, f, d.revno, d.queue)
    /\ UNCHANGED <<work, txns, docs, stash, nonces, faults, outcome, log>>

rescanStash(r) ==
    /\ At(r, "rescanStash")
    /\ LET f == Top(r)
           d == stash[f.i]
       IN  CASE ~d.in -> SetTop(r, [f EXCEPT !.pc = "rescanReload"]) /\ UNCHANGED <<queue, seen>>
             [] d.in /\ d.mark # 0 -> Call(r, Retry(f), loadAndApply(d.mark)) /\ UNCHANGED <<queue, seen>>
             [] OTHER -> Rescanned(r, f, StashRevno(d), d.queue)
    /\ UNCHANGED <<work, txns, docs, stash, nonces, faults, outcome, log>>

(* Plausible bug: the transaction is not read again before a rescan is     *)
(* tried again or given up.                                                *)
rescanReload_NoReload(r) ==
    /\ At(r, "rescanReload")
    /\ LET f == Top(r)
       IN  CASE f.t.s # "prepared" -> SetTop(r, Again(f, f.t)) /\ UNCHANGED <<queue, seen, outcome>>
             [] f.t.s = "prepared" /\ f.retry < Retries -> SetTop(r, Retry(f)) /\ UNCHANGED <<queue, seen, outcome>>
             [] OTHER -> Leave(r, "lost")
    /\ UNCHANGED <<work, txns, docs, stash, nonces, faults, log>>

(* The document, or the token in its queue, is missing: someone went on    *)
(* with the transaction, or what was read is old, or it is lost.           *)
rescanReload(r) ==
    /\ At(r, "rescanReload")
    /\ LET f == [Top(r) EXCEPT !.t = txns[Top(r).t.id]]
       IN  CASE f.t.s # "prepared" -> SetTop(r, Again(f, f.t)) /\ UNCHANGED <<queue, seen, outcome>>
             [] f.t.s = "prepared" /\ f.retry < Retries -> SetTop(r, Retry(f)) /\ UNCHANGED <<queue, seen, outcome>>
             [] OTHER -> Leave(r, "lost")
    /\ UNCHANGED <<work, txns, docs, stash, nonces, faults, log>>

-----------------------------------------------------------------------------
(* assert, abortOrReload and checkpoint.                                   *)

FirstOpOn(t, d) == FirstOf({i \in DOMAIN ops[t] : ops[t][i].doc = d})

(* The document must still be at the revision it had before t's first      *)
(* operation on it; a miss means a failed assertion or a lost race.        *)
assertDoc(r) ==
    /\ At(r, "assertDoc")
    /\ LET f == Top(r)
           d == ops[f.t.id][f.i].doc
       IN  IF docs[d].in /\ docs[d].revno = f.revnos[FirstOpOn(f.t.id, d)]
           THEN SetTop(r, AssertFrom(f, f.i + 1))
           ELSE SetTop(r, [f EXCEPT !.pc = "setAborting"])
    /\ UNCHANGED <<work, txns, docs, stash, queue, seen, nonces, faults, outcome, log>>

(* The tokens an abort takes off the queue of the document of operation i. *)
AbortPulls(r, f, i) == tokensToPull(queue[r][ops[f.t.id][i].doc], f.pull, <<0, 0>>)
PullFrom(r, f, j) ==
    LET k == FirstOf({i \in j..Len(ops[f.t.id]) : /\ FirstOpOn(f.t.id, ops[f.t.id][i].doc) = i
                                                  /\ AbortPulls(r, f, i) # {}})
    IN  [f EXCEPT !.pc = IF k = 0 THEN "setAborted" ELSE "pullTokens", !.i = k]

(* Plausible bug: a transaction that is being applied can still be         *)
(* aborted.                                                                *)
setAborting_Late(r) ==
    /\ At(r, "setAborting")
    /\ LET f == Top(r)
       IN  IF txns[f.t.id].s \in {"prepared", "applying"}
           THEN /\ txns' = [txns EXCEPT ![f.t.id].s = "aborting"]
                /\ SetTop(r, PullFrom(r, [f EXCEPT !.t.s = "aborting"], 1))
           ELSE SetTop(r, [f EXCEPT !.pc = "reloadAborting"]) /\ UNCHANGED txns
    /\ UNCHANGED <<work, docs, stash, queue, seen, nonces, faults, outcome, log>>

setAborting(r) ==
    /\ At(r, "setAborting")
    /\ LET f == Top(r)
       IN  IF txns[f.t.id].s = "prepared"
           THEN /\ txns' = [txns EXCEPT ![f.t.id].s = "aborting"]
                /\ SetTop(r, PullFrom(r, [f EXCEPT !.t.s = "aborting"], 1))
           ELSE SetTop(r, [f EXCEPT !.pc = "reloadAborting"]) /\ UNCHANGED txns
    /\ UNCHANGED <<work, docs, stash, queue, seen, nonces, faults, outcome, log>>

reloadAborting(r) ==
    /\ At(r, "reloadAborting")
    /\ LET f == [Top(r) EXCEPT !.t = txns[Top(r).t.id]]
       IN  SetTop(r, IF f.t.s = "aborting" THEN PullFrom(r, f, 1) ELSE Again(f, f.t))
    /\ UNCHANGED <<work, txns, docs, stash, queue, seen, nonces, faults, outcome, log>>

pullTokens(r) ==
    /\ At(r, "pullTokens")
    /\ LET f == Top(r)
           d == ops[f.t.id][f.i].doc
           gone == AbortPulls(r, f, f.i)
       IN  /\ IF f.revnos[f.i] < 0
              THEN stash' = [stash EXCEPT ![d].queue = pullAll(@, gone)] /\ UNCHANGED docs
              ELSE docs' = [docs EXCEPT ![d].queue = pullAll(@, gone)] /\ UNCHANGED stash
           /\ SetTop(r, PullFrom(r, f, f.i + 1))
    /\ UNCHANGED <<work, txns, queue, seen, nonces, faults, outcome, log>>

setAborted(r) ==
    /\ At(r, "setAborted")
    /\ LET f == Top(r)
       IN  /\ txns' = [txns EXCEPT ![f.t.id].s = "aborted"]
           /\ SetTop(r, Again(f, [f.t EXCEPT !.s = "aborted"]))
    /\ UNCHANGED <<work, docs, stash, queue, seen, nonces, faults, outcome, log>>

(* checkpoint: the revisions of the first runner that gets here are t's.   *)
setApplying(r) ==
    /\ At(r, "setApplying")
    /\ LET f == Top(r)
           t == [f.t EXCEPT !.s = "applying", !.r = f.revnos]
       IN  IF txns[t.id].s = "prepared"
           THEN /\ txns' = [txns EXCEPT ![t.id].s = "applying", ![t.id].r = f.revnos]
                /\ SetTop(r, Again(f, t))
           ELSE SetTop(r, [f EXCEPT !.pc = "reloadApplying"]) /\ UNCHANGED txns
    /\ UNCHANGED <<work, docs, stash, queue, seen, nonces, faults, outcome, log>>

reloadApplying(r) ==
    /\ At(r, "reloadApplying")
    /\ SetTop(r, Again(Top(r), txns[Top(r).t.id]))
    /\ UNCHANGED <<work, txns, docs, stash, queue, seen, nonces, faults, outcome, log>>

-----------------------------------------------------------------------------
(* apply.  Each write asks for the revision and the token it was prepared  *)
(* with, so that only one runner's write of an operation has an effect.    *)

Op(f) == ops[f.t.id][f.i]
Changed(d, t) == log' = [log EXCEPT ![d] = Append(@, t)]

(* qdoc, on a document and, for an insert, on its stash.                   *)
(* Plausible bug: the revision of the document is not part of the          *)
(* condition.                                                              *)
Matches_AnyRevno(f, d) == d.in /\ hasToken(d.queue, token(f.t))
Matches(f, d) == d.in /\ d.revno = f.t.r[f.i] /\ hasToken(d.queue, token(f.t))
MatchesStash(f, d) == d.in /\ StashRevno(d) = f.t.r[f.i] /\ hasToken(d.queue, token(f.t))

applyUpdate(r) ==
    /\ At(r, "applyUpdate")
    /\ LET f == Top(r)
           d == Op(f).doc
           gone == tokensToPull(queue[r][d], f.pull, token(f.t))
       IN  /\ IF Matches(f, docs[d])
              THEN /\ docs' = [docs EXCEPT ![d].revno = @ + 1, ![d].queue = pullAll(@, gone)]
                   /\ Changed(d, f.t.id)
              ELSE UNCHANGED <<docs, log>>
           /\ SetTop(r, ApplyFrom(f, f.i + 1))
    /\ UNCHANGED <<work, txns, stash, queue, seen, nonces, faults, outcome>>

(* A remove claims the stash with a nonce of its own, marks the document,  *)
(* copies the queue to the stash unless the claim was taken over or the    *)
(* stash had the token already, and then removes the document.             *)
removeStash(r) ==
    /\ At(r, "removeStash")
    /\ LET f == Top(r)
           d == Op(f).doc
           nonce == nonces[f.t.id] + 1
       IN  /\ nonces' = [nonces EXCEPT ![f.t.id] = nonce]
           /\ stash' = [stash EXCEPT ![d].in = TRUE, ![d].n = @ \cup {<<f.t.id, nonce>>}]
           /\ SetTop(r, [f EXCEPT !.pc = "removeMark", !.nonce = nonce, !.copy = stash[d].queue])
    /\ UNCHANGED <<work, txns, docs, queue, seen, faults, outcome, log>>

removeMark(r) ==
    /\ At(r, "removeMark")
    /\ LET f == Top(r)
           d == Op(f).doc
       IN  IF Matches(f, docs[d])
           THEN /\ docs' = [docs EXCEPT ![d].mark = f.t.id]
                /\ SetTop(r, IF hasToken(f.copy, token(f.t))
                             THEN [f EXCEPT !.pc = "removeDoc"]
                             ELSE [f EXCEPT !.pc = "removeCopy", !.copy = docs[d].queue])
           ELSE SetTop(r, ApplyFrom(f, f.i + 1)) /\ UNCHANGED docs
    /\ UNCHANGED <<work, txns, stash, queue, seen, nonces, faults, outcome, log>>

removeCopy(r) ==
    /\ At(r, "removeCopy")
    /\ LET f == Top(r)
           d == Op(f).doc
           revno == f.t.r[f.i]
       IN  /\ IF <<f.t.id, f.nonce>> \in stash[d].n
              THEN stash' = [stash EXCEPT ![d].queue = f.copy, ![d].n = {},
                                          ![d].revno = IF revno = 0 THEN 0 ELSE -revno - 1]
              ELSE UNCHANGED stash
           /\ SetTop(r, [f EXCEPT !.pc = "removeDoc"])
    /\ UNCHANGED <<work, txns, docs, queue, seen, nonces, faults, outcome, log>>

removeDoc(r) ==
    /\ At(r, "removeDoc")
    /\ LET f == Top(r)
           d == Op(f).doc
       IN  /\ IF Matches(f, docs[d])
              THEN docs' = [docs EXCEPT ![d] = NoDoc] /\ Changed(d, f.t.id)
              ELSE UNCHANGED <<docs, log>>
           /\ SetTop(r, ApplyFrom(f, f.i + 1))
    /\ UNCHANGED <<work, txns, stash, queue, seen, nonces, faults, outcome>>

(* An insert marks the stash, inserts the document with the stash's queue, *)
(* and removes the stash.  Inserting a document that exists is an error    *)
(* that counts as done.                                                    *)
insertMark(r) ==
    /\ At(r, "insertMark")
    /\ LET f == Top(r)
           d == Op(f).doc
       IN  IF MatchesStash(f, stash[d])
           THEN /\ stash' = [stash EXCEPT ![d].mark = f.t.id]
                /\ SetTop(r, [f EXCEPT !.pc = "insertDoc", !.copy = stash[d].queue])
           ELSE SetTop(r, ApplyFrom(f, f.i + 1)) /\ UNCHANGED stash
    /\ UNCHANGED <<work, txns, docs, queue, seen, nonces, faults, outcome, log>>

insertDoc(r) ==
    /\ At(r, "insertDoc")
    /\ LET f == Top(r)
           d == Op(f).doc
       IN  /\ IF docs[d].in
              THEN UNCHANGED <<docs, log>>
              ELSE /\ docs' = [docs EXCEPT ![d] = [in |-> TRUE, revno |-> -f.t.r[f.i] + 1,
                                                   queue |-> f.copy, mark |-> 0]]
                   /\ Changed(d, f.t.id)
           /\ SetTop(r, [f EXCEPT !.pc = "insertStash"])
    /\ UNCHANGED <<work, txns, stash, queue, seen, nonces, faults, outcome>>

insertStash(r) ==
    /\ At(r, "insertStash")
    /\ LET f == Top(r)
           d == Op(f).doc
       IN  /\ stash' = IF MatchesStash(f, stash[d]) THEN [stash EXCEPT ![d] = NoStash] ELSE stash
           /\ SetTop(r, ApplyFrom(f, f.i + 1))
    /\ UNCHANGED <<work, txns, docs, queue, seen, nonces, faults, outcome, log>>

setApplied(r) ==
    /\ At(r, "setApplied")
    /\ LET f == Top(r)
       IN  /\ txns' = IF txns[f.t.id].s = "applying"
                      THEN [txns EXCEPT ![f.t.id].s = "applied"] ELSE txns
           /\ SetTop(r, Again(f, [f.t EXCEPT !.s = "applied"]))
    /\ UNCHANGED <<work, docs, stash, queue, seen, nonces, faults, outcome, log>>

-----------------------------------------------------------------------------
(* chaos kills a runner at any point; what it knew is gone.                *)
Crash(r) ==
    /\ stack[r] # <<>> /\ faults < Workloads[work].faults
    /\ faults' = faults + 1
    /\ Leave(r, "ok")
    /\ UNCHANGED <<work, txns, docs, stash, nonces, log>>

Step(r) ==
    \/ recurse(r) \/ runDone(r) \/ runOrder(r) \/ runNext(r) \/ advance(r)
    \/ prepareDoc(r) \/ prepareStash(r) \/ confirmDoc(r) \/ confirmStash(r) \/ unstashToken(r)
    \/ setPrepared(r) \/ reloadPrepared(r)
    \/ rescanDoc(r) \/ rescanStash(r) \/ rescanReload(r)
    \/ assertDoc(r) \/ setAborting(r) \/ reloadAborting(r) \/ pullTokens(r) \/ setAborted(r)
    \/ setApplying(r) \/ reloadApplying(r)
    \/ applyUpdate(r) \/ removeStash(r) \/ removeMark(r) \/ removeCopy(r) \/ removeDoc(r)
    \/ insertMark(r) \/ insertDoc(r) \/ insertStash(r) \/ setApplied(r)

Start(r) == \E id \in Txns : Run(r, id) \/ Resume(r, id)

Next == \E r \in Runners : Start(r) \/ Step(r) \/ Crash(r)

Spec == Init /\ [][Next]_vars

-----------------------------------------------------------------------------
TypeOK ==
    /\ \A t \in Txns : txns[t].s \in States /\ txns[t].n \in 0..nonces[t]
                       /\ txns[t].r \in Seq(Int)
    /\ \A d \in Docs : /\ docs[d].in \in BOOLEAN /\ docs[d].revno \in Nat
                       /\ docs[d].mark \in Txns \cup {0}
                       /\ docs[d].queue \in Seq(Txns \X Nat) /\ stash[d].queue \in Seq(Txns \X Nat)
                       /\ log[d] \in Seq(Txns)
    /\ \A r \in Runners : outcome[r] \in {"ok", "lost", "panic"}

(* Run: "all applied in the order provided or all aborted": an operation   *)
(* has its effect once, however many runners apply the transaction.        *)
AppliedOnce ==
    \A d \in Docs, t \in Txns :
      Len(SelectSeq(log[d], LAMBDA x : x = t)) <= Cardinality({i \in DOMAIN ops[t] : ops[t][i].doc = d})

(* An applied transaction has had all effects its revisions call for.      *)
AppliedIsComplete ==
    \A t \in Txns : txns[t].s = "applied" =>
      \A i \in DOMAIN ops[t] :
        NextRevno(ops[t][i], txns[t].r[i]) # txns[t].r[i] => t \in ToSet(log[ops[t][i].doc])

(* The operations of an applied transaction have their effects, each once. *)
AppliedExactly == AppliedOnce /\ AppliedIsComplete

(* Run: "if it returns ErrAborted, ... entirely aborted with no changes".  *)
AbortedChangesNothing ==
    \A t \in Txns : txns[t].s \in {"aborting", "aborted"} => \A d \in Docs : t \notin ToSet(log[d])

(* rescan's case 3 and the panics of Run and Resume do not happen.         *)
NothingLost == \A r \in Runners : outcome[r] = "ok"

(* The state is well formed, and no runner loses a transaction.            *)
Consistent == TypeOK /\ NothingLost
====
