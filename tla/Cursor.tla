------------------------------- MODULE Cursor -------------------------------
(***************************************************************************)
(* The iterator of llmgo (session.go Iter, queue.go): batches of documents *)
(* are requested from a server's cursor, some in the background, and are   *)
(* handed out one by one by Next, which several goroutines may call.       *)
(*                                                                         *)
(* One action is what happens under iter.m, or what the server or the      *)
(* reading goroutine of the socket does.  How sockets are found is in      *)
(* modules Pool and Topology: here acquireSocket works or fails.           *)
(***************************************************************************)
EXTENDS Integers, Sequences, FiniteSets, SequencesExt

CONSTANTS
    Callers,      \* the goroutines that use the iterator
    QueueCap      \* the capacity a queue gets first, 8 in the code

VARIABLES
    query,     \* the query: how it is made and what each caller does
    stored,    \* the documents that match at the server, in order
    iter,      \* Iter
    app,       \* what each caller does
    wire,      \* requests the server has not handled
    replies,   \* replies that have not been read, as they come in
    cursor,    \* the server's cursor: "none", "open" or "gone", its position
    returned,  \* the documents Next returned
    closed,    \* Close was called before the end
    ended,     \* what a Next that returned false was about
    faults,    \* how many failures the environment may still inject
    panic,     \* the panic that ended the program, if any
    astray     \* what happened that the iterator is not made for: "overrun"
               \* (a batch beyond the limit came), "cut" (a reply was cut
               \* short while the next batch was being requested), "early"
               \* (Close before the first reply was read), "unwoken" (getMore
               \* failed while another caller waited)

cursorVars == <<query, stored, iter, app, wire, replies, cursor, returned, closed, ended, faults, panic, astray>>

-----------------------------------------------------------------------------
(* queue.go: a ring of slots 0..cap-1.                                     *)

NoDoc == -1
Slots(q) == Cardinality(DOMAIN q.elems)
EmptyQueue == [elems |-> [i \in {} |-> NoDoc], nelems |-> 0, popi |-> 0, pushi |-> 0]

(* Plausible bug: the part of the ring that wrapped around is not moved.   *)
expand_Straight(q) ==
    LET curcap == Slots(q)
    IN  [q EXCEPT !.elems = [i \in 0..(IF curcap = 0 THEN QueueCap ELSE curcap * 2) - 1 |->
                               IF i < curcap THEN q.elems[i] ELSE NoDoc],
                  !.pushi = curcap]

expand(q) ==
    LET curcap == Slots(q)
        newcap == IF curcap = 0 THEN QueueCap ELSE curcap * 2
        newpopi == newcap - (curcap - q.popi)
        Old(i) == IF q.popi = 0 THEN i
                  ELSE IF i < q.popi THEN i ELSE i - newpopi + q.popi
        kept == IF q.popi = 0 THEN 0..curcap - 1 ELSE 0..q.popi - 1 \union newpopi..newcap - 1
    IN  [q EXCEPT !.elems = [i \in 0..newcap - 1 |-> IF i \in kept THEN q.elems[Old(i)] ELSE NoDoc],
                  !.pushi = IF q.popi = 0 THEN curcap ELSE @,
                  !.popi = IF @ = 0 THEN 0 ELSE newpopi]

Push(q, elem) ==
    LET r == IF q.nelems = Slots(q) THEN expand(q) ELSE q
    IN  [r EXCEPT !.elems[r.pushi] = elem, !.nelems = @ + 1, !.pushi = (@ + 1) % Slots(r)]

Head1(q) == q.elems[q.popi]
Pop(q) == [q EXCEPT !.elems[q.popi] = NoDoc, !.nelems = @ - 1, !.popi = (@ + 1) % Slots(q)]

-----------------------------------------------------------------------------
(* Query.Limit and Query.Batch: the limit of the iteration and the number  *)
(* of documents to ask for, negative when the cursor is not to be kept.    *)
LimitOf(n) == IF n < 0 THEN -n ELSE n
OpLimitOf(n) == IF n = 1 THEN -1 ELSE n
BatchOf(n) == IF n = 1 THEN 2 ELSE n

OpLimit == IF query.batch # 0 THEN BatchOf(query.batch) ELSE OpLimitOf(query.limit)

Unopened ==
    [err |-> "nil", docsToReceive |-> 0, docsBeforeMore |-> 0, limit |-> 0, opLimit |-> 0,
     cursorId |-> 0, docData |-> EmptyQueue, timedout |-> FALSE]

Init ==
    /\ iter = Unopened
    /\ app = [c \in Callers |-> [pc |-> "start", left |-> 0]]
    /\ wire = <<>> /\ replies = <<>>
    /\ cursor = [state |-> "none", pos |-> 0]
    /\ returned = <<>> /\ closed = FALSE /\ ended = "no" /\ panic = "none"
    /\ astray = {}

Running == panic = "none"
Go(c, pc) == app' = [app EXCEPT ![c].pc = pc]
Fault == faults > 0 /\ faults' = faults - 1
ServerVars == <<stored, wire, replies, cursor>>

Strays(what) == astray' = astray \union {what}

(* The iterator is opened once, and then used by the callers with a plan:  *)
(* to close it after so many documents, at the end (0) or before any (-2), *)
(* or not to use it (-1).                                                  *)
Opened == \A c \in Callers : app[c].pc # "start"
FirstPc(plan) == CASE plan = -1 -> "done" [] plan = -2 -> "close" [] OTHER -> "next"
StartAll ==
    app' = [c \in Callers |-> [pc |-> FirstPc(query.plan[c]),
                               left |-> IF query.plan[c] < 0 THEN 0 ELSE query.plan[c]]]

(* Query.Iter and Query.Tail.                                              *)
IterOf(err) ==
    [Unopened EXCEPT !.limit = IF query.kind = "tail" THEN 0 ELSE LimitOf(query.limit), !.opLimit = OpLimit,
                     !.docsToReceive = 1, !.err = err]

Iter ==
    /\ Running /\ ~Opened /\ query.kind \in {"find", "tail"}
    /\ StartAll
    /\ \/ /\ iter' = IterOf("nil")
          /\ wire' = <<[op |-> "query", limit |-> OpLimit]>>
          /\ UNCHANGED faults
       \/ Fault /\ iter' = IterOf("net") /\ UNCHANGED wire
    /\ UNCHANGED <<query, stored, replies, cursor, returned, closed, ended, panic, astray>>

(* Pipe.Iter, Repair and Collection.NewIter: the first batch of a          *)
(* command's answer and the cursor it left.                                *)
FirstBatch(n) ==
    LET pushed[i \in 0..n] == IF i = 0 THEN EmptyQueue ELSE Push(pushed[i - 1], stored[i])
    IN  pushed[n]

NewIter ==
    /\ Running /\ ~Opened /\ query.kind = "command"
    /\ StartAll
    /\ \/ \E n \in 0..Len(stored) :
            LET open == n < Len(stored)
            IN  /\ iter' = [Unopened EXCEPT !.cursorId = IF open THEN 1 ELSE 0,
                              !.docData = FirstBatch(n)]
                /\ cursor' = [state |-> IF open THEN "open" ELSE "gone", pos |-> n]
                /\ UNCHANGED faults
       \/ Fault /\ iter' = [Unopened EXCEPT !.err = "net"] /\ UNCHANGED cursor
    /\ UNCHANGED <<query, stored, wire, replies, returned, closed, ended, panic, astray>>

-----------------------------------------------------------------------------
(* Next returned true or false to caller c, whose plan is to close the     *)
(* iterator after so many documents, or at the end when left is 0.         *)
ReturnTrue(c) ==
    app' = [app EXCEPT ![c] = [pc |-> IF @.left = 1 THEN "close" ELSE "next",
                               left |-> IF @.left > 0 THEN @.left - 1 ELSE 0]]
ReturnFalse(c, it) ==
    /\ iter' = it /\ Go(c, "close")
    /\ ended' = IF it.err = "notFound" THEN (IF ended = "no" THEN "exhausted" ELSE ended) ELSE "error"

ErrorDoc == 0
LimitPanic == "data remains after limit exhausted"

(* The end of Next, once a document or an error is there.                  *)
Deliver(c, it) ==
    IF it.docData.nelems > 0
    THEN LET doc == Head1(it.docData)
             last == it.limit = 1
             more == it.cursorId # 0 /\ it.err = "nil" /\ ~last
             fetch == more /\ it.docsBeforeMore = 0
             popped == [it EXCEPT !.docData = Pop(@),
                                  !.limit = IF @ > 0 THEN @ - 1 ELSE 0,
                                  !.err = IF last THEN "notFound" ELSE @,
                                  !.docsBeforeMore = IF more THEN @ - 1 ELSE @,
                                  !.docsToReceive = IF fetch THEN @ + 1 ELSE @]
         IN  IF last /\ popped.docData.nelems > 0
             THEN /\ panic' = LimitPanic
                  /\ iter' = [popped EXCEPT !.err = it.err]
                  /\ UNCHANGED <<app, returned, ended>>
             ELSE /\ UNCHANGED panic
                  /\ IF doc = ErrorDoc
                     THEN /\ ReturnFalse(c, [popped EXCEPT !.err = IF @ = "nil" THEN "query" ELSE @])
                          /\ UNCHANGED returned
                     ELSE /\ iter' = popped
                          /\ returned' = Append(returned, doc)
                          /\ IF last THEN Go(c, "limitClose")
                             ELSE IF fetch THEN Go(c, "prefetch")
                             ELSE ReturnTrue(c)
                          /\ UNCHANGED ended
    ELSE /\ ReturnFalse(c, IF it.err = "nil" THEN [it EXCEPT !.err = "notFound"] ELSE it)
         /\ UNCHANGED <<returned, panic>>

(* Next: the loop that waits for a document.                               *)
(* Plausible bug: the iteration is over when the batch is.                 *)
MustWait_OneBatch ==
    /\ iter.err = "nil" /\ iter.docData.nelems = 0
    /\ iter.docsToReceive > 0 \/ (iter.limit > 0 /\ iter.cursorId # 0)

MustWait ==
    /\ iter.err = "nil" /\ iter.docData.nelems = 0
    /\ iter.docsToReceive > 0 \/ iter.cursorId # 0

NextWaits(c) ==
    /\ Running /\ app[c].pc = "next" /\ MustWait
    /\ iter' = [iter EXCEPT !.timedout = FALSE,
                            !.docsToReceive = IF @ = 0 THEN 1 ELSE @]
    /\ Go(c, IF iter.docsToReceive = 0 THEN "getMore" ELSE "wait")
    /\ UNCHANGED <<query, ServerVars, returned, closed, ended, faults, panic, astray>>

(* The timeout of a tailable iterator is only looked at between requests.  *)
NextTimesOut(c) ==
    /\ Running /\ app[c].pc = "next" /\ MustWait /\ iter.docsToReceive = 0
    /\ query.kind = "tail" /\ ~iter.timedout
    /\ iter' = [iter EXCEPT !.timedout = TRUE]
    /\ Go(c, IF query.plan[c] = 0 THEN "next" ELSE "close")
    /\ UNCHANGED <<query, ServerVars, returned, closed, ended, faults, panic, astray>>

NextDelivers(c) ==
    /\ Running /\ app[c].pc = "next" /\ ~MustWait
    /\ Deliver(c, [iter EXCEPT !.timedout = FALSE])
    /\ UNCHANGED <<query, ServerVars, closed, faults, astray>>

(* getMore, once acquireSocket returned: in the loop of Next, where an     *)
(* error ends the loop, or ahead of need after a document was popped.      *)
Wanting ==
    LET missing == iter.limit - (iter.docsToReceive - 1) - iter.docData.nelems
    IN  IF iter.limit > 0 /\ missing < iter.opLimit THEN missing ELSE iter.opLimit

getMore(c) ==
    /\ Running /\ app[c].pc \in {"getMore", "prefetch"}
    /\ wire' = Append(wire, [op |-> "getMore", limit |-> Wanting, id |-> iter.cursorId])
    /\ LET asking == [iter EXCEPT !.opLimit = Wanting]
       IN  IF app[c].pc = "getMore" /\ iter.err # "nil" THEN Deliver(c, asking)
           ELSE /\ iter' = asking
                /\ IF app[c].pc = "getMore" THEN Go(c, "wait") ELSE ReturnTrue(c)
                /\ UNCHANGED <<returned, ended, panic>>
    /\ UNCHANGED <<query, stored, replies, cursor, closed, faults, astray>>

(* acquireSocket fails, or Query cannot write the request.  Nobody is      *)
(* woken up.                                                               *)
Unsent == {[iter EXCEPT !.err = "net"],
           [iter EXCEPT !.err = "net", !.opLimit = Wanting, !.docsToReceive = @ - 1]}

getMoreFails(c) ==
    /\ Running /\ app[c].pc \in {"getMore", "prefetch"} /\ Fault
    /\ \E failed \in Unsent :
          IF app[c].pc = "getMore" THEN Deliver(c, failed)
          ELSE iter' = failed /\ ReturnTrue(c) /\ UNCHANGED <<returned, ended, panic>>
    /\ IF \E d \in Callers : app[d].pc = "wait" THEN Strays("unwoken") ELSE UNCHANGED astray
    /\ UNCHANGED <<query, ServerVars, closed>>

-----------------------------------------------------------------------------
(* Iter.Close, by a caller or because the limit was reached.               *)
AfterClose(c, pc) == IF pc \in {"close", "kill"} THEN Go(c, "done") ELSE ReturnTrue(c)

(* The cursor is open, or about to be, and the iterator does not know it.  *)
Unknown ==
    /\ iter.cursorId = 0 /\ iter.err = "nil" /\ ~closed
    /\ cursor.state = "open" \/ \E i \in DOMAIN wire : wire[i].op = "query"

MarkEarly(c) == IF app[c].pc = "close" /\ Unknown THEN Strays("early") ELSE UNCHANGED astray

(* Plausible bug: after an error Close leaves the cursor alone.            *)
Close_OnlyOpen(c) ==
    /\ Running /\ app[c].pc \in {"close", "limitClose"}
    /\ iter' = [iter EXCEPT !.cursorId = IF iter.err = "nil" THEN 0 ELSE @]
    /\ closed' = (closed \/ (app[c].pc = "close" /\ iter.err = "nil"))
    /\ IF iter.cursorId = 0 \/ iter.err # "nil" THEN AfterClose(c, app[c].pc)
       ELSE Go(c, "kill")
    /\ MarkEarly(c)
    /\ UNCHANGED <<query, ServerVars, returned, ended, faults, panic>>

Close(c) ==
    /\ Running /\ app[c].pc \in {"close", "limitClose"}
    /\ iter' = [iter EXCEPT !.cursorId = 0]
    /\ closed' = (closed \/ (app[c].pc = "close" /\ iter.err = "nil"))
    /\ IF iter.cursorId = 0 THEN AfterClose(c, app[c].pc)
       ELSE Go(c, IF app[c].pc = "close" THEN "kill" ELSE "limitKill")
    /\ MarkEarly(c)
    /\ UNCHANGED <<query, ServerVars, returned, ended, faults, panic>>

Kill(c) ==
    /\ Running /\ app[c].pc \in {"kill", "limitKill"}
    /\ \/ /\ wire' = Append(wire, [op |-> "kill"])
          /\ UNCHANGED <<iter, faults>>
       \/ /\ Fault /\ UNCHANGED wire
          /\ iter' = [iter EXCEPT !.err = IF @ \in {"nil", "notFound"} THEN "net" ELSE @]
    /\ AfterClose(c, app[c].pc)
    /\ UNCHANGED <<query, stored, replies, cursor, returned, closed, ended, panic, astray>>

-----------------------------------------------------------------------------
(* replyFunc: the reading goroutine hands over one document of a reply, or *)
(* that there is none, or that the rest of it could not be read.           *)
Broadcast == app' = [c \in Callers |-> IF app[c].pc = "wait" THEN [app[c] EXCEPT !.pc = "next"] ELSE app[c]]

replyDocument ==
    /\ Running /\ replies # <<>> /\ Head(replies).docs # <<>>
    /\ LET reply == Head(replies)
           rdocs == reply.total
           first == Len(reply.docs) = rdocs
           process == iter.docData.nelems + rdocs
           asked == IF first THEN iter.docsToReceive - 1 + rdocs - 1 ELSE iter.docsToReceive - 1
       IN  /\ iter' = [iter EXCEPT
                 !.docsToReceive = asked,
                 !.docsBeforeMore = IF ~first THEN @
                                    ELSE IF iter.limit = 0 \/ process < iter.limit
                                    THEN process - (query.prefetch * rdocs) \div 4
                                    ELSE -1,
                 !.cursorId = IF first THEN reply.cursorId ELSE @,
                 !.docData = Push(@, Head(reply.docs))]
           /\ replies' = IF Len(reply.docs) = 1 THEN Tail(replies)
                         ELSE <<[reply EXCEPT !.docs = Tail(@)]>> \o Tail(replies)
    /\ Broadcast
    /\ UNCHANGED <<query, stored, wire, cursor, returned, closed, ended, faults, panic, astray>>

(* Plausible bug: an empty batch is not taken for the end.                 *)
replyEmpty_Ignored ==
    /\ Running /\ replies # <<>> /\ Head(replies).docs = <<>>
    /\ iter' = [iter EXCEPT !.docsToReceive = @ - 1]
    /\ replies' = Tail(replies)
    /\ Broadcast
    /\ UNCHANGED <<query, stored, wire, cursor, returned, closed, ended, faults, panic, astray>>

replyEmpty ==
    /\ Running /\ replies # <<>> /\ Head(replies).docs = <<>>
    /\ iter' = [iter EXCEPT
          !.docsToReceive = @ - 1,
          !.cursorId = IF Head(replies).cursorId # 0 THEN Head(replies).cursorId ELSE @,
          !.err = IF Head(replies).cursorId # 0 THEN @
                  ELSE IF Head(replies).notFound THEN "cursor" ELSE "notFound"]
    /\ replies' = Tail(replies)
    /\ Broadcast
    /\ UNCHANGED <<query, stored, wire, cursor, returned, closed, ended, faults, panic, astray>>

(* The connection fails inside a document and nothing else is expected on  *)
(* it: what was sent on it is lost.                                        *)
replyCut ==
    /\ Running /\ replies # <<>> /\ Head(replies).docs # <<>> /\ query.cuts /\ Fault
    /\ Len(replies) = 1 /\ \A i \in DOMAIN wire : wire[i].op # "getMore"
    /\ iter' = [iter EXCEPT !.docsToReceive = @ - 1, !.err = "net"]
    /\ replies' = <<>> /\ wire' = <<>>
    /\ Broadcast
    /\ IF \E c \in Callers : app[c].pc \in {"getMore", "prefetch"} THEN Strays("cut") ELSE UNCHANGED astray
    /\ UNCHANGED <<query, stored, cursor, returned, closed, ended, panic>>

(* The connection is closed while a reply is expected on it: kill calls    *)
(* the reply function without arguments, and replyFunc uses them.          *)
connectionDies ==
    /\ Running /\ query.dies /\ Fault
    /\ \E i \in DOMAIN wire : wire[i].op # "kill"
    /\ panic' = "nil pointer dereference"
    /\ UNCHANGED <<query, ServerVars, iter, app, returned, closed, ended, astray>>

-----------------------------------------------------------------------------
(* The server: it may return fewer documents than it was asked for, and    *)
(* may find out late that there are no more.                               *)
Reply(docs, open, notFound) ==
    [docs |-> docs, total |-> Len(docs), cursorId |-> IF open THEN 1 ELSE 0, notFound |-> notFound]

Answer(docs, n, open, notFound) ==
    /\ IF query.limit # 0 /\ cursor.pos + n > LimitOf(query.limit) THEN Strays("overrun") ELSE UNCHANGED astray
    /\ replies' = Append(replies, Reply(docs, open, notFound))
    /\ wire' = Tail(wire)
    /\ cursor' = [state |-> IF open THEN "open" ELSE "gone", pos |-> cursor.pos + n]

serveBatch ==
    /\ Running /\ wire # <<>> /\ Head(wire).op # "kill"
    /\ LET m == Head(wire)
           left == Len(stored) - cursor.pos
           most == IF m.limit = 0 THEN left ELSE LET a == LimitOf(m.limit) IN IF a < left THEN a ELSE left
       IN  IF m.op = "getMore" /\ (cursor.state # "open" \/ m.id = 0)
           THEN /\ replies' = Append(replies, Reply(<<>>, FALSE, TRUE))
                /\ wire' = Tail(wire) /\ UNCHANGED <<cursor, astray>>
           ELSE IF m.op = "query" /\ query.fails THEN Answer(<<ErrorDoc>>, 0, FALSE, FALSE)
           ELSE \E n \in 0..most, open \in BOOLEAN :
                  /\ n = 0 => left = 0
                  /\ m.op = "query" /\ (m.limit < 0 \/ m.limit = 1) => ~open /\ n = most
                  /\ query.kind = "tail" /\ n > 0 => open
                  /\ query.kind # "tail" => (open => n > 0) /\ (n < left /\ ~(m.op = "query" /\ (m.limit < 0 \/ m.limit = 1)) => open)
                  /\ Answer(SubSeq(stored, cursor.pos + 1, cursor.pos + n), n, open, FALSE)
    /\ UNCHANGED <<query, stored, iter, app, returned, closed, ended, faults, panic>>

(* A kill may be sent on another connection and overtake requests.         *)
serveKill ==
    /\ Running
    /\ \E i \in DOMAIN wire :
          /\ wire[i].op = "kill"
          /\ wire' = RemoveAt(wire, i)
    /\ cursor' = [cursor EXCEPT !.state = "gone"]
    /\ UNCHANGED <<query, stored, iter, app, replies, returned, closed, ended, faults, panic, astray>>

(* Somebody adds a document for a tailable cursor, or the server drops it. *)
Grow ==
    /\ Running /\ query.kind = "tail" /\ cursor.state # "gone" /\ query.grows > Len(stored)
    /\ stored' = Append(stored, IF stored = <<>> THEN 1 ELSE Last(stored) + 1)
    /\ UNCHANGED <<query, iter, app, wire, replies, cursor, returned, closed, ended, faults, panic, astray>>

cursorDropped ==
    /\ Running /\ cursor.state = "open" /\ Fault
    /\ cursor' = [cursor EXCEPT !.state = "gone"]
    /\ UNCHANGED <<query, stored, iter, app, wire, replies, returned, closed, ended, panic, astray>>

Finished == ~Running \/ \A c \in Callers : app[c].pc = "done"

Next ==
    \/ Iter \/ NewIter
    \/ \E c \in Callers :
          \/ NextWaits(c) \/ NextTimesOut(c) \/ NextDelivers(c)
          \/ getMore(c) \/ getMoreFails(c) \/ Close(c) \/ Kill(c)
    \/ replyDocument \/ replyEmpty \/ replyCut \/ connectionDies
    \/ serveBatch \/ serveKill \/ Grow \/ cursorDropped

-----------------------------------------------------------------------------
Errs == {"nil", "net", "cursor", "notFound", "query"}
Pcs == {"start", "next", "wait", "getMore", "prefetch", "close", "kill", "limitClose", "limitKill", "done"}

TypeOK ==
    /\ iter.err \in Errs /\ iter.docsToReceive \in Nat /\ iter.limit \in Nat
    /\ iter.docsBeforeMore \in Int /\ iter.opLimit \in Int /\ iter.cursorId \in 0..1
    /\ iter.docData.nelems \in 0..Slots(iter.docData) /\ iter.timedout \in BOOLEAN
    /\ \A c \in Callers : app[c].pc \in Pcs /\ app[c].left \in Nat
    /\ cursor.state \in {"none", "open", "gone"} /\ cursor.pos \in 0..Len(stored)
    /\ closed \in BOOLEAN /\ ended \in {"no", "exhausted", "error"} /\ faults \in Nat
    /\ astray \subseteq {"overrun", "cut", "early", "unwoken"}

(* How a query may ask for what Iter does not provide: a Batch beyond the  *)
(* Limit, and an error that a limit of 1 replaces by ErrNotFound.          *)
Overasked == query.limit # 0 /\ BatchOf(query.batch) > LimitOf(query.limit)
HiddenError == query.fails /\ LimitOf(query.limit) = 1

(* What came was asked for, and no reply was lost behind the back of       *)
(* getMore.                                                                *)
Regular == astray \subseteq {"early", "unwoken"}

(* Next neither loses, repeats nor reorders documents when batches are     *)
(* prefetched and several goroutines call it, ends early only for an error *)
(* or a Close, and returns no more than the limit.  (As long as the        *)
(* iterator is regular, and but for the end of a query with a hidden       *)
(* error: ErrTells is about these.)                                        *)
Stream == INSTANCE ResultStream
    WITH docs <- stored, limit <- LimitOf(query.limit), failed <- ~closed /\ iter.err \notin {"nil", "notFound"}
HiddenEnd == HiddenError /\ ended = "no" /\ ended' = "exhausted" /\ UNCHANGED <<stored, returned, closed>>
StreamStep == Regular' => Stream!Next \/ HiddenEnd
ImplementsStream == Stream!Init /\ [][StreamStep]_Stream!streamVars

(* Next never has more documents than the limit asked for, which is the    *)
(* panic of session.go:3511, and no request asks for more, however batches *)
(* are requested ahead, unless Batch was beyond Limit or a reply was cut.  *)
LimitIsExact ==
    panic = LimitPanic \/ "overrun" \in astray => Overasked \/ "cut" \in astray

(* Close, or the end of the iteration, leaves no cursor open at the server *)
(* when nothing failed, also when another batch was still requested, but   *)
(* not when Close came before the first reply.                             *)
CursorIsReleased ==
    Running /\ Finished /\ wire = <<>> /\ faults = query.faults /\ "early" \notin astray =>
      cursor.state # "open"

-----------------------------------------------------------------------------
(* What the documentation and an assertion of session.go say without these *)
(* conditions.                                                             *)

(* "Once n documents have been returned by Next, the following call will   *)
(* return ErrNotFound" (session.go:2720): Batch may be beyond the limit.   *)
LimitHolds == panic # LimitPanic /\ (query.limit # 0 => Len(returned) <= LimitOf(query.limit))

(* "Err returns nil if no errors happened during iteration, or the actual  *)
(* error otherwise" (session.go:3388): an iteration whose Err is nil has   *)
(* returned everything, unless it was closed.                              *)
ErrTells == ended = "exhausted" /\ ~closed => Len(returned) = Stream!Wanted

(* "Close kills the server cursor used by the iterator, if any"            *)
(* (session.go:3404).                                                      *)
CloseKills == Running /\ Finished /\ wire = <<>> /\ faults = query.faults => cursor.state # "open"

(* Next returns "false at the end of the result set or if an error         *)
(* happened" (session.go:3465): it does not wait for ever, but for the     *)
(* next document behind a tailable cursor, or when the program panicked.   *)
NextReturns ==
    \A c \in Callers : app[c].pc = "wait" /\ query.kind # "tail" ~> app[c].pc # "wait" \/ ~Running

=============================================================================
