------------------------------ MODULE Playback ------------------------------
(***************************************************************************)
(* The core of "mongoreplay play" (play.go, execute.go, cursors.go): the   *)
(* recording is read once to learn which cursors are created by which      *)
(* reply and how often they are used (newPreprocessCursorManager), then    *)
(* Play hands each op to the goroutine of its connection, which executes   *)
(* it on the live server.  A recorded reply and the live reply to the same *)
(* request are paired to learn which live cursor stands for the recorded   *)
(* one; an op that uses a recorded cursor waits until it is known.         *)
(*                                                                         *)
(* An op of the recording is its request, reply or end of connection; a    *)
(* request is identified by its position in the file (its RequestID and    *)
(* endpoints), a live cursor by the request and the generation that got it *)
(* from the server.  Ops that neither create nor use a cursor, driver ops  *)
(* and ops that do not parse behave like a request without a reply.        *)
(***************************************************************************)
EXTENDS Integers, Sequences, FiniteSets

CONSTANTS
    Conns,       \* connections of the recording (SeenConnectionNum)
    Cursors,     \* cursor ids of the recording
    QueueCap,    \* Bound: capacity of a connection's channel (10000 in the code)
    Cases        \* invocations of the tool: records of
                 \*   cursors, useLists: those of the recording; <<k>> is the list of a getMore
                 \*   maxOps:     Bound: number of ops in the recording
                 \*   repeat:     --repeat
                 \*   preprocess: FALSE is --no-preprocess
                 \*   faults:     what may go wrong outside the tool, a subset of AllFaults

(* "connect"   a connection to the server cannot be opened                 *)
(* "nocursor"  the live server answers without a cursor where the recorded *)
(*             one had one                                                 *)
(* "reorder"   the recording holds a use of a cursor before the reply that *)
(*             creates it, or without it                                   *)
(* "expiry"    an entry of a cache outlives its time to live               *)
AllFaults == {"connect", "nocursor", "reorder", "expiry"}

ASSUME QueueCapAssumption == QueueCap \in Nat \ {0}
ASSUME CasesAssumption ==
    \A x \in Cases : /\ x.cursors \subseteq Cursors /\ x.useLists \subseteq Seq(x.cursors) \ {<<>>}
                     /\ x.maxOps \in Nat /\ x.repeat \in Nat \ {0} /\ x.preprocess \in BOOLEAN
                     /\ x.faults \subseteq AllFaults

VARIABLES
    case,        \* the invocation
    recording,   \* the playback file
    phase,       \* "preprocess", "dispatch", "wait" or "done"
    cursorsSeen, \* what preprocessing has seen of each cursor
    info,        \* cursorInfos and opToCursors, or the cursorCache
    filePos,     \* position of OpChan in the file
    generation,  \* its generation
    chan,        \* the buffered ops of each connection's channel
    chanState,   \* "none", "open" or "closed"
    pc,          \* where each connection's goroutine is
    current,     \* the op it executes
    todo,        \* the cursors of that op still to be rewritten
    got,         \* the live cursors found for it
    connected,   \* its socket is open
    incomplete,  \* IncompleteReplies: halves of reply pairs
    complete,    \* CompleteReplies
    crashed,     \* the process died of a second close(failChan)
    sent,        \* history: uses of cursors sent to the server
    skips        \* history: lookups that made GetCursor return false

input == <<case, recording>>
playVars == <<phase, filePos, generation>>
connVars == <<chan, chanState, pc, current, todo, got, connected>>
replyVars == <<incomplete, complete>>
history == <<sent, skips>>
vars == <<input, playVars, cursorsSeen, info, connVars, replyVars, crashed, history>>

UseLists == case.useLists
MaxOps == case.maxOps
Repeat == case.repeat
preprocess == case.preprocess
Faults == case.faults

Requests == {"query", "use"}
Positions == 1..MaxOps
Generations == 0..(Repeat - 1)

NoConn == "noConn"
NoLive == <<0, 0>>
Lives == (Positions \X Generations) \cup {NoLive}

Ops == [kind : {"query", "use", "reply", "eof"}, conn : Conns,
        to : 0..MaxOps,                      \* the request a reply answers
        curs : UseLists \cup {<<k>> : k \in Cursors} \cup {<<>>}]

Items == [pos : Positions, gen : Generations]
NoItem == [pos |-> 0, gen |-> 0]

Halves == [key : Items, from : {"file", "wire"}, file : Cursors \cup {0}, live : Lives]
Pairs == [file : Cursors, live : Lives]

TypeOK ==
    /\ case \in Cases
    /\ recording \in Seq(Ops) /\ Len(recording) <= MaxOps
    /\ phase \in {"preprocess", "dispatch", "wait", "done"}
    /\ cursorsSeen \in [Cursors -> [origin : 0..MaxOps, replyConn : Conns \cup {NoConn},
                                    replySeen : BOOLEAN, uses : Nat]]
    /\ \A k \in Cursors :
         /\ info[k].mapped \in BOOLEAN /\ info[k].success \in BOOLEAN /\ info[k].fail \in BOOLEAN
         /\ info[k].live \in Lives
         /\ info[k].origin \in 0..MaxOps
         /\ info[k].replyConn \in Conns \cup {NoConn}
    /\ filePos \in 1..(MaxOps + 1)
    /\ generation \in 0..Repeat
    /\ \A c \in Conns : chan[c] \in Seq(Items) /\ Len(chan[c]) <= QueueCap
    /\ chanState \in [Conns -> {"none", "open", "closed"}]
    /\ pc \in [Conns -> {"none", "idle", "lookup", "await", "execute", "handle", "done"}]
    /\ current \in [Conns -> Items \cup {NoItem}]
    /\ todo \in [Conns -> UseLists \cup Seq(Cursors)]
    /\ got \in [Conns -> Seq(Lives)]
    /\ connected \in [Conns -> BOOLEAN]
    /\ incomplete \subseteq Halves
    /\ complete \subseteq Pairs
    /\ crashed \in BOOLEAN

-----------------------------------------------------------------------------
(* The recording.                                                          *)

NoInfo == [mapped |-> FALSE, success |-> FALSE, fail |-> FALSE, live |-> NoLive,
           uses |-> 0, replyConn |-> NoConn, origin |-> 0]

NotSeen == [origin |-> 0, replyConn |-> NoConn, replySeen |-> FALSE, uses |-> 0]

Init ==
    /\ case \in Cases
    /\ recording = <<>>
    /\ phase = "preprocess"
    /\ cursorsSeen = [k \in Cursors |-> NotSeen]
    /\ info = [k \in Cursors |-> NoInfo]
    /\ filePos = 1
    /\ generation = 0
    /\ chan = [c \in Conns |-> <<>>]
    /\ chanState = [c \in Conns |-> "none"]
    /\ pc = [c \in Conns |-> "none"]
    /\ current = [c \in Conns |-> NoItem]
    /\ todo = [c \in Conns |-> <<>>]
    /\ got = [c \in Conns |-> <<>>]
    /\ connected = [c \in Conns |-> FALSE]
    /\ incomplete = {}
    /\ complete = {}
    /\ crashed = FALSE
    /\ sent = {}
    /\ skips = {}

Recorded(kind, c) == {i \in DOMAIN recording : recording[i].kind = kind /\ recording[i].conn = c}

(* The reply that creates cursor k: the one that answers a query.          *)
Creates(i, k) ==
    /\ recording[i].kind = "reply" /\ recording[i].curs = <<k>>
    /\ recording[recording[i].to].kind = "query"
Created(k) == \E i \in DOMAIN recording : Creates(i, k)

(* The query of the recording whose reply created cursor k.                *)
OriginOf(k) == {recording[i].to : i \in {j \in DOMAIN recording : Creates(j, k)}}

(* The ops a capture can hold next.  A query creates at most one cursor    *)
(* and cursor ids are not reused; the reply to a getMore carries the id of *)
(* the cursor while there is more.                                         *)
QueryOps(c) == {[kind |-> "query", conn |-> c, to |-> 0, curs |-> <<>>]}
UseOps(c) ==
    {[kind |-> "use", conn |-> c, to |-> 0, curs |-> ks] :
        ks \in {l \in UseLists : "reorder" \in Faults \/ \A i \in DOMAIN l : Created(l[i])}}
ReplyOps(c) ==
    {[kind |-> "reply", conn |-> c, to |-> i, curs |-> ks] :
        i \in {j \in Recorded("query", c) \cup Recorded("use", c) :
                 \A r \in Recorded("reply", c) : recording[r].to # j},
        ks \in {<<k>> : k \in case.cursors} \cup {<<>>}}
EndOps(c) == {[kind |-> "eof", conn |-> c, to |-> 0, curs |-> <<>>] :
                 i \in Recorded("query", c) \cup Recorded("use", c)}

CanFollow(op) ==
    /\ Recorded("eof", op.conn) = {}
    /\ op.kind = "reply" /\ op.curs # <<>> =>
         \/ recording[op.to].kind = "query" /\ ~Created(op.curs[1])
         \/ recording[op.to].kind = "use" /\ op.curs = recording[op.to].curs

NextOps == {op \in UNION {QueryOps(c) \cup UseOps(c) \cup ReplyOps(c) \cup EndOps(c) : c \in Conns} :
              CanFollow(op)}

-----------------------------------------------------------------------------
(* Preprocessing: one pass over the file by one goroutine.                 *)

(* How often cursor k occurs in a list of cursors.                         *)
Occurrences(l, k) == Cardinality({i \in DOMAIN l : l[i] = k})

trackSeen(seen, k, op) == [seen EXCEPT !.uses = @ + Occurrences(op.curs, k)]

(* opOriginKey is only stored when the reply is the first the pass sees of *)
(* the cursor; replyConn is that of the last reply that carries it.        *)
trackReplied(seen, op) ==
    [seen EXCEPT !.origin = IF ~seen.replySeen /\ seen.uses = 0 THEN op.to ELSE @,
                 !.replyConn = op.conn,
                 !.replySeen = TRUE]

PreprocessOp ==
    /\ phase = "preprocess"
    /\ Len(recording) < MaxOps
    /\ \E op \in NextOps :
         /\ recording' = Append(recording, op)
         /\ cursorsSeen' =
              [k \in Cursors |->
                 IF op.kind = "use" THEN trackSeen(cursorsSeen[k], k, op)
                 ELSE IF op.kind = "reply" /\ op.curs = <<k>>
                   THEN trackReplied(cursorsSeen[k], op)
                   ELSE cursorsSeen[k]]
    /\ UNCHANGED <<case, playVars, info, connVars, replyVars, crashed, history>>

(* Cursors that are both created and used get an entry.                    *)
newPreprocessCursorManager ==
    /\ phase = "preprocess"
    /\ phase' = "dispatch"
    /\ info' = [k \in Cursors |->
         IF preprocess /\ cursorsSeen[k].replySeen /\ cursorsSeen[k].uses > 0
         THEN [NoInfo EXCEPT !.mapped = TRUE,
                             !.uses = cursorsSeen[k].uses,
                             !.replyConn = cursorsSeen[k].replyConn,
                             !.origin = cursorsSeen[k].origin]
         ELSE NoInfo]
    /\ UNCHANGED <<input, filePos, generation, cursorsSeen, connVars, replyVars,
                   crashed, history>>

-----------------------------------------------------------------------------
(* Play and OpChan.                                                        *)

AtEnd == filePos > Len(recording)

(* OpChan starts over for the next generation.                             *)
NextGeneration ==
    /\ ~crashed /\ phase = "dispatch"
    /\ AtEnd /\ generation < Repeat - 1
    /\ filePos' = 1
    /\ generation' = generation + 1
    /\ UNCHANGED <<input, phase, cursorsSeen, info, connVars, replyVars, crashed, history>>

(* An end of connection is suppressed unless the generation is the last.   *)
SuppressEOF ==
    /\ ~crashed /\ phase = "dispatch" /\ ~AtEnd
    /\ recording[filePos].kind = "eof" /\ generation < Repeat - 1
    /\ filePos' = filePos + 1
    /\ UNCHANGED <<input, phase, generation, cursorsSeen, info, connVars, replyVars,
                   crashed, history>>

(* The first op of a connection starts its goroutine, whose socket may not *)
(* open.                                                                   *)
newExecutionConnection(c) ==
    /\ chanState[c] = "none"
    /\ chanState' = [chanState EXCEPT ![c] = "open"]
    /\ pc' = [pc EXCEPT ![c] = "idle"]
    /\ \E up \in (IF "connect" \in Faults THEN BOOLEAN ELSE {TRUE}) :
         connected' = [connected EXCEPT ![c] = up]

(* Play sends an op to its connection, waiting while the channel is full.  *)
DispatchOp ==
    /\ ~crashed /\ phase = "dispatch" /\ ~AtEnd
    /\ recording[filePos].kind # "eof"
    /\ LET c == recording[filePos].conn IN
         /\ \/ newExecutionConnection(c)
            \/ chanState[c] = "open" /\ UNCHANGED <<chanState, pc, connected>>
         /\ Len(chan[c]) < QueueCap
         /\ chan' = [chan EXCEPT ![c] = Append(@, [pos |-> filePos, gen |-> generation])]
    /\ filePos' = filePos + 1
    /\ UNCHANGED <<input, phase, generation, cursorsSeen, info, current, todo, got,
                   replyVars, crashed, history>>

(* Play closes the channel at the recorded end of the connection.          *)
DispatchEOF ==
    /\ ~crashed /\ phase = "dispatch" /\ ~AtEnd
    /\ recording[filePos].kind = "eof" /\ generation = Repeat - 1
    /\ chanState' = [chanState EXCEPT ![recording[filePos].conn] = "closed"]
    /\ filePos' = filePos + 1
    /\ UNCHANGED <<input, phase, generation, cursorsSeen, info, chan, pc, current, todo,
                   got, connected, replyVars, crashed, history>>

(* The file is through: Play closes the channels that are left.            *)
CloseChans ==
    /\ ~crashed /\ phase = "dispatch" /\ AtEnd /\ generation = Repeat - 1
    /\ chanState' = [c \in Conns |-> IF chanState[c] = "open" THEN "closed" ELSE chanState[c]]
    /\ phase' = "wait"
    /\ UNCHANGED <<input, filePos, generation, cursorsSeen, info, chan, pc, current, todo,
                   got, connected, replyVars, crashed, history>>

(* ConnectionChansWaitGroup.Wait()                                         *)
PlayReturn ==
    /\ ~crashed /\ phase = "wait"
    /\ \A c \in Conns : pc[c] \in {"none", "done"}
    /\ phase' = "done"
    /\ UNCHANGED <<input, filePos, generation, cursorsSeen, info, connVars, replyVars,
                   crashed, history>>

Play == newPreprocessCursorManager \/ NextGeneration \/ SuppressEOF \/ DispatchOp
          \/ DispatchEOF \/ CloseChans \/ PlayReturn

-----------------------------------------------------------------------------
(* The goroutine of one connection.                                        *)

HeadOp(c) == recording[Head(chan[c]).pos]

Receives(c, kind) ==
    /\ ~crashed /\ pc[c] = "idle" /\ chan[c] # <<>> /\ connected[c]
    /\ HeadOp(c).kind = kind
    /\ chan' = [chan EXCEPT ![c] = Tail(@)]

(* Without a socket every op of the connection is skipped.                 *)
SkipNotConnected(c) ==
    /\ ~crashed /\ pc[c] = "idle" /\ chan[c] # <<>> /\ ~connected[c]
    /\ chan' = [chan EXCEPT ![c] = Tail(@)]
    /\ UNCHANGED <<input, playVars, cursorsSeen, info, chanState, pc, current, todo, got,
                   connected, replyVars, crashed, history>>

(* Plausible bug: the halves of reply pairs are matched without their key. *)
completeReply_NoKey(key, from, file, live) ==
    LET other == {h \in incomplete : h.from # from} IN
      \/ /\ other = {}
         /\ incomplete' = incomplete \cup {[key |-> key, from |-> from, file |-> file, live |-> live]}
         /\ UNCHANGED complete
      \/ \E h \in other :
           /\ complete' = complete \cup {IF from = "file" THEN [file |-> file, live |-> h.live]
                                                       ELSE [file |-> h.file, live |-> live]}
           /\ incomplete' = incomplete \ {h}

(* One half of a reply pair: it waits for the other or completes the pair. *)
completeReply(key, from, file, live) ==
    LET other == {h \in incomplete : h.key = key /\ h.from # from}
        same == {h \in incomplete : h.key = key /\ h.from = from} IN
      \/ /\ other = {}
         /\ incomplete' = (incomplete \ same) \cup
                            {[key |-> key, from |-> from, file |-> file, live |-> live]}
         /\ UNCHANGED complete
      \/ \E h \in other :
           /\ complete' = complete \cup {IF from = "file" THEN [file |-> file, live |-> h.live]
                                                       ELSE [file |-> h.file, live |-> live]}
           /\ incomplete' = incomplete \ {h}

(* A recorded reply: AddFromFile keeps it if it carries a cursor.          *)
AddFromFile(c) ==
    /\ Receives(c, "reply")
    /\ IF HeadOp(c).curs = <<>> THEN UNCHANGED replyVars
       ELSE completeReply([pos |-> HeadOp(c).to, gen |-> Head(chan[c]).gen], "file",
                          HeadOp(c).curs[1], NoLive)
    /\ pc' = [pc EXCEPT ![c] = "handle"]
    /\ UNCHANGED <<input, playVars, cursorsSeen, info, chanState, current, todo, got,
                   connected, crashed, history>>

ReceiveQuery(c) ==
    /\ Receives(c, "query")
    /\ current' = [current EXCEPT ![c] = Head(chan[c])]
    /\ pc' = [pc EXCEPT ![c] = "execute"]
    /\ UNCHANGED <<input, playVars, cursorsSeen, info, chanState, todo, got, connected,
                   replyVars, crashed, history>>

(* A use of cursors: rewriteCursors looks each of them up.                 *)
ReceiveUse(c) ==
    /\ Receives(c, "use")
    /\ current' = [current EXCEPT ![c] = Head(chan[c])]
    /\ todo' = [todo EXCEPT ![c] = HeadOp(c).curs]
    /\ got' = [got EXCEPT ![c] = <<>>]
    /\ pc' = [pc EXCEPT ![c] = "lookup"]
    /\ UNCHANGED <<input, playVars, cursorsSeen, info, chanState, connected, replyVars,
                   crashed, history>>

Looked(c, k) == pc[c] = "lookup" /\ todo[c] # <<>> /\ k = Head(todo[c]) /\ ~crashed

(* GetCursor returned (0, false): the cursor is dropped from the op.       *)
DropCursor(c, k, why) ==
    /\ skips' = skips \cup {[cursor |-> k, conn |-> c, why |-> why]}
    /\ todo' = [todo EXCEPT ![c] = Tail(@)]
    /\ pc' = [pc EXCEPT ![c] = "lookup"]
    /\ UNCHANGED <<input, playVars, cursorsSeen, info, chan, chanState, current, got,
                   connected, replyVars, crashed, sent>>

GetCursorMissing(c) ==
    \E k \in Cursors : Looked(c, k) /\ ~info[k].mapped /\ DropCursor(c, k, "unknown")

(* cursorCache.GetCursor never blocks.                                     *)
GetCursorCached(c) ==
    \E k \in Cursors :
      /\ ~preprocess /\ Looked(c, k) /\ info[k].mapped
      /\ got' = [got EXCEPT ![c] = Append(@, info[k].live)]
      /\ todo' = [todo EXCEPT ![c] = Tail(@)]
      /\ UNCHANGED <<input, playVars, cursorsSeen, info, chan, chanState, pc, current,
                     connected, replyVars, crashed, history>>

(* Not set yet, and expected on this very connection: do not wait.         *)
GetCursorSameConn(c) ==
    \E k \in Cursors :
      /\ preprocess /\ Looked(c, k) /\ info[k].mapped
      /\ ~info[k].success /\ c = info[k].replyConn
      /\ DropCursor(c, k, "sameConn")

GetCursorBlock(c) ==
    \E k \in Cursors :
      /\ preprocess /\ Looked(c, k) /\ info[k].mapped
      /\ info[k].success \/ c # info[k].replyConn
      /\ pc' = [pc EXCEPT ![c] = "await"]
      /\ UNCHANGED <<input, playVars, cursorsSeen, info, chan, chanState, current, todo, got,
                     connected, replyVars, crashed, history>>

(* Plausible bug: the count of uses left is off by one.                    *)
GetCursorSuccess_OffByOne(c) ==
    LET k == Head(todo[c]) IN
      /\ ~crashed /\ pc[c] = "await" /\ info[k].success
      /\ info' = [info EXCEPT ![k].uses = @ - 1, ![k].mapped = info[k].uses - 1 > 1]
      /\ got' = [got EXCEPT ![c] = Append(@, info[k].live)]
      /\ todo' = [todo EXCEPT ![c] = Tail(@)]
      /\ pc' = [pc EXCEPT ![c] = "lookup"]
      /\ UNCHANGED <<input, playVars, cursorsSeen, chan, chanState, current, connected,
                     replyVars, crashed, history>>

(* case <-successChan: count the use, forget the cursor after the last.    *)
GetCursorSuccess(c) ==
    LET k == Head(todo[c]) IN
      /\ ~crashed /\ pc[c] = "await" /\ info[k].success
      /\ info' = [info EXCEPT ![k].uses = @ - 1, ![k].mapped = info[k].uses - 1 > 0]
      /\ got' = [got EXCEPT ![c] = Append(@, info[k].live)]
      /\ todo' = [todo EXCEPT ![c] = Tail(@)]
      /\ pc' = [pc EXCEPT ![c] = "lookup"]
      /\ UNCHANGED <<input, playVars, cursorsSeen, chan, chanState, current, connected,
                     replyVars, crashed, history>>

(* case <-failChan                                                         *)
GetCursorFailed(c) ==
    /\ ~crashed /\ pc[c] = "await" /\ info[Head(todo[c])].fail
    /\ DropCursor(c, Head(todo[c]), "failed")

GetCursor(c) == GetCursorMissing(c) \/ GetCursorCached(c) \/ GetCursorSameConn(c)
                  \/ GetCursorBlock(c) \/ GetCursorSuccess(c) \/ GetCursorFailed(c)

(* The cursors are rewritten; an op left without any is not executed.      *)
rewriteCursors(c) ==
    /\ ~crashed /\ pc[c] = "lookup" /\ todo[c] = <<>>
    /\ pc' = [pc EXCEPT ![c] = IF got[c] = <<>> THEN "idle" ELSE "execute"]
    /\ sent' = sent \cup {[pos |-> current[c].pos, gen |-> current[c].gen, live |-> got[c][i]] :
                          i \in DOMAIN got[c]}
    /\ UNCHANGED <<input, playVars, cursorsSeen, info, chan, chanState, current, todo, got,
                   connected, replyVars, crashed, skips>>

(* Plausible bug: a failed op does not wake those that wait for its cursor.*)
MarkFailed_Nothing(pos) == UNCHANGED <<info, crashed>>

(* Plausible bug: the cursors are looked up by connection, not by op.      *)
MarkFailed_ByConnection(pos) ==
    LET failed == {k \in Cursors : info[k].mapped /\ info[k].replyConn = recording[pos].conn} IN
      /\ info' = [k \in Cursors |-> IF k \in failed THEN [info[k] EXCEPT !.fail = TRUE]
                                                     ELSE info[k]]
      /\ crashed' = (\E k \in failed : info[k].fail)

(* Closes failChan of the cursor the op would have created; closing it a   *)
(* second time panics.                                                     *)
MarkFailed(pos) ==
    LET failed == {k \in Cursors : preprocess /\ info[k].mapped /\ info[k].origin = pos} IN
      /\ info' = [k \in Cursors |-> IF k \in failed THEN [info[k] EXCEPT !.fail = TRUE]
                                                     ELSE info[k]]
      /\ crashed' = (\E k \in failed : info[k].fail)

(* The op fails on the live connection.                                    *)
ExecuteFails(c) ==
    /\ ~crashed /\ pc[c] = "execute"
    /\ MarkFailed(current[c].pos)
    /\ pc' = [pc EXCEPT ![c] = "idle"]
    /\ UNCHANGED <<input, playVars, cursorsSeen, chan, chanState, current, todo, got,
                   connected, replyVars, history>>

(* The cursor a live server can return: that of the getMore or none, a new *)
(* one or none for a query.                                                *)
LiveCursors(c) ==
    LET pos == current[c].pos IN
      IF recording[pos].kind = "use" THEN {Head(got[c]), NoLive}
      ELSE IF "nocursor" \notin Faults /\ \E k \in Cursors : pos \in OriginOf(k)
        THEN {<<pos, current[c].gen>>}
        ELSE {<<pos, current[c].gen>>, NoLive}

(* The live reply: AddFromWire keeps it if it carries a cursor.            *)
ExecuteReplies(c) ==
    /\ ~crashed /\ pc[c] = "execute"
    /\ \E live \in LiveCursors(c) :
         IF live = NoLive THEN UNCHANGED replyVars
         ELSE completeReply(current[c], "wire", 0, live)
    /\ pc' = [pc EXCEPT ![c] = "handle"]
    /\ UNCHANGED <<input, playVars, cursorsSeen, info, chan, chanState, current, todo, got,
                   connected, crashed, history>>

(* preprocessCursorManager sets a known cursor once; the cache always.     *)
SetCursor(i, live) ==
    IF ~preprocess THEN [i EXCEPT !.mapped = TRUE, !.live = live]
    ELSE IF i.mapped /\ ~i.success THEN [i EXCEPT !.success = TRUE, !.live = live]
    ELSE i

(* Every complete pair tells the cursor manager its live cursor; of two    *)
(* pairs for one cursor either may come last.                              *)
handleCompletedReplies(c) ==
    /\ ~crashed /\ pc[c] = "handle"
    /\ \E pick \in [{p.file : p \in complete} -> complete] :
         /\ \A k \in DOMAIN pick : pick[k].file = k
         /\ info' = [k \in Cursors |-> IF k \in DOMAIN pick THEN SetCursor(info[k], pick[k].live)
                                                           ELSE info[k]]
    /\ complete' = {}
    /\ pc' = [pc EXCEPT ![c] = "idle"]
    /\ UNCHANGED <<input, playVars, cursorsSeen, chan, chanState, current, todo, got,
                   connected, incomplete, crashed, history>>

(* The channel is closed and drained: the goroutine ends.                  *)
ConnectionEnds(c) ==
    /\ ~crashed /\ pc[c] = "idle" /\ chan[c] = <<>> /\ chanState[c] = "closed"
    /\ pc' = [pc EXCEPT ![c] = "done"]
    /\ UNCHANGED <<input, playVars, cursorsSeen, info, chan, chanState, current, todo, got,
                   connected, replyVars, crashed, history>>

Connection(c) == SkipNotConnected(c) \/ AddFromFile(c) \/ ReceiveQuery(c) \/ ReceiveUse(c)
                   \/ GetCursor(c) \/ rewriteCursors(c) \/ ExecuteFails(c) \/ ExecuteReplies(c)
                   \/ handleCompletedReplies(c) \/ ConnectionEnds(c)

(* An entry of IncompleteReplies (60s) or of the cursorCache (600s) is     *)
(* dropped when its time to live is over.                                  *)
Expire ==
    /\ ~crashed /\ "expiry" \in Faults /\ phase \in {"dispatch", "wait"}
    /\ \/ /\ \E h \in incomplete : incomplete' = incomplete \ {h}
          /\ UNCHANGED info
       \/ /\ ~preprocess
          /\ \E k \in Cursors : info[k].mapped /\ info' = [info EXCEPT ![k] = NoInfo]
          /\ UNCHANGED incomplete
    /\ UNCHANGED <<input, playVars, cursorsSeen, connVars, complete, crashed, history>>

Terminating == (phase = "done" \/ crashed) /\ UNCHANGED vars

Next == PreprocessOp \/ Play \/ (\E c \in Conns : Connection(c)) \/ Expire \/ Terminating

Spec == Init /\ [][Next]_vars

(* Play's loop and every connection's goroutine run whenever they can, and *)
(* the live server answers or fails each request; that it does is assumed, *)
(* the tool waits without a timeout.                                       *)
FairSpec == Spec /\ WF_vars(Play) /\ \A c \in Conns : WF_vars(Connection(c))

-----------------------------------------------------------------------------
(* Properties.                                                             *)

(* A getMore or killCursors reaches the server only with live cursors that *)
(* the very requests behind its recorded cursors obtained: pairing recorded*)
(* and live replies never mixes up requests.                               *)
SentCursorsAreRight ==
    \A s \in sent : \E i \in DOMAIN recording[s.pos].curs :
        s.live[1] \in OriginOf(recording[s.pos].curs[i])

(* The process does not die of a channel closed twice, unless the file is  *)
(* played more than once: MarkFailed has no notion of generations.         *)
NeverCrashes == Repeat = 1 => ~crashed

(* A cursor that the file both creates and uses is not forgotten while an  *)
(* op still has to look it up: numUsesLeft counts every use (those of one  *)
(* pass: the next generation finds it gone).                               *)
CursorNotForgotten ==
    preprocess /\ Repeat = 1 => \A s \in skips : s.why = "unknown" =>
        ~(cursorsSeen[s.cursor].replySeen /\ cursorsSeen[s.cursor].uses > 0)

(* Play returns after every connection has worked off its ops.             *)
PlayReturnsLast ==
    phase = "done" => \A c \in Conns : chan[c] = <<>> /\ pc[c] \in {"none", "done"}

(* Playback ends, whatever the lookups wait for, when nothing goes wrong   *)
(* outside the tool (with --repeat the process may die, see the README).   *)
PlaybackEnds == case.faults = {} => <>(phase = "done" \/ (crashed /\ Repeat > 1))

(* The state is well formed, no channel is closed twice, and Play returns  *)
(* only after every connection has worked off its ops.                     *)
Consistent == TypeOK /\ NeverCrashes /\ PlayReturnsLast
=============================================================================
