------------------------------ MODULE Commands ------------------------------
(***************************************************************************)
(* The commands of mongoreplay around a playback file: record writes it,   *)
(* filter splits it, monitor and play make statistics of it.  (record.go,  *)
(* playbackfile.go, filter.go, monitor.go, stat_collector.go, play.go.)    *)
(*                                                                         *)
(* What was captured is recorded, and the file is then given to one of the *)
(* other commands.  Goroutines: OpChan that reads a file, the writers of   *)
(* filter, the recorder of the statistics and the connections of play;     *)
(* each step is what happens between two operations on channels.           *)
(***************************************************************************)
EXTENDS WireOps, TLC

CONSTANTS
    Cases,      \* by name: the captured ops and the options of the commands
    QueueCap,   \* ops that may wait for one writer of filter
    StatCap,    \* statistics that may wait for the recorder
    MaxFaults   \* how many reads and writes fail

ASSUME BoundsAssumption == {QueueCap, StatCap} \subseteq Nat \ {0} /\ MaxFaults \in Nat

VARIABLES
    config,    \* the case
    pc,        \* where the main goroutine is
    captured,  \* how many of the captured ops the recorder has taken
    recFail,   \* the first error of the recorder
    file,      \* the playback file: recorded ops
    reader,    \* OpChan: the next op it sends, and how it ended
    last,      \* lastOpTime of filter, or -1
    queues,    \* the channels of filter's writers
    writers,   \* the state of filter's writers
    out,       \* filter's files
    unresolved,\* UnresolvedOps: key to statistic
    stream,    \* statStream
    recorder,  \* the goroutine that records statistics
    stats,     \* what was recorded, in order
    played,    \* of each connection of play: how many ops it has done
    result,    \* the error the command printed or returned
    faults     \* how many reads and writes failed

vars == <<config, pc, captured, recFail, file, reader, last, queues, writers, out, unresolved, stream,
          recorder, stats, played, result, faults>>
recording == <<captured, recFail, file>>
filtering == <<last, queues, writers, out>>
counting == <<unresolved, stream, recorder, stats, played>>

Files == 0..(config.split - 1)
Connections == {config.ops[i].conn : i \in DOMAIN config.ops}
NoReader == [next |-> 1, err |-> "none"]
NoStats == [k \in {} |-> 0]

(* Record: replies are shortened unless --full-replies was given.  What    *)
(* becomes of an op, and what those who read it from the file make of it,  *)
(* depends on nothing else; it is worked out for the initial state.        *)
Shortens(case, op) == ~case.fullReplies /\ op.raw.header.opcode \in {"reply", "commandreply"}

Recorded(case, op) ==
    LET s == IF Shortens(case, op) THEN ShortenReply(op.raw) ELSE [raw |-> op.raw, err |-> "nil"]
    IN  [n |-> op.n, seen |-> op.seen, conn |-> op.conn, endpoint |-> op.endpoint, means |-> op.means,
         raw |-> s.raw, err |-> s.err, short |-> Shortens(case, op), parsed |-> Parse(s.raw),
         header |-> Unpacked(s.raw).raw.header]

Init ==
    /\ \E name \in DOMAIN Cases :
         LET case == Cases[name]
         IN  config = [case EXCEPT !.ops = [i \in DOMAIN case.ops |-> Recorded(case, case.ops[i])]]
    /\ pc = "record" /\ captured = 0 /\ recFail = "nil" /\ file = <<>> /\ reader = NoReader
    /\ last = -1 /\ queues = [i \in Files |-> <<>>] /\ writers = [i \in Files |-> "running"]
    /\ out = [i \in Files |-> <<>>]
    /\ unresolved = NoStats /\ stream = <<>> /\ recorder = "none" /\ stats = <<>>
    /\ played = [c \in Connections |-> 0] /\ result = "nil" /\ faults = 0

Fault == faults < MaxFaults /\ faults' = faults + 1
NoFault == UNCHANGED faults

-----------------------------------------------------------------------------
(* One that cannot be shortened is left out; after an error nothing more   *)
(* is written.                                                             *)
recordOp ==
    /\ pc = "record" /\ captured < Len(config.ops)
    /\ captured' = captured + 1
    /\ LET op == config.ops[captured + 1]
       IN  \/ /\ recFail = "nil" /\ op.err = "nil" /\ NoFault
              /\ file' = Append(file, op) /\ UNCHANGED recFail
           \/ /\ recFail = "nil" /\ op.err = "nil" /\ Fault
              /\ recFail' = "bad" /\ UNCHANGED file
           \/ /\ (recFail # "nil" \/ op.err # "nil") /\ NoFault
              /\ UNCHANGED <<file, recFail>>
    /\ UNCHANGED <<config, pc, reader, filtering, counting, result>>

recordEnds ==
    /\ pc = "record" /\ captured = Len(config.ops)
    /\ pc' = config.command
    /\ UNCHANGED <<config, recording, reader, filtering, counting, result, faults>>

(* OpChan hands one op after the other to whoever receives; a file that    *)
(* cannot be read any further ends it as its end does, with another error. *)
HasOp == reader.err = "none" /\ reader.next <= Len(file)
NextOp == file[reader.next]
Received == reader' = [reader EXCEPT !.next = @ + 1]

(* OpChan closes the channel of ops before it hands over its error.        *)
(* Plausible bug: it hands over its error first.                           *)
ChanClosedLast == reader.err # "none" /\ pc = "errChan"
ChanClosed == reader.err # "none"

opChanEnds ==
    /\ pc \in {"filter", "errChan", "monitor"} /\ reader.err = "none"
    /\ \/ reader.next > Len(file) /\ reader' = [reader EXCEPT !.err = "EOF"] /\ NoFault
       \/ reader.next <= Len(file) /\ pc # "errChan" /\ reader' = [reader EXCEPT !.err = "bad"] /\ Fault
    /\ UNCHANGED <<config, pc, recording, filtering, counting, result>>

-----------------------------------------------------------------------------
(* shouldFilterOp: it sets the end of what is kept when it sees the first  *)
(* op that is.                                                             *)
BeforeStart(op) == op.seen < config.start
(* Plausible bug: the duration is counted from the option, not from the    *)
(* first op kept.                                                          *)
LastOpTimeFromStart(op) == IF last = -1 /\ config.duration > 0 THEN config.start + config.duration ELSE last
LastOpTime(op) == IF last = -1 /\ config.duration > 0 THEN op.seen + config.duration ELSE last
AfterEnd(op) == LastOpTime(op) # -1 /\ op.seen > LastOpTime(op)
RemoveDriverOps == config.removeDriverOps \/ config.readOnly \/ config.writeOnly

ParseFails(op) == RemoveDriverOps /\ op.parsed.err # "nil"

shouldFilterOp(op) ==
    LET p == op.parsed.op
    IN  \/ BeforeStart(op) \/ AfterEnd(op)
        \/ RemoveDriverOps /\ IsDriverOp(p)
        \/ config.readOnly /\ ~IsReadOp(p)
        \/ ~config.readOnly /\ config.writeOnly /\ ~IsWriteOp(p)

FileOf(op) == op.conn % config.split

(* Parse replaces a compressed message by what is in it.                   *)
AfterParse(op) == IF RemoveDriverOps THEN [op EXCEPT !.raw = Unpacked(@).raw] ELSE op

(* Filter: the loop over the ops.                                          *)
filterOp ==
    /\ pc = "filter" /\ HasOp
    /\ BeforeStart(NextOp) \/ AfterEnd(NextOp) \/ ~ParseFails(NextOp)
    /\ last' = IF BeforeStart(NextOp) THEN last ELSE LastOpTime(NextOp)
    /\ \/ shouldFilterOp(NextOp) /\ UNCHANGED queues
       \/ /\ ~shouldFilterOp(NextOp) /\ Len(queues[FileOf(NextOp)]) < QueueCap
          /\ queues' = [queues EXCEPT ![FileOf(NextOp)] = Append(@, AfterParse(NextOp))]
    /\ Received
    /\ UNCHANGED <<config, pc, recording, writers, out, counting, result, faults>>

(* An op that cannot be parsed: Filter returns while its writers wait for  *)
(* more, and Execute waits for the end of OpChan.                          *)
filterStops ==
    /\ pc = "filter" /\ HasOp /\ ~BeforeStart(NextOp) /\ ~AfterEnd(NextOp) /\ ParseFails(NextOp)
    /\ Received /\ pc' = "errChan" /\ result' = "parse"
    /\ last' = LastOpTime(NextOp)
    /\ UNCHANGED <<config, recording, queues, writers, out, counting, faults>>

filterCloses ==
    /\ pc = "filter" /\ ChanClosed
    /\ pc' = "wait"
    /\ UNCHANGED <<config, recording, reader, filtering, counting, result, faults>>

(* newParallelPlaybackWriter; a writer that fails sends its error, which   *)
(* is received only after the writers have ended.                          *)
writeOp(i) ==
    /\ pc \in {"filter", "wait", "errChan"} /\ writers[i] = "running" /\ queues[i] # <<>>
    /\ queues' = [queues EXCEPT ![i] = Tail(@)]
    /\ \/ out' = [out EXCEPT ![i] = Append(@, Head(queues[i]))] /\ UNCHANGED writers /\ NoFault
       \/ writers' = [writers EXCEPT ![i] = "error"] /\ UNCHANGED out /\ Fault
    /\ UNCHANGED <<config, pc, recording, reader, last, counting, result>>

(* A file to which nothing was written is removed.                         *)
Removed == <<[n |-> 0]>>

writerEnds(i) ==
    /\ pc = "wait" /\ writers[i] = "running" /\ queues[i] = <<>>
    /\ \/ /\ writers' = [writers EXCEPT ![i] = "done"] /\ NoFault
          /\ out' = [out EXCEPT ![i] = IF @ = <<>> THEN Removed ELSE @]
       \/ out[i] = <<>> /\ writers' = [writers EXCEPT ![i] = "error"] /\ UNCHANGED out /\ Fault
    /\ UNCHANGED <<config, pc, recording, reader, last, queues, counting, result>>

filterReturns ==
    /\ pc = "wait" /\ \A i \in Files : writers[i] = "done"
    /\ pc' = "errChan"
    /\ UNCHANGED <<config, recording, reader, filtering, counting, result, faults>>

(* Execute takes the error of OpChan and returns.  The files are closed if *)
(* there are several; the end of a single one that is compressed is still  *)
(* in memory.                                                              *)
Flushed(s) == IF config.gzip /\ config.split = 1 THEN {SubSeq(s, 1, n) : n \in 0..Len(s)} ELSE {s}

executeReturns ==
    /\ pc = "errChan" /\ ChanClosed
    /\ pc' = "done" /\ result' = IF result = "nil" /\ reader.err # "EOF" THEN "read" ELSE result
    /\ out' \in {[out EXCEPT ![0] = s] : s \in IF out[0] = Removed THEN {Removed} ELSE Flushed(out[0])}
    /\ UNCHANGED <<config, recording, reader, last, queues, writers, counting, faults>>

-----------------------------------------------------------------------------
(* Statistics: a line is about an op or a reply, and may have the data of  *)
(* both and the latency.                                                   *)
Key(op, id) == <<op.endpoint, id>>
Stat(op) == [op |-> op.n, reply |-> 0, id |-> 0, seen |-> op.seen, latency |-> -1, returned |-> 0, errs |-> 0]

AwaitsReply(p) == p.type \in {"query", "getmore", "command", "commandgetmore", "msg"}

(* ResolveOp: the request a reply belongs to is the one that was last seen *)
(* with this id between these two.                                         *)
ResolveOp(op, p) ==
    LET key == Key(op, op.header.responseTo)
        stat == [Stat(op) EXCEPT !.op = 0, !.reply = op.n, !.id = op.header.responseTo]
        request == unresolved[key]
        line == [IF config.paired THEN request ELSE stat EXCEPT
                   !.reply = op.n, !.latency = op.seen - request.seen,
                   !.returned = getNumReturned(p), !.errs = getErrors(p)]
    IN  IF key \notin DOMAIN unresolved THEN [stat |-> <<stat>>, unresolved |-> unresolved]
        ELSE [stat |-> <<line>>, unresolved |-> [k \in DOMAIN unresolved \ {key} |-> unresolved[k]]]

(* GenerateOpStat of RegularStatGenerator, with AddUnresolvedOp.  A        *)
(* getMore in an OP_MSG is neither a request nor a reply to it.            *)
GenerateOpStat(op) ==
    LET p == op.parsed.op
        request == [Stat(op) EXCEPT !.id = op.header.requestID]
    IN  CASE p.type = "nil" -> [stat |-> <<>>, unresolved |-> unresolved]
          [] AwaitsReply(p) ->
               [stat |-> IF config.paired THEN <<>> ELSE <<request>>,
                unresolved |-> (Key(op, op.header.requestID) :> request) @@ unresolved]
          [] IsReply(p) -> ResolveOp(op, p)
          [] OTHER -> [stat |-> <<Stat(op)>>, unresolved |-> unresolved]

(* Collect: the first one starts the recorder.                             *)
Noop == config.collect = "none"
Start == recorder' = IF recorder = "none" THEN "running" ELSE recorder
Push(lines) == Len(stream) + Len(lines) <= StatCap /\ stream' = stream \o lines

monitorOp ==
    /\ pc = "monitor" /\ HasOp /\ NextOp.parsed.err = "nil"
    /\ IF Noop THEN UNCHANGED <<stream, unresolved, recorder>>
       ELSE LET g == GenerateOpStat(NextOp)
            IN  Push(g.stat) /\ unresolved' = g.unresolved /\ Start
    /\ Received
    /\ UNCHANGED <<config, pc, recording, filtering, stats, played, result, faults>>

monitorStops ==
    /\ pc = "monitor" /\ HasOp /\ NextOp.parsed.err # "nil"
    /\ Received /\ result' = "parse" /\ pc' = "close"
    /\ UNCHANGED <<config, recording, filtering, counting, faults>>

monitorEnds ==
    /\ pc = "monitor" /\ ChanClosed
    /\ pc' = "close" /\ result' = IF reader.err = "EOF" THEN "nil" ELSE "read"
    /\ UNCHANGED <<config, recording, reader, filtering, counting, faults>>

recordStat ==
    /\ recorder = "running" /\ stream # <<>>
    /\ stats' = Append(stats, Head(stream)) /\ stream' = Tail(stream)
    /\ UNCHANGED <<config, pc, recording, reader, filtering, unresolved, recorder, played, result, faults>>

(* Close: Finalize sends what is unresolved, in the order of the map, and  *)
(* the recorder is waited for.                                             *)
(* Plausible bug: requests without a reply are not reported at the end.    *)
finalizeDrops(key) ==
    /\ pc = "close" /\ recorder = "running" /\ key \in DOMAIN unresolved
    /\ unresolved' = [k \in DOMAIN unresolved \ {key} |-> unresolved[k]]
    /\ UNCHANGED <<config, pc, recording, reader, filtering, stream, recorder, stats, played, result, faults>>

finalizeStat(key) ==
    /\ pc = "close" /\ recorder = "running" /\ key \in DOMAIN unresolved
    /\ IF config.paired THEN Push(<<unresolved[key]>>) ELSE UNCHANGED stream
    /\ unresolved' = [k \in DOMAIN unresolved \ {key} |-> unresolved[k]]
    /\ UNCHANGED <<config, pc, recording, reader, filtering, recorder, stats, played, result, faults>>

closeStream ==
    /\ pc = "close" /\ unresolved = NoStats
    /\ pc' = IF recorder = "none" THEN "done" ELSE "draining"
    /\ UNCHANGED <<config, recording, reader, filtering, counting, result, faults>>

recorderEnds ==
    /\ pc = "draining" /\ recorder = "running" /\ stream = <<>>
    /\ recorder' = "done"
    /\ UNCHANGED <<config, pc, recording, reader, filtering, unresolved, stream, stats, played, result, faults>>

closeReturns ==
    /\ pc = "draining" /\ recorder = "done"
    /\ pc' = "done"
    /\ UNCHANGED <<config, recording, reader, filtering, counting, result, faults>>

(* The connections of play collect side by side, with the                  *)
(* ComparativeStatGenerator; the dispatch of the ops is in Playback.       *)
OpsOf(c) == SelectSeq(file, LAMBDA op : op.conn = c)
shouldCollectOp(p) == ~IsReply(p) /\ ~IsDriverOp(p)
ComparativeStat(op) == IF op.parsed.op.type = "nil" THEN <<>> ELSE <<[Stat(op) EXCEPT !.id = op.header.requestID]>>

playOp(c) ==
    /\ pc = "play" /\ played[c] < Len(OpsOf(c))
    /\ LET op == OpsOf(c)[played[c] + 1]
       IN  IF Noop \/ ~shouldCollectOp(op.parsed.op) THEN UNCHANGED <<stream, recorder>>
           ELSE Push(ComparativeStat(op)) /\ Start
    /\ played' = [played EXCEPT ![c] = @ + 1]
    /\ UNCHANGED <<config, pc, recording, reader, filtering, unresolved, stats, result, faults>>

playEnds ==
    /\ pc = "play" /\ \A c \in Connections : played[c] = Len(OpsOf(c))
    /\ pc' = "close"
    /\ UNCHANGED <<config, recording, reader, filtering, counting, result, faults>>

-----------------------------------------------------------------------------
(* Filter waits forever: for a writer that has an error to tell and nobody *)
(* who listens, or for room in the queue of such a writer; or OpChan has   *)
(* an op to give that nobody takes.                                        *)
Hangs ==
    \/ pc = "wait" /\ \E i \in Files : writers[i] = "error"
    \/ /\ pc = "filter" /\ HasOp /\ ~shouldFilterOp(NextOp) /\ ~ParseFails(NextOp)
       /\ writers[FileOf(NextOp)] = "error" /\ Len(queues[FileOf(NextOp)]) = QueueCap
    \/ pc = "errChan" /\ HasOp

Main ==
    \/ recordOp \/ recordEnds \/ filterOp \/ filterStops \/ filterCloses \/ filterReturns \/ executeReturns
    \/ monitorOp \/ monitorStops \/ monitorEnds \/ closeStream \/ closeReturns \/ playEnds
    \/ \E key \in DOMAIN unresolved : finalizeStat(key)

Writer(i) == writeOp(i) \/ writerEnds(i)
Recorder == recordStat \/ recorderEnds
Rest == (pc = "done" \/ Hangs) /\ UNCHANGED vars

Next ==
    \/ Main \/ opChanEnds \/ Recorder \/ Rest
    \/ \E i \in Files : Writer(i)
    \/ \E c \in Connections : playOp(c)

(* Go runs every goroutine that can run.                                   *)
Fairness ==
    /\ WF_vars(Main) /\ WF_vars(opChanEnds) /\ WF_vars(Recorder)
    /\ WF_vars(\E i \in Files : Writer(i)) /\ WF_vars(\E c \in Connections : playOp(c))

Spec == Init /\ [][Next]_vars /\ Fairness

-----------------------------------------------------------------------------
Numbers(ops) == [i \in DOMAIN ops |-> ops[i].n]
Good == faults = 0 /\ result = "nil"
Ended(commands) == pc = "done" /\ config.command \in commands /\ Good

(* The state is well formed: channels within their bounds, and a recorder  *)
(* as soon as there is something to record.                                *)
TypeOK ==
    /\ pc \in {"record", "filter", "wait", "errChan", "monitor", "play", "close", "draining", "done"}
    /\ captured \in 0..Len(config.ops) /\ Len(file) <= captured /\ reader.next \in 1..(Len(file) + 1)
    /\ \A i \in Files : /\ Len(queues[i]) <= QueueCap /\ writers[i] \in {"running", "error", "done"}
    /\ Len(stream) <= StatCap /\ recorder \in {"none", "running", "done"}
    /\ (stream # <<>> \/ unresolved # NoStats) => recorder = "running"
    /\ result \in {"nil", "parse", "read"} /\ faults \in 0..MaxFaults

(* A message that was recorded whole is parsed into the op it was sent as: *)
(* the documents, sections, cursors and command are found although the     *)
(* number of documents, a second selector and a checksum are known only    *)
(* from lengths.                                                           *)
ParseIsFaithful ==
    \A i \in DOMAIN file :
      file[i].means.err = "nil" /\ ~file[i].short => file[i].parsed = file[i].means

(* Shortening a reply when it is recorded loses neither its cursor, which  *)
(* playback needs, nor makes it unreadable.                                *)
ShorteningKeepsCursor ==
    \A i \in DOMAIN file :
      LET meant == file[i].means.op
          p == file[i].parsed
      IN  file[i].short /\ file[i].means.err = "nil" =>
            p.err = "nil" /\ p.op.type = meant.type /\ getCursorID(p.op) = getCursorID(meant)

(* Rewriting the cursors of an op replaces these and nothing else.         *)
CursorsAreReplaced ==
    \A i \in DOMAIN file :
      LET p == file[i].parsed.op
          ids == getCursorIDs(p)
          changed == setCursorIDs(p, [k \in DOMAIN ids |-> ids[k] + 50])
      IN  Rewriteable(p) =>
            /\ changed.err = "nil" /\ getCursorIDs(changed.op) = [k \in DOMAIN ids |-> ids[k] + 50]
            /\ setCursorIDs(changed.op, ids).op = p

(* What the options of filter speak of, told from what was sent: the       *)
(* commands a driver issues on its own, the ops that read and those that   *)
(* write, each in whatever message it comes.  An OP_QUERY that holds no    *)
(* command is the query of an old driver.                                  *)
CommandSent(p) == IF p.type = "query" THEN extractOpType(p.docs[1]).command ELSE p.cmd
DriverIssued(p) == p.type \in {"query", "command", "msg"} /\ CommandSent(p) \in DriverCommands
Writes(p) ==
    \/ p.type \in {"insert", "update", "delete"}
    \/ p.type = "query" /\ extractOpType(p.docs[1]).type # "command"
    \/ p.type \in {"command", "msg"} /\ p.cmd \in {"insert", "update", "delete"}
Reads(p) ==
    \/ p.type = "query" /\ ~Writes(p) /\ ~DriverIssued(p)
    \/ p.type \in {"getmore", "commandgetmore", "msggetmore"}
    \/ p.type \in {"command", "msg"} /\ p.cmd \in {"find", "aggregate"}

(* The ops of a file that are between the start and the end, which is so   *)
(* long after the first of them, and among them those of a kind.           *)
Begun == SelectSeq(file, LAMBDA op : op.seen >= config.start)
InTime(op) == op.seen >= config.start /\ (config.duration > 0 => op.seen <= Begun[1].seen + config.duration)
InFile(i, OfKind(_)) ==
    Numbers(SelectSeq(file, LAMBDA op : InTime(op) /\ FileOf(op) = i /\ OfKind(op.means.op)))

Kept(i) == IF out[i] = Removed THEN <<>> ELSE out[i]
Closed == ~(config.gzip /\ config.split = 1)
Filtered == Ended({"filter"}) /\ Closed

(* Where the options and the code disagree: IsReadOp knows a getMore by a  *)
(* name no server has, looks for finds among the writes of an OP_QUERY and *)
(* takes an OP_INSERT for a read; IsWriteOp knows no OP_UPDATE and no      *)
(* OP_DELETE; IsDriverOp knows no OP_MSG.                                  *)
Disputed(p) ==
    \/ config.readOnly /\ (p.type = "insert" \/ (Reads(p) /\ p.type \notin {"command", "msg"}))
    \/ config.writeOnly /\ p.type \in {"update", "delete"}
    \/ RemoveDriverOps /\ p.type = "msg" /\ DriverIssued(p)
Wanted(p) ==
    /\ ~Disputed(p)
    /\ RemoveDriverOps => ~DriverIssued(p)
    /\ config.readOnly => Reads(p)
    /\ config.writeOnly => Writes(p)

(* Of the ops of which code and options say the same, each file of filter  *)
(* gets exactly those that were sent by its connections, in time and as    *)
(* the options want them, in order; a file that gets none is removed.      *)
(* After an error it has a part of them from the beginning.  (A single     *)
(* file that is compressed is not closed, and may lose its end.)           *)
FilterIsExact ==
    config.command = "filter" /\ (pc = "done" \/ Hangs) =>
      \A i \in Files :
        LET kept == Numbers(SelectSeq(Kept(i), LAMBDA op : ~Disputed(op.means.op)))
        IN  /\ IsPrefix(kept, InFile(i, Wanted))
            /\ Filtered => kept = InFile(i, Wanted) /\ out[i] # <<>>

(* What the options of filter are said to do.  --readOpsOnly: "Only        *)
(* include read/aggregate operations in the playback" (filter.go:29).      *)
OnlyReads == Filtered /\ config.readOnly => \A i \in Files : Numbers(Kept(i)) = InFile(i, Reads)

(* --writeOpsOnly: "Only include Insert/Update/Delete operations in the    *)
(* playback" (filter.go:30).                                               *)
OnlyWrites == Filtered /\ config.writeOnly => \A i \in Files : Numbers(Kept(i)) = InFile(i, Writes)

(* --removeDriverOps: "remove driver issued operations from the playback"  *)
(* (filter.go:27), "such as 'ismaster', or 'getnonce'" (op.go:100).        *)
NoDriverOps ==
    Filtered /\ RemoveDriverOps => \A i \in Files : \A op \in Range(Kept(i)) : ~DriverIssued(op.means.op)

(* The request a reply answers: the last one with its id on these          *)
(* endpoints, unless a reply in between had that id too.                   *)
Asks(p) == p.type \in {"query", "getmore", "command", "commandgetmore", "msg", "msggetmore"}
KeyOf(op) ==
    IF IsReply(op.means.op) THEN Key(op, op.header.responseTo) ELSE Key(op, op.header.requestID)
Before(j) ==
    {i \in 1..(j - 1) : (Asks(file[i].means.op) \/ IsReply(file[i].means.op)) /\ KeyOf(file[i]) = KeyOf(file[j])}
Answers(i, j) ==
    /\ i \in Before(j) /\ \A k \in Before(j) : k <= i
    /\ Asks(file[i].means.op) /\ IsReply(file[j].means.op)

(* The statistics do not wait for the reply to a getMore in an OP_MSG.     *)
Untimed(i) == file[i].means.op.type = "msggetmore"

(* A latency is the time between a reply and its own request, and in       *)
(* paired mode the two are on one line; a reply without a latency is one   *)
(* whose request was not recorded, or is a getMore in an OP_MSG.           *)
LatencyIsRight ==
    config.command = "monitor" /\ pc = "done" =>
      \A k \in DOMAIN stats :
        \A j \in DOMAIN file : stats[k].reply = file[j].n =>
          LET requests == {i \in 1..(j - 1) : Answers(i, j) /\ ~Untimed(i)}
          IN  /\ (stats[k].latency # -1) = (requests # {})
              /\ \A i \in requests : /\ stats[k].latency = file[j].seen - file[i].seen
                                      /\ config.paired => stats[k].op = file[i].n

(* --paired: "Output only one line for a request/reply pair"               *)
(* (monitor.go:24).                                                        *)
PairsAreOneLine ==
    Ended({"monitor"}) /\ ~Noop /\ config.paired =>
      \A j \in DOMAIN file : \A i \in 1..(j - 1) : Answers(i, j) =>
        \E k \in DOMAIN stats : stats[k].op = file[i].n /\ stats[k].reply = file[j].n

(* When the command has ended every op is on one line and only one, as an  *)
(* op or as a reply, whether or not it was answered; but a request with    *)
(* the id of a later one is forgotten in paired mode.                      *)
Forgotten(i) ==
    /\ config.paired /\ Asks(file[i].means.op) /\ ~Untimed(i)
    /\ \E j \in (i + 1)..Len(file) :
         /\ Asks(file[j].means.op) /\ ~Untimed(j) /\ KeyOf(file[j]) = KeyOf(file[i])
         /\ ~\E k \in i..j : Answers(i, k)

EveryOpOnce ==
    Ended({"monitor"}) /\ ~Noop =>
      \A i \in DOMAIN file :
        Cardinality({k \in DOMAIN stats : file[i].n \in {stats[k].op, stats[k].reply}})
          = IF file[i].parsed.op.type = "nil" \/ Forgotten(i) THEN 0 ELSE 1

(* What the connections of play collect side by side is all recorded       *)
(* before the command ends, in the order of each connection.               *)
PlayedInOrder ==
    Ended({"play"}) /\ ~Noop =>
      \A c \in Connections :
        LET lines == SelectSeq(stats, LAMBDA l : \E op \in Range(OpsOf(c)) : op.n = l.op)
            ops == SelectSeq(OpsOf(c), LAMBDA op : op.parsed.op.type # "nil" /\ shouldCollectOp(op.parsed.op))
        IN  [k \in DOMAIN lines |-> lines[k].op] = Numbers(ops)

(* Every command ends, also when reads fail and ops cannot be parsed;      *)
(* filter ends or stands at one of the places where it waits forever: for  *)
(* a writer that failed, or with ops left after one it could not parse.    *)
CommandEnds == <>(pc = "done" \/ (config.command = "filter" /\ Hangs))

(* The error of a writer is told: "errors encountered while running        *)
(* filter" (filter.go:145), after which filter returns.                    *)
WriteErrorsAreTold == (config.command = "filter" /\ \E i \in Files : writers[i] = "error") ~> pc = "done"

(* What is read from a file is what was captured: parsed, shortened and    *)
(* with its cursors where they can be replaced.                            *)
OpsAreFaithful == TypeOK /\ ParseIsFaithful /\ ShorteningKeepsCursor /\ CursorsAreReplaced

(* Every op is on one line of the statistics, in order, and with its       *)
(* latency.                                                                *)
LinesAreRight == LatencyIsRight /\ EveryOpOnce /\ PlayedInOrder
=============================================================================
