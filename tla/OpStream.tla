------------------------------ MODULE OpStream ------------------------------
(***************************************************************************)
(* "mongoreplay record" behind TCP reassembly (mongo_op_handler.go,        *)
(* packet_handler.go, record.go): the assembler hands the bytes of the two *)
(* flows of a connection to their bidi, which cuts them into messages; the *)
(* ops are put in order of time by a heap of limited size and written to   *)
(* the playback file.                                                      *)
(*                                                                         *)
(* The assembler's calls are the input: New, Reassembled and               *)
(* ReassemblyComplete of a flow, in this order, with Skip set wherever     *)
(* bytes are missing, and sometimes where none are (Assembler), and Seen   *)
(* the arrival of the packet: one that waited behind a gap is older than   *)
(* the one that filled it.  Reassembled waits for streamOps, and the       *)
(* channel to handleOps has no buffer, so that the next call comes when    *)
(* handleOps has taken every op of the last one.  A byte is known by its   *)
(* offset in the flow; a header is taken for real exactly at the start of  *)
(* a message.  Times are even and that of an EOF, a nanosecond after an    *)
(* op, is odd.  Start is set only for a SYN, which carries no bytes here.  *)
(***************************************************************************)
EXTENDS Integers, Sequences, SequencesExt, FiniteSetsExt

CONSTANTS
    HeaderLen,      \* bytes of a message header (16)
    MessageLens,    \* lengths of the messages of a flow, in order
    PacketBufSize,  \* capacity of the heap
    MaxCalls,       \* Bound: calls of Reassembled
    MaxBidis        \* Bound: connections

ASSUME HeaderAssumption ==
    /\ HeaderLen \in Nat \ {0}
    /\ MessageLens \in Seq(Nat) /\ \A i \in DOMAIN MessageLens : MessageLens[i] > HeaderLen
ASSUME BoundAssumption == PacketBufSize \in Nat \ {0} /\ MaxCalls \in Nat /\ MaxBidis \in Nat

Flows == {"request", "response"}
OtherFlow(f) == IF f = "request" THEN "response" ELSE "request"
Bidis == 1..MaxBidis
NoBidi == 0

FlowLen == FoldLeft(LAMBDA a, b : a + b, 0, MessageLens)
StartOf(i) == FoldLeft(LAMBDA a, b : a + b, 0, SubSeq(MessageLens, 1, i - 1))
Messages == {[start |-> StartOf(i), len |-> MessageLens[i]] : i \in DOMAIN MessageLens}
Offsets == 0..(FlowLen - 1)

VARIABLES
    handler,     \* Handle: "capture", "flush" (FlushAll) or "closed"
    calls,       \* calls of Reassembled, the clock
    pos,         \* next offset of each flow
    since,       \* the clock when the first packet of each flow came
    bound,       \* the bidi whose stream gets each flow's bytes
    bidiMap,     \* bidis that wait for their other flow, by that flow
    openCount,   \* openStreamCount of each bidi
    bidiClosed,  \* its channels are closed
    streams,     \* the streams of each bidi
    unordered,   \* ops on their way to handleOps
    heap,        \* opHeap
    handing,     \* ops handleOps is about to send to Ops: none or one
    opsState,    \* "open" or "closed": the channel Ops
    written,     \* ops that Record took, in their order
    fail,        \* Record met a write error
    recordDone   \* Record's goroutine has ended

captureVars == <<handler, calls, pos, since, bound, bidiMap, openCount, bidiClosed, streams>>
opVars == <<unordered, heap, handing, opsState>>
recordVars == <<written, fail, recordDone>>
vars == <<captureVars, opVars, recordVars>>

NewStream == [state |-> "before", body |-> {}, need |-> 0, time |-> 0]
Ops == [conn : Bidis, flow : Flows \cup {"eof"}, body : SUBSET Offsets, time : Nat, n : Nat]

TypeOK ==
    /\ handler \in {"capture", "flush", "closed"}
    /\ calls \in 0..MaxCalls
    /\ pos \in [Flows -> 0..FlowLen]
    /\ since \in [Flows -> 0..MaxCalls]
    /\ bound \in [Flows -> Bidis \cup {NoBidi}]
    /\ bidiMap \in [Flows -> Bidis \cup {NoBidi}]
    /\ openCount \in [Bidis -> 0..2]
    /\ bidiClosed \in [Bidis -> BOOLEAN]
    /\ streams \in [Bidis -> [Flows -> [state : {"before", "in", "outOfSync"},
                                        body : SUBSET Offsets, need : Nat, time : Nat]]]
    /\ unordered \in Seq(Ops)
    /\ heap \subseteq Ops
    /\ handing \in Seq(Ops) /\ Len(handing) <= 1
    /\ opsState \in {"open", "closed"}
    /\ written \in Seq(Ops)
    /\ fail \in BOOLEAN /\ recordDone \in BOOLEAN

Init ==
    /\ handler = "capture" /\ calls = 0
    /\ pos = [f \in Flows |-> 0]
    /\ since = [f \in Flows |-> 0]
    /\ bound = [f \in Flows |-> NoBidi]
    /\ bidiMap = [f \in Flows |-> NoBidi]
    /\ openCount = [b \in Bidis |-> 0]
    /\ bidiClosed = [b \in Bidis |-> FALSE]
    /\ streams = [b \in Bidis |-> [f \in Flows |-> NewStream]]
    /\ unordered = <<>> /\ heap = {} /\ handing = <<>> /\ opsState = "open"
    /\ written = <<>> /\ fail = FALSE /\ recordDone = FALSE

-----------------------------------------------------------------------------
(* Cutting a flow into messages.  s is a stream with the bytes left of the *)
(* reassembly (off, len) and the messages it yields.                       *)

LooksReal(off) == \E m \in Messages : m.start = off
Header(off) == CHOOSE m \in Messages : m.start = off
Span(off, len) == off .. (off + len - 1)

Lost(s) == [s EXCEPT !.state = "outOfSync", !.len = 0]

handleStreamStateBeforeMessage(s, seen) ==
    IF s.len < HeaderLen \/ ~LooksReal(s.off) THEN Lost(s)
    ELSE [s EXCEPT !.state = "in", !.time = seen,
                   !.body = Span(s.off, HeaderLen), !.need = Header(s.off).len,
                   !.off = @ + HeaderLen, !.len = @ - HeaderLen]

(* Plausible bug: all bytes of the reassembly are added to the message.    *)
handleStreamStateInMessage_TakesAll(s) ==
    LET body == s.body \cup Span(s.off, s.len) IN
      IF Cardinality(body) >= s.need
      THEN [s EXCEPT !.state = "before", !.body = {}, !.len = 0,
                     !.ops = Append(@, [body |-> body, time |-> s.time])]
      ELSE [s EXCEPT !.body = body, !.len = 0]

handleStreamStateInMessage(s) ==
    LET missing == s.need - Cardinality(s.body)
        copySize == IF s.len > missing THEN missing ELSE s.len
        body == s.body \cup Span(s.off, copySize)
        rest == [s EXCEPT !.off = @ + copySize, !.len = @ - copySize] IN
      IF copySize = missing
      THEN [rest EXCEPT !.state = "before", !.body = {}, !.need = 0,
                        !.ops = Append(@, [body |-> body, time |-> s.time])]
      ELSE [rest EXCEPT !.body = body]

handleStreamStateOutOfSync(s) ==
    IF s.len >= HeaderLen /\ LooksReal(s.off) THEN [s EXCEPT !.state = "before"]
    ELSE [s EXCEPT !.len = 0]

(* Enough rounds for every message of a flow and for getting into sync.    *)
Rounds == [i \in 1..(2 * Len(MessageLens) + 2) |-> i]

OneState(s, seen) ==
    IF s.len = 0 THEN s
    ELSE CASE s.state = "before" -> handleStreamStateBeforeMessage(s, seen)
           [] s.state = "in" -> handleStreamStateInMessage(s)
           [] s.state = "outOfSync" -> handleStreamStateOutOfSync(s)

(* Plausible bug: a gap does not take the stream out of sync.              *)
streamOps_IgnoresSkip(stream, r, seen) ==
    LET s == [state |-> IF r.skip < 0 THEN "outOfSync" ELSE stream.state,
              body |-> stream.body, need |-> stream.need, time |-> stream.time,
              off |-> r.off, len |-> r.len, ops |-> <<>>] IN
      FoldLeft(LAMBDA a, i : OneState(a, seen), s, Rounds)

(* One reassembly.  After a gap it is thrown away; at the beginning of a   *)
(* capture amid a stream it is searched for a message.                     *)
streamOps(stream, r, seen) ==
    LET s == [state |-> IF r.skip # 0 THEN "outOfSync" ELSE stream.state,
              body |-> IF r.skip > 0 THEN {} ELSE stream.body,
              need |-> IF r.skip > 0 THEN 0 ELSE stream.need, time |-> stream.time,
              off |-> r.off, len |-> IF r.skip > 0 THEN 0 ELSE r.len, ops |-> <<>>] IN
      FoldLeft(LAMBDA a, i : OneState(a, seen), s, Rounds)

-----------------------------------------------------------------------------
(* The assembler's calls.                                                  *)

Created == {b \in Bidis : openCount[b] > 0 \/ bidiClosed[b]}
CanCall == handler = "capture" /\ unordered = <<>>

(* Plausible bug: the entry of the bidi stays when its other flow came.    *)
New_Stays(f) ==
    /\ CanCall /\ bound[f] = NoBidi
    /\ \/ /\ bidiMap[f] # NoBidi
          /\ bound' = [bound EXCEPT ![f] = bidiMap[f]]
          /\ openCount' = [openCount EXCEPT ![bidiMap[f]] = @ + 1]
          /\ UNCHANGED bidiMap
       \/ /\ bidiMap[f] = NoBidi
          /\ \E b \in Bidis \ Created :
               /\ \A o \in Bidis \ Created : b <= o
               /\ bound' = [bound EXCEPT ![f] = b]
               /\ bidiMap' = [bidiMap EXCEPT ![OtherFlow(f)] = b]
               /\ openCount' = [openCount EXCEPT ![b] = 1]
    /\ since' = [since EXCEPT ![f] = calls]
    /\ UNCHANGED <<handler, calls, pos, bidiClosed, streams, opVars, recordVars>>

(* The first packet of a flow: it joins the bidi that waits for it, or     *)
(* gets a new one with the next connection number.                         *)
New(f) ==
    /\ CanCall /\ bound[f] = NoBidi
    /\ \/ /\ bidiMap[f] # NoBidi
          /\ bound' = [bound EXCEPT ![f] = bidiMap[f]]
          /\ openCount' = [openCount EXCEPT ![bidiMap[f]] = @ + 1]
          /\ bidiMap' = [bidiMap EXCEPT ![f] = NoBidi]
       \/ /\ bidiMap[f] = NoBidi
          /\ \E b \in Bidis \ Created :
               /\ \A o \in Bidis \ Created : b <= o
               /\ bound' = [bound EXCEPT ![f] = b]
               /\ bidiMap' = [bidiMap EXCEPT ![OtherFlow(f)] = b]
               /\ openCount' = [openCount EXCEPT ![b] = 1]
    /\ since' = [since EXCEPT ![f] = calls]
    /\ UNCHANGED <<handler, calls, pos, bidiClosed, streams, opVars, recordVars>>

(* What the assembler may hand over next for a flow: bytes from where it   *)
(* was or after a gap, or amid the flow at the start of a capture; of the  *)
(* packet that just came, or of one that came when the flow began and had  *)
(* to wait.                                                                *)
(* A page that is used again may tell of a gap that is none.               *)
Reassemblies(f) ==
    UNION {{[off |-> off, len |-> len, skip |-> skip, seen |-> 2 * seen] :
              len \in 1..(FlowLen - off),
              skip \in {IF off = pos[f] THEN 0 ELSE 1} \cup (IF pos[f] > 0 THEN {1} ELSE IF off > 0 THEN {-1} ELSE {}),
              seen \in {calls + 1} \cup (IF pos[f] > 0 THEN {since[f] + 1} ELSE {})} :
           off \in pos[f]..(FlowLen - 1)}

Sent == Len(written) + Len(handing) + Cardinality(heap) + Len(unordered)

Reassembled(f, r) ==
    /\ CanCall /\ bound[f] # NoBidi /\ calls < MaxCalls
    /\ calls' = calls + 1
    /\ pos' = [pos EXCEPT ![f] = r.off + r.len]
    /\ LET b == bound[f]
           s == streamOps(streams[b][f], r, r.seen) IN
         /\ streams' = [streams EXCEPT ![b][f] = [state |-> s.state, body |-> s.body,
                                                  need |-> s.need, time |-> s.time]]
         /\ unordered' = [i \in DOMAIN s.ops |->
              [conn |-> b, flow |-> f, body |-> s.ops[i].body, time |-> s.ops[i].time,
               n |-> Sent + i]]
    /\ UNCHANGED <<handler, since, bound, bidiMap, openCount, bidiClosed, heap, handing, opsState,
                   recordVars>>

(* The EOF of a connection that had an op, right after its last op.        *)
handleStreamCompleted(b) ==
    LET last == Max({streams[b][f].time : f \in Flows}) IN
      IF last = 0 THEN <<>>
      ELSE <<[conn |-> b, flow |-> "eof", body |-> {}, time |-> last + 1, n |-> Sent + 1]>>

(* The flow ended or is given up; the bidi closes with the last of its     *)
(* streams and takes the entries of both flows off the map.                *)
ReassemblyComplete(f) ==
    /\ handler \in {"capture", "flush"} /\ unordered = <<>> /\ bound[f] # NoBidi
    /\ LET b == bound[f]
           last == openCount[b] = 1 IN
         /\ openCount' = [openCount EXCEPT ![b] = @ - 1]
         /\ unordered' = IF last THEN handleStreamCompleted(b) ELSE <<>>
         /\ bidiClosed' = [bidiClosed EXCEPT ![b] = last]
         /\ bidiMap' = IF last THEN [g \in Flows |-> NoBidi] ELSE bidiMap
         /\ streams' = IF last THEN [streams EXCEPT ![b] = [g \in Flows |-> NewStream]]
                       ELSE streams
    /\ bound' = [bound EXCEPT ![f] = NoBidi]
    /\ pos' = [pos EXCEPT ![f] = 0]
    /\ since' = [since EXCEPT ![f] = 0]
    /\ UNCHANGED <<handler, calls, heap, handing, opsState, recordVars>>

(* End of the pcap file, or a signal: FlushAll completes every stream.     *)
StopCapture ==
    /\ CanCall
    /\ handler' = "flush"
    /\ UNCHANGED <<calls, pos, since, bound, bidiMap, openCount, bidiClosed, streams, opVars,
                   recordVars>>

(* MongoOpStream.Close: unorderedOps is closed.                            *)
CloseStream ==
    /\ handler = "flush" /\ unordered = <<>> /\ \A f \in Flows : bound[f] = NoBidi
    /\ handler' = "closed"
    /\ UNCHANGED <<calls, pos, since, bound, bidiMap, openCount, bidiClosed, streams, opVars,
                   recordVars>>

-----------------------------------------------------------------------------
(* handleOps and Record.                                                   *)

(* An earliest op: heap.Pop, which may take any of those of equal time.    *)
Earliest(h) == {o \in h : \A p \in h : o.time <= p.time}

(* An op goes through the heap, which gives one up when it is full.        *)
handleOps ==
    /\ unordered # <<>> /\ handing = <<>>
    /\ unordered' = Tail(unordered)
    /\ LET h == heap \cup {Head(unordered)} IN
         \/ /\ Cardinality(h) < PacketBufSize
            /\ heap' = h
            /\ UNCHANGED handing
         \/ /\ Cardinality(h) = PacketBufSize
            /\ \E o \in Earliest(h) : heap' = h \ {o} /\ handing' = <<o>>
    /\ UNCHANGED <<captureVars, opsState, recordVars>>

(* unorderedOps is closed: the heap is emptied and Ops closed.             *)
DrainHeap ==
    /\ handler = "closed" /\ unordered = <<>> /\ handing = <<>> /\ opsState = "open"
    /\ \/ \E o \in Earliest(heap) : heap' = heap \ {o} /\ handing' = <<o>> /\ UNCHANGED opsState
       \/ heap = {} /\ opsState' = "closed" /\ UNCHANGED <<heap, handing>>
    /\ UNCHANGED <<captureVars, unordered, recordVars>>

(* Plausible bug: Record stops reading after a write error.                *)
RecordOp_Stops ==
    /\ handing # <<>> /\ ~fail
    /\ handing' = <<>>
    /\ written' = written \o handing
    /\ fail' \in BOOLEAN
    /\ UNCHANGED <<captureVars, unordered, heap, opsState, recordDone>>

(* Record takes an op and writes it, skips a reply it cannot shorten, or   *)
(* fails; after a failure it still takes the ops.                          *)
RecordOp ==
    /\ handing # <<>>
    /\ handing' = <<>>
    /\ written' = written \o handing
    /\ IF fail THEN UNCHANGED fail ELSE fail' \in BOOLEAN
    /\ UNCHANGED <<captureVars, unordered, heap, opsState, recordDone>>

(* Ops is closed: Record's goroutine reports and ends.                     *)
RecordEnds ==
    /\ opsState = "closed" /\ ~recordDone
    /\ recordDone' = TRUE
    /\ UNCHANGED <<captureVars, opVars, written, fail>>

Terminating == recordDone /\ UNCHANGED vars

Capture ==
    \/ \E f \in Flows : New(f) \/ ReassemblyComplete(f) \/ \E r \in Reassemblies(f) : Reassembled(f, r)
    \/ StopCapture
    \/ CloseStream

Next == Capture \/ handleOps \/ DrainHeap \/ RecordOp \/ RecordEnds \/ Terminating

Spec == Init /\ [][Next]_vars

(* The goroutines run whenever they can; the flush at the end of the       *)
(* capture goes through every stream.  That packets keep coming, or that   *)
(* the capture is stopped, is up to the network and the user.              *)
FairSpec ==
    /\ Spec
    /\ WF_vars(handleOps) /\ WF_vars(DrainHeap) /\ WF_vars(RecordOp) /\ WF_vars(RecordEnds)
    /\ WF_vars(CloseStream) /\ WF_vars(handler = "flush" /\ \E f \in Flows : ReassemblyComplete(f))

-----------------------------------------------------------------------------
(* Properties.                                                             *)

AllOps == ToSet(written) \cup ToSet(handing) \cup heap \cup ToSet(unordered)

(* Every op is one message of the sender, whole and nothing else, however  *)
(* the flow was cut into packets and whatever is missing from it.          *)
WholeMessages ==
    \A o \in AllOps : o.flow # "eof" => \E m \in Messages : o.body = Span(m.start, m.len)

(* Ops leave in order of time as far as the heap reaches: one that is      *)
(* overtaken by a later op was at least a full heap of later ops behind.   *)
SortedWithinBuffer ==
    \A i, j \in DOMAIN written : i < j /\ written[i].time > written[j].time =>
        Cardinality({o \in AllOps : o.n < written[j].n /\ o.time >= written[i].time})
          >= PacketBufSize

(* The EOF of a connection comes after its ops, since playback closes the  *)
(* connection there.  An op behind it is later in time: its header came    *)
(* after the last header of its flow, with a packet out of order.          *)
EOFIsLast ==
    \A i, j \in DOMAIN written :
        written[i].flow = "eof" /\ written[j].conn = written[i].conn /\ j > i =>
          written[j].time > written[i].time

(* A bidi counts its streams, waits only while it is open, and no stream   *)
(* hands bytes to a bidi whose channels are closed.                        *)
StreamsAreCounted ==
    /\ \A b \in Bidis : openCount[b] = Cardinality({f \in Flows : bound[f] = b})
    /\ \A f \in Flows : /\ bound[f] # NoBidi => ~bidiClosed[bound[f]]
                        /\ bidiMap[f] # NoBidi => openCount[bidiMap[f]] = 1

(* Once the capture has stopped, every op is taken from the heap and the   *)
(* recording ends, also after a write error.                               *)
RecordingEnds == handler = "flush" ~> recordDone /\ heap = {}

(* The state is well formed, and the streams of each bidi are counted      *)
(* right.                                                                  *)
Consistent == TypeOK /\ StreamsAreCounted

(* What is recorded are whole messages, in order of time as far as the     *)
(* heap reaches, and the EOF of a connection after its ops unless packets  *)
(* came out of order.                                                      *)
RecordedIsRight == WholeMessages /\ SortedWithinBuffer /\ EOFIsLast
=============================================================================
