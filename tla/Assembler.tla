----------------------------- MODULE Assembler ------------------------------
(***************************************************************************)
(* TCP reassembly for one flow (assembly.go): packets arrive in any order, *)
(* some never and some more than once; the bytes go to the stream in order *)
(* or with a Skip where bytes are missing.  Packets that come too early    *)
(* wait in pages, which are recycled through a cache.                      *)
(*                                                                         *)
(* The payload of a packet is a range of offsets of the sender's stream,   *)
(* so that a delivered byte can be told from any other.  The sender starts *)
(* at sequence number isn, which its SYN takes; it ends the stream with a  *)
(* FIN, or with a RST anywhere in it.  The clock counts packets.           *)
(* MaxBufferedPagesPerConnection is not set by any caller.                 *)
(***************************************************************************)
EXTENDS Integers, Sequences, SequencesExt, FiniteSetsExt

CONSTANTS
    SeqMax,      \* uint32Max: sequence numbers are 0..SeqMax
    Isns,        \* initial sequence numbers of the sender
    StreamLen,   \* Bound: bytes in the sender's stream
    MaxPackets,  \* Bound: number of packets captured
    pageBytes,   \* payload bytes that fit into a page
    PageLimits   \* values of --maxBufferedPages, 0 for no limit

ASSUME SeqAssumption == SeqMax \in Nat \ {0} /\ Isns \subseteq 0..SeqMax
ASSUME StreamAssumption == StreamLen \in Nat /\ MaxPackets \in Nat
ASSUME PageAssumption == pageBytes \in Nat \ {0} /\ PageLimits \subseteq Nat

VARIABLES
    phase,     \* "capture" or "done"
    maxBufferedPages, \* MaxBufferedPagesTotal
    isn,       \* the sender's initial sequence number
    clock,     \* number of packets captured: their timestamp
    asm,       \* the connection and the page cache
    lastSeen,  \* when the connection got its last packet
    out,       \* what Reassembled got, of the current or last stream
    owed,      \* history: offsets of bytes that did not arrive too late
    torn       \* history: a packet was out of order across the rollover

input == <<isn, maxBufferedPages>>
vars == <<phase, input, clock, asm, lastSeen, out, owed, torn>>

invalidSequence == -1

Packets ==
    [syn : {FALSE}, off : 0..StreamLen, len : 0..StreamLen, end : BOOLEAN]
      \cup [syn : {TRUE}, off : {0}, len : {0}, end : {FALSE}]

(* Every segment of the stream.  The FIN comes alone or with the last      *)
(* bytes, a RST without bytes anywhere.                                    *)
Sendable == {p \in Packets : /\ p.off + p.len <= StreamLen
                             /\ p.end => p.len = 0 \/ p.off + p.len = StreamLen
                             /\ p.syn \/ p.end \/ p.len > 0}

Fresh == [skip |-> 0, end |-> FALSE]

Pages == [seq : 0..SeqMax, off : 0..StreamLen, len : 0..StreamLen,
          seen : 1..MaxPackets, skip : Int, end : BOOLEAN]
Reassemblies == [off : 0..StreamLen, len : 0..StreamLen, skip : Int, start : BOOLEAN,
                 end : BOOLEAN]

TypeOK ==
    /\ phase \in {"capture", "done"}
    /\ isn \in Isns /\ maxBufferedPages \in PageLimits
    /\ clock \in 0..MaxPackets
    /\ asm.closed \in BOOLEAN
    /\ asm.nextSeq \in 0..SeqMax \cup {invalidSequence}
    /\ asm.pages \in Seq(Pages)
    /\ asm.free \in Seq([skip : Int, end : BOOLEAN])
    /\ asm.used \in Nat
    /\ asm.ret \in Seq(Reassemblies)
    /\ lastSeen \in 0..MaxPackets
    /\ out \in Seq(Reassemblies)
    /\ owed \subseteq 0..(StreamLen - 1)
    /\ torn \in BOOLEAN

Init ==
    /\ phase = "capture"
    /\ isn \in Isns /\ maxBufferedPages \in PageLimits
    /\ clock = 0
    /\ asm = [closed |-> TRUE, nextSeq |-> invalidSequence, pages |-> <<>>,
              free |-> <<>>, used |-> 0, ret |-> <<>>]
    /\ lastSeen = 0
    /\ out = <<>>
    /\ owed = {}
    /\ torn = FALSE

-----------------------------------------------------------------------------
(* Sequence numbers.                                                       *)

Quarter == SeqMax \div 4

(* How far t is after s.  A number of the first quarter is taken to be     *)
(* after one of the last.                                                  *)
Difference(s, t) ==
    CASE s > SeqMax - Quarter /\ t < Quarter -> t + SeqMax - s
      [] t > SeqMax - Quarter /\ s < Quarter -> t - (s + SeqMax)
      [] OTHER -> t - s

Add(s, n) == (s + n) % (SeqMax + 1)

TcpSeq(p) == IF p.syn THEN isn ELSE Add(isn, 1 + p.off)

(* A packet that is not the next one, or the first of a stream, is         *)
(* compared with numbers on the other side of the rollover.                *)
Tears(a, p) ==
    LET from == TcpSeq(p)
        to == Add(from, p.len + (IF p.syn THEN 1 ELSE 0))
        numbers == {from, to} \cup ({a.nextSeq} \ {invalidSequence})
    IN  /\ a.nextSeq # from
        /\ \E n \in numbers : n < Quarter
        /\ \E n \in numbers : n > SeqMax - Quarter

(* Plausible bug: what partly overlaps the delivered bytes is dropped.     *)
byteSpan_DropsOverlap(expected, received, b) ==
    LET span == Difference(received, expected) IN
      IF span <= 0 THEN [off |-> b.off, len |-> b.len, next |-> Add(received, b.len)]
      ELSE [off |-> b.off, len |-> 0, next |-> expected]

(* Drops what was delivered before; b is anything with off and len.        *)
byteSpan(expected, received, b) ==
    LET span == Difference(received, expected) IN
      IF span <= 0 THEN [off |-> b.off, len |-> b.len, next |-> Add(received, b.len)]
      ELSE IF b.len < span THEN [off |-> b.off, len |-> 0, next |-> expected]
      ELSE [off |-> b.off + span, len |-> b.len - span, next |-> Add(expected, b.len - span)]

-----------------------------------------------------------------------------
(* The pages of a connection.  In all operators a stands for asm.          *)

(* The free pages that the next n requests get: the cache is a stack above *)
(* an unlimited supply of unused pages.                                    *)
Stale(a, i) == IF i <= Len(a.free) THEN a.free[Len(a.free) - i + 1] ELSE Fresh

(* A page keeps Skip, and End unless it is the last one, of its last use.  *)
pagesFromTCP(a, p) ==
    LET n == IF p.len = 0 THEN 1 ELSE (p.len + pageBytes - 1) \div pageBytes IN
      [i \in 1..n |->
         LET from == (i - 1) * pageBytes IN
           [seq |-> Add(TcpSeq(p), from), off |-> p.off + from,
            len |-> IF i < n THEN pageBytes ELSE p.len - from,
            seen |-> clock + 1, skip |-> Stale(a, i).skip,
            end |-> IF i < n THEN Stale(a, i).end ELSE p.end]]

(* The number of pages that stay before a new one with this sequence.      *)
traverseConn(a, seq) == Max({0} \cup
    {i \in DOMAIN a.pages : Difference(a.pages[i].seq, seq) >= 0})

(* Plausible bug: a page that follows a gap does not say so.               *)
addNextFromConn_NoSkip(a) ==
    LET pg == Head(a.pages)
        b == byteSpan(a.nextSeq, pg.seq, pg) IN
      [a EXCEPT !.ret = Append(@, [off |-> b.off, len |-> b.len, skip |-> pg.skip,
                                   start |-> FALSE, end |-> pg.end]),
                !.nextSeq = b.next,
                !.pages = Tail(@),
                !.free = Append(@, [skip |-> pg.skip, end |-> pg.end]),
                !.used = @ - 1]

(* Plausible bug: a page without bytes left is not given back.             *)
addNextFromConn_Leak(a) ==
    LET pg == Head(a.pages)
        diff == Difference(a.nextSeq, pg.seq)
        skip == IF diff > 0 THEN diff ELSE pg.skip
        b == byteSpan(a.nextSeq, pg.seq, pg) IN
      [a EXCEPT !.ret = Append(@, [off |-> b.off, len |-> b.len, skip |-> skip,
                                   start |-> FALSE, end |-> pg.end]),
                !.nextSeq = b.next,
                !.pages = Tail(@),
                !.free = IF b.len = 0 THEN @ ELSE Append(@, [skip |-> skip, end |-> pg.end]),
                !.used = IF b.len = 0 THEN @ ELSE @ - 1]

(* The first page is delivered and goes back to the cache.                 *)
addNextFromConn(a) ==
    LET pg == Head(a.pages)
        diff == Difference(a.nextSeq, pg.seq)
        skip == IF diff > 0 THEN diff ELSE pg.skip
        b == byteSpan(a.nextSeq, pg.seq, pg) IN
      [a EXCEPT !.ret = Append(@, [off |-> b.off, len |-> b.len, skip |-> skip,
                                   start |-> FALSE, end |-> pg.end]),
                !.nextSeq = b.next,
                !.pages = Tail(@),
                !.free = Append(@, [skip |-> skip, end |-> pg.end]),
                !.used = @ - 1]

Contiguous(a) == a.pages # <<>> /\ Difference(a.nextSeq, a.pages[1].seq) <= 0

addContiguous(a) ==
    FoldLeft(LAMBDA b, pg : IF Contiguous(b) THEN addNextFromConn(b) ELSE b, a, a.pages)

(* ReassemblyComplete; the connection leaves the pool, its pages go back.  *)
closeConnection(a) ==
    [a EXCEPT !.closed = TRUE,
              !.nextSeq = invalidSequence,
              !.pages = <<>>,
              !.free = @ \o [i \in DOMAIN a.pages |->
                               [skip |-> a.pages[i].skip, end |-> a.pages[i].end]],
              !.used = @ - Len(a.pages)]

(* Reassembled(ret), after which the connection is closed if ret ends it.  *)
(* ret is kept for the caller of the operator.                             *)
sendToConnection(a) ==
    LET b == addContiguous(a) IN
      IF Last(b.ret).end THEN closeConnection(b) ELSE b

insertIntoConn(a, p) ==
    LET new == pagesFromTCP(a, p)
        at == traverseConn(a, TcpSeq(p))
        b == [a EXCEPT !.pages = SubSeq(@, 1, at) \o new \o SubSeq(@, at + 1, Len(@)),
                       !.free = SubSeq(@, 1, Len(@) - Len(new)),
                       !.used = @ + Len(new)] IN
      IF maxBufferedPages > 0 /\ b.used >= maxBufferedPages
      THEN addNextFromConn(b) ELSE b

(* Skips what is missing before the first page.                            *)
skipFlush(a) ==
    IF a.pages = <<>> THEN closeConnection(a)
    ELSE sendToConnection(addNextFromConn(a))

-----------------------------------------------------------------------------
(* What one call does to the connection; ret is what it delivered.         *)

(* The first packet of a stream is delivered at once, and once more as a   *)
(* page, of which nothing but its End is left.                             *)
FirstPacket(a, p) ==
    insertIntoConn([a EXCEPT !.nextSeq = Add(TcpSeq(p), p.len + (IF p.syn THEN 1 ELSE 0)),
                             !.ret = <<[off |-> p.off, len |-> p.len,
                                        skip |-> IF p.syn THEN 0 ELSE -1,
                                        start |-> p.syn, end |-> FALSE]>>], p)

InOrderPacket(a, p) ==
    LET b == byteSpan(a.nextSeq, TcpSeq(p), p) IN
      [a EXCEPT !.nextSeq = b.next,
                !.ret = <<[off |-> b.off, len |-> b.len, skip |-> 0, start |-> FALSE,
                           end |-> p.end]>>]

Handled(a, p) ==
    LET b == IF a.nextSeq = invalidSequence THEN FirstPacket(a, p)
             ELSE IF Difference(a.nextSeq, TcpSeq(p)) > 0 THEN insertIntoConn(a, p)
             ELSE InOrderPacket(a, p) IN
      IF b.ret = <<>> THEN b ELSE sendToConnection(b)

(* The next offset the stream waits for.                                   *)
NextOffset(a) == IF a.nextSeq = invalidSequence THEN 0
                 ELSE (a.nextSeq - isn - 1) % (SeqMax + 1)

Bytes(b) == b.off .. (b.off + b.len - 1)

(* A packet of the flow.  A FIN without bytes does not open a connection.  *)
AssembleWithTimestamp(p) ==
    /\ phase = "capture" /\ clock < MaxPackets
    /\ clock' = clock + 1
    /\ IF asm.closed /\ ~p.syn /\ p.len = 0
       THEN UNCHANGED <<asm, lastSeen, out, owed, torn>>
       ELSE LET b == Handled([asm EXCEPT !.closed = FALSE], p)
                before == IF asm.closed THEN <<>> ELSE out IN
              /\ asm' = [b EXCEPT !.ret = <<>>]
              /\ lastSeen' = clock + 1
              /\ out' = before \o b.ret
              /\ owed' = IF asm.closed THEN Bytes(p)
                         ELSE owed \cup {o \in Bytes(p) : o >= NextOffset(asm)}
              /\ torn' = ((~asm.closed /\ torn) \/ Tears(asm, p))
    /\ UNCHANGED <<phase, input>>

(* bookkeep: streams that wait for packets older than t stop waiting, and  *)
(* are closed when nothing came since then.                                *)
FlushOlderThan(t) ==
    /\ phase = "capture" /\ ~asm.closed
    /\ LET old(a) == ~a.closed /\ a.pages # <<>> /\ a.pages[1].seen < t
           flushed == FoldLeft(LAMBDA a, pg : IF old(a) THEN skipFlush(a) ELSE a,
                               asm, asm.pages)
           idle == ~flushed.closed /\ flushed.pages = <<>> /\ lastSeen < t
           b == IF idle THEN closeConnection(flushed) ELSE flushed IN
         /\ asm' = [b EXCEPT !.ret = <<>>]
         /\ out' = out \o b.ret
    /\ UNCHANGED <<phase, input, clock, lastSeen, owed, torn>>

(* The capture ends: everything is flushed and closed.                     *)
FlushAll ==
    /\ phase = "capture"
    /\ phase' = "done"
    /\ LET flush(a) == IF a.closed THEN a ELSE skipFlush(a)
           b == FoldLeft(LAMBDA a, i : flush(a), asm, [i \in 1..(Len(asm.pages) + 1) |-> i]) IN
         /\ asm' = [b EXCEPT !.ret = <<>>]
         /\ out' = out \o b.ret
    /\ UNCHANGED <<input, clock, lastSeen, owed, torn>>

Terminating == phase = "done" /\ UNCHANGED vars

Next ==
    \/ \E p \in Sendable : AssembleWithTimestamp(p)
    \/ \E t \in 1..(MaxPackets + 1) : t <= clock + 1 /\ FlushOlderThan(t)
    \/ FlushAll
    \/ Terminating

Spec == Init /\ [][Next]_vars

-----------------------------------------------------------------------------
(* Properties.                                                             *)

Delivered == UNION {Bytes(out[i]) : i \in DOMAIN out}
End(b) == b.off + b.len

(* Bytes reach the stream in the order of the sender's stream, and none    *)
(* twice, whatever the network lost, repeated or reordered.                *)
InStreamOrder ==
    \A i, j \in DOMAIN out : i < j /\ out[i].len > 0 /\ out[j].len > 0 => End(out[i]) <= out[j].off

(* Where bytes of the sender's stream are missing, the stream is told so.  *)
GapsAreAnnounced ==
    \A i \in 2..Len(out) :
        out[i].len > 0 /\ out[i].off > Max({End(out[j]) : j \in 1..(i - 1)}) => out[i].skip > 0

(* The first page waits for a byte that is still missing: no page is held  *)
(* that could be delivered, and insertIntoConn does not panic.             *)
PagesAreAhead == asm.pages # <<>> => Difference(asm.nextSeq, asm.pages[1].seq) > 0

(* Every page is in a connection or in the cache.                          *)
NoPageLeak == asm.used = Len(asm.pages)

(* A byte that arrived before the stream had moved past it is delivered,   *)
(* or waits in a page: neither a full cache nor a flush nor an idle        *)
(* connection drops it.  Only the end of the stream does, by a FIN or a    *)
(* RST before it.                                                          *)
NoByteLost ==
    torn \/ \A o \in owed :
      \/ o \in Delivered \cup UNION {Bytes(asm.pages[i]) : i \in DOMAIN asm.pages}
      \/ asm.closed /\ Last(out).end /\ o >= End(Last(out))

(* The bookkeeping of pages: each is in one place, in the list only while  *)
(* it waits, and given back.                                               *)
PagesAreKept == TypeOK /\ NoPageLeak /\ (torn \/ PagesAreAhead)

(* What a Stream is promised (assembly.go:164): the reassemblies come in   *)
(* the order of the TCP stream, no byte twice, and say where bytes are     *)
(* missing; also where the sequence numbers roll over amid the stream,     *)
(* unless a packet is early, late or repeated just there.                  *)
StreamIsFaithful == torn \/ (InStreamOrder /\ GapsAreAnnounced)

(* Difference is said to be "safe for roll-overs" (assembly.go:33): the    *)
(* promise holds for packets that are out of order there as well.  It does *)
(* not: Difference adds one less than Add takes off.                       *)
RolloverIsSafe == InStreamOrder /\ GapsAreAnnounced

(* "Skip is set to non-zero if bytes were skipped between this and the     *)
(* last Reassembly" (assembly.go:65) and is 0 where none were.  It is not: *)
(* a page keeps the Skip of its last use.                                  *)
SkipMeansGap ==
    \A i \in 2..Len(out) : out[i].skip # 0 => out[i].off > Max({End(out[j]) : j \in 1..(i - 1)})
=============================================================================
