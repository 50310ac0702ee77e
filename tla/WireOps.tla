------------------------------ MODULE WireOps ------------------------------
(***************************************************************************)
(* The messages of the MongoDB wire protocol as mongoreplay reads them:    *)
(* RawOp, the ops it is parsed into, the cursors in them and the           *)
(* shortening of replies.  (raw_op.go, op.go, the *_op.go, command_reply.go *)
(* and util.go of mongoreplay, and compress.go of llmgo.)                  *)
(*                                                                         *)
(* A body is a sequence of pieces: a "fixed" run of integers, a "name"     *)
(* (a C string), the "kind" of a section, a "doc" (a BSON document), a     *)
(* "part" of a document that claims to be longer than what is left, a      *)
(* "size" (such a document of which only the size is there) and a          *)
(* "packed" message.  Each has its size in bytes and its value.            *)
(***************************************************************************)
EXTENDS Integers, Sequences, SequencesExt, FiniteSets

MsgHeaderLen == 16

(* Documents: the keys in their order, the cursor id, the number of        *)
(* documents in its batch and the number of errors in it.                  *)
NoDoc == [keys |-> <<>>, cursor |-> 0, batch |-> 0, errs |-> 0]
HasKey(d, name) == \E i \in DOMAIN d.keys : d.keys[i] = name

Size(body) == FoldLeft(LAMBDA n, p : n + p.size, 0, body)
Values(body) == [i \in DOMAIN body |-> body[i].v]
Fits(body, kinds) == Len(body) >= Len(kinds) /\ \A i \in DOMAIN kinds : body[i].k = kinds[i]

Op(type) == [type |-> type, name |-> "", cmd |-> "", docs |-> <<>>, ids |-> <<>>, sections |-> <<>>]
NilOp == Op("nil")
Parsed(op) == [op |-> op, err |-> "nil"]
Bad(err) == [op |-> NilOp, err |-> err]

(* The documents of a body from its i-th piece on.  Replies read until     *)
(* io.EOF, which a size without a document gives as well; inserts and      *)
(* commands read as many bytes as the header promises.                     *)
IsDocs(body) == \A i \in DOMAIN body : body[i].k = "doc"

DocsToEOF(body, i) ==
    LET rest == SubSeq(body, i, Len(body))
        all == IF rest # <<>> /\ Last(rest).k = "size" THEN Front(rest) ELSE rest
    IN  IF IsDocs(all) THEN [docs |-> Values(all), err |-> "nil"] ELSE [docs |-> <<>>, err |-> "bad"]

DocsToLength(body, i, left) ==
    LET Enough == {n \in 0..(Len(body) - i + 1) : Size(SubSeq(body, i, i + n - 1)) >= left}
        n == CHOOSE n \in Enough : \A m \in Enough : n <= m
        read == SubSeq(body, i, i + n - 1)
    IN  IF Enough = {} THEN [docs |-> <<>>, err |-> "bad"]
        ELSE [docs |-> read, err |-> "nil"]

-----------------------------------------------------------------------------
(* FromReader of each kind of op: h is the header, body what follows it.   *)
QueryOp(h, body) ==
    LET op == [Op("query") EXCEPT !.name = body[2].v, !.docs = <<body[4].v>>]
        currentRead == Size(SubSeq(body, 1, 4)) + MsgHeaderLen
    IN  IF ~Fits(body, <<"fixed", "name", "fixed", "doc">>) THEN Bad("bad")
        ELSE IF h.length <= currentRead THEN Parsed(op)
        ELSE IF Len(body) >= 5 /\ body[5].k = "doc" THEN Parsed([op EXCEPT !.docs = @ \o <<body[5].v>>])
        ELSE Bad("bad")

GetMoreOp(body) ==
    IF Fits(body, <<"fixed", "name", "fixed">>)
    THEN Parsed([Op("getmore") EXCEPT !.name = body[2].v, !.ids = body[3].v]) ELSE Bad("bad")

(* A document that is cut short cannot be unmarshalled into a bson.D ...   *)
InsertOp(h, body) ==
    LET read == DocsToLength(body, 3, h.length - MsgHeaderLen - Size(SubSeq(body, 1, 2)))
    IN  IF ~Fits(body, <<"fixed", "name">>) \/ read.err # "nil" \/ ~IsDocs(read.docs) THEN Bad("bad")
        ELSE Parsed([Op("insert") EXCEPT !.name = body[2].v, !.docs = Values(read.docs)])

UpdateOp(body) ==
    IF Fits(body, <<"fixed", "name", "fixed", "doc", "doc">>)
    THEN Parsed([Op("update") EXCEPT !.name = body[2].v, !.docs = <<body[4].v, body[5].v>>]) ELSE Bad("bad")

DeleteOp(body) ==
    IF Fits(body, <<"fixed", "name", "fixed", "doc">>)
    THEN Parsed([Op("delete") EXCEPT !.name = body[2].v, !.docs = <<body[4].v>>]) ELSE Bad("bad")

(* The ids that are there, when there are fewer than announced.            *)
KillCursorsOp(body) ==
    IF Fits(body, <<"fixed">>)
    THEN LET there == IF body[1].v[1] < Len(body) THEN body[1].v[1] ELSE Len(body) - 1
         IN  Parsed([Op("killcursors") EXCEPT !.ids = [i \in 1..there |-> body[i + 1].v[1]]])
    ELSE Bad("bad")

(* ... but into a bson.Raw it can: CommandOp ignores the error of          *)
(* ReadDocument, and takes the document with its end zeroed.               *)
CommandOp(h, body) ==
    LET read == DocsToLength(body, 5, h.length - MsgHeaderLen - Size(SubSeq(body, 1, 4)))
        Raw == {"doc", "part", "size"}
    IN  IF ~Fits(body, <<"name", "name", "doc", "doc">>) \/ read.err # "nil" THEN Bad("bad")
        ELSE IF \E i \in DOMAIN read.docs : read.docs[i].k \notin Raw THEN Bad("bad")
        ELSE Parsed([Op("command") EXCEPT !.name = body[1].v, !.cmd = body[2].v,
                       !.docs = <<body[3].v, body[4].v>> \o Values(read.docs)])

CommandReplyOp(body) ==
    LET read == DocsToEOF(body, 3)
    IN  IF ~Fits(body, <<"doc", "doc">>) \/ read.err # "nil" THEN Bad("bad")
        ELSE Parsed([Op("commandreply") EXCEPT !.docs = <<body[1].v, body[2].v>> \o read.docs])

ReplyOp(body) ==
    LET read == DocsToEOF(body, 2)
    IN  IF ~Fits(body, <<"fixed">>) \/ read.err # "nil" THEN Bad("bad")
        ELSE Parsed([Op("reply") EXCEPT !.ids = body[1].v, !.docs = read.docs])

-----------------------------------------------------------------------------
(* OP_MSG: sections until the length of the header is reached, less the    *)
(* checksum when the flags announce one.                                   *)
ChecksumLength(body) == IF body[1].v[1] = 1 THEN 4 ELSE 0

SectionsBegin(h, body) ==
    [want |-> "kind", left |-> 0, docs |-> <<>>, sections |-> <<>>,
     rest |-> h.length - MsgHeaderLen - body[1].size - ChecksumLength(body)]

(* readSection and readPayloadType1, a piece at a time.                    *)
SectionDone(st, kind, docs) ==
    [st EXCEPT !.sections = Append(@, [kind |-> kind, docs |-> docs]), !.docs = <<>>,
               !.want = IF st.rest > 0 THEN "kind" ELSE "checksum"]

readSection(before, p) ==
    LET st == [before EXCEPT !.rest = @ - p.size]
    IN  CASE st.want = "kind" /\ p.k = "kind" /\ p.v \in {0, 1} ->
               [st EXCEPT !.want = IF p.v = 0 THEN "doc" ELSE "length"]
          [] st.want = "doc" /\ p.k = "doc" -> SectionDone(st, 0, <<p.v>>)
          [] st.want = "length" /\ p.k = "fixed" -> [st EXCEPT !.want = "identifier", !.left = p.v[1] - p.size]
          [] st.want = "identifier" /\ p.k = "name" /\ st.left > p.size ->
               [st EXCEPT !.want = "docs", !.left = @ - p.size]
          [] st.want = "identifier" /\ p.k = "name" /\ st.left <= p.size -> SectionDone(st, 1, <<>>)
          [] st.want = "docs" /\ p.k = "doc" /\ st.left > p.size ->
               [st EXCEPT !.left = @ - p.size, !.docs = Append(@, p.v)]
          [] st.want = "docs" /\ p.k = "doc" /\ st.left <= p.size -> SectionDone(st, 1, Append(st.docs, p.v))
          [] st.want = "checksum" /\ p.k = "fixed" -> [st EXCEPT !.want = "end"]
          [] OTHER -> [st EXCEPT !.want = "bad"]

Payload0(sections) == SelectSeq(sections, LAMBDA s : s.kind = 0)

(* FromReader ends with getCommandName and getDB: there is a section of    *)
(* kind 0, and the name is that of its document's first key.  An empty     *)
(* document has none, and rawD[0] is out of range.                         *)
MsgOp(h, body) ==
    LET st == FoldLeft(readSection, SectionsBegin(h, body), Tail(body))
        first == Payload0(st.sections)
    IN  IF ~Fits(body, <<"fixed">>) THEN Bad("bad")
        ELSE IF st.want # (IF ChecksumLength(body) = 4 THEN "end" ELSE "checksum") THEN Bad("bad")
        ELSE IF first = <<>> THEN Bad("bad")
        ELSE IF first[1].docs[1].keys = <<>> THEN Bad("panic")
        ELSE Parsed([Op("msg") EXCEPT !.sections = st.sections, !.cmd = first[1].docs[1].keys[1]])

-----------------------------------------------------------------------------
(* DecompressMessage: a compressor that is not registered, or data that is *)
(* longer than announced, is an error.                                     *)
Decompress(raw) ==
    LET p == raw.body[1]
    IN  IF p.compressor \notin {"noop", "snappy", "zlib"} \/ Size(p.v.body) > p.uncompressed
        THEN [raw |-> raw, err |-> "bad"]
        ELSE [raw |-> [header |-> [p.v.header EXCEPT !.requestID = raw.header.requestID,
                                                     !.responseTo = raw.header.responseTo,
                                                     !.length = MsgHeaderLen + Size(p.v.body)],
                       body |-> p.v.body],
              err |-> "nil"]

Unpacked(raw) == IF raw.header.opcode = "compressed" THEN Decompress(raw) ELSE [raw |-> raw, err |-> "nil"]

FromReader(raw) ==
    CASE raw.header.opcode = "query" -> QueryOp(raw.header, raw.body)
      [] raw.header.opcode = "getmore" -> GetMoreOp(raw.body)
      [] raw.header.opcode = "insert" -> InsertOp(raw.header, raw.body)
      [] raw.header.opcode = "update" -> UpdateOp(raw.body)
      [] raw.header.opcode = "delete" -> DeleteOp(raw.body)
      [] raw.header.opcode = "killcursors" -> KillCursorsOp(raw.body)
      [] raw.header.opcode = "command" -> CommandOp(raw.header, raw.body)
      [] raw.header.opcode = "commandreply" -> CommandReplyOp(raw.body)
      [] raw.header.opcode = "reply" -> ReplyOp(raw.body)
      [] raw.header.opcode = "msg" -> MsgOp(raw.header, raw.body)
      [] OTHER -> Parsed(NilOp)

(* A getMore and the answer in an OP_MSG are ops of their own.             *)
maybeChangeOpToGetMore(h, op) ==
    IF op.type = "command" /\ op.cmd = "getMore" THEN [op EXCEPT !.type = "commandgetmore"]
    ELSE IF op.type = "msg" /\ op.cmd = "getMore" THEN [op EXCEPT !.type = "msggetmore"]
    ELSE IF op.type = "msg" /\ h.responseTo # 0 THEN [op EXCEPT !.type = "msgreply", !.cmd = "reply"]
    ELSE op

Parse(before) ==
    LET u == Unpacked(before)
        p == FromReader(u.raw)
    IN  IF u.err # "nil" THEN Bad(u.err)
        ELSE [p EXCEPT !.op = maybeChangeOpToGetMore(u.raw.header, @)]

-----------------------------------------------------------------------------
(* getCursorID of the replies.  The cursor of an OP_REPLY is in its fixed  *)
(* part or, when that is 0, in its document, if there is just one.         *)
IsReply(op) == op.type \in {"reply", "commandreply", "msgreply"}

getCursorID(op) ==
    CASE op.type = "reply" /\ op.ids[1] # 0 -> op.ids[1]
      [] op.type = "reply" /\ op.ids[1] = 0 -> IF Len(op.docs) = 1 THEN op.docs[1].cursor ELSE 0
      [] op.type = "commandreply" -> op.docs[1].cursor
      [] op.type = "msgreply" -> Payload0(op.sections)[1].docs[1].cursor

(* getNumReturned and getErrors.  The documents of a cursor are taken out  *)
(* of an OP_COMMANDREPLY or an OP_MSG only by Execute, not when one is     *)
(* parsed from a recording.                                                *)
getNumReturned(op) == IF op.type = "reply" THEN Len(op.docs) ELSE 0

getErrors(op) ==
    CASE op.type = "reply" -> IF op.docs = <<>> THEN 0 ELSE op.docs[1].errs
      [] op.type = "commandreply" -> 0
      [] op.type = "msgreply" -> Payload0(op.sections)[1].docs[1].errs

(* getCursorIDs and setCursorIDs of the ops whose cursors are rewritten;   *)
(* getMore has one, and an error otherwise is lost in an OP_MSG, which     *)
(* then has an empty document.                                             *)
Rewriteable(op) == op.type \in {"getmore", "killcursors", "commandgetmore", "msggetmore"}

getCursorIDs(op) ==
    CASE op.type \in {"getmore", "killcursors"} -> op.ids
      [] op.type = "commandgetmore" -> <<op.docs[1].cursor>>
      [] op.type = "msggetmore" -> <<Payload0(op.sections)[1].docs[1].cursor>>

OneID(ids) == IF ids = <<>> THEN 0 ELSE ids[1]

(* Plausible bug: only the first cursor of a list is replaced.             *)
setFirstCursorID(op, ids) ==
    CASE op.type \in {"killcursors", "getmore"} -> Parsed([op EXCEPT !.ids = <<OneID(ids)>>])
      [] op.type = "commandgetmore" -> Parsed([op EXCEPT !.docs[1].cursor = OneID(ids)])
      [] op.type = "msggetmore" -> Parsed([op EXCEPT !.sections[1].docs[1].cursor = OneID(ids)])

setCursorIDs(op, ids) ==
    LET at == CHOOSE i \in DOMAIN op.sections :
                /\ op.sections[i].kind = 0
                /\ \A j \in 1..(i - 1) : op.sections[j].kind # 0
    IN  CASE op.type = "killcursors" -> Parsed([op EXCEPT !.ids = ids])
          [] op.type \in {"getmore", "commandgetmore"} /\ Len(ids) > 1 -> [op |-> op, err |-> "bad"]
          [] op.type = "getmore" /\ Len(ids) <= 1 -> Parsed([op EXCEPT !.ids = <<OneID(ids)>>])
          [] op.type = "commandgetmore" /\ Len(ids) <= 1 -> Parsed([op EXCEPT !.docs[1].cursor = OneID(ids)])
          [] op.type = "msggetmore" /\ Len(ids) <= 1 ->
               Parsed([op EXCEPT !.sections[at].docs[1].cursor = OneID(ids)])
          [] op.type = "msggetmore" /\ Len(ids) > 1 -> Parsed([op EXCEPT !.sections[at].docs = <<NoDoc>>])

-----------------------------------------------------------------------------
(* ShortenReply: the first document of an OP_REPLY, and the reply of a     *)
(* find without its batch; of that the cursor and ok remain.               *)
ShortSize == 7

ShortenReply(raw) ==
    LET d == raw.body[1]
        short == [d EXCEPT !.size = ShortSize,
                           !.v = [@ EXCEPT !.batch = 0, !.errs = 0, !.keys = <<"cursor", "ok">>]]
    IN  CASE raw.header.opcode = "reply" /\ raw.header.length <= MsgHeaderLen + 20 -> [raw |-> raw, err |-> "nil"]
          [] raw.header.opcode = "reply" /\ raw.header.length > MsgHeaderLen + 20 ->
               IF raw.body[2].k = "doc"
               THEN [raw |-> [raw EXCEPT !.body = SubSeq(@, 1, 2)], err |-> "nil"]
               ELSE [raw |-> raw, err |-> "bad"]
          [] raw.header.opcode = "commandreply" ->
               IF d.k # "doc" THEN [raw |-> raw, err |-> "bad"]
               ELSE IF ~HasKey(d.v, "cursor") THEN [raw |-> raw, err |-> "nil"]
               ELSE [raw |-> [header |-> [raw.header EXCEPT !.length = @ - (d.size - ShortSize)],
                              body |-> <<short>> \o Tail(raw.body)],
                     err |-> "nil"]
          [] OTHER -> [raw |-> raw, err |-> "bad"]

-----------------------------------------------------------------------------
(* What kind of operation an op is.                                        *)
OpType(d) ==
    LET writes == SelectSeq(<<"insert", "update", "delete">>, LAMBDA k : HasKey(d, k))
    IN  IF writes # <<>> THEN writes[1] ELSE "command"

extractOpType(d) ==
    IF OpType(d) # "command" THEN [type |-> OpType(d), command |-> ""]
    ELSE [type |-> "command", command |-> IF d.keys = <<>> THEN "" ELSE d.keys[1]]

DriverCommands == {"isMaster", "ismaster", "getnonce", "ping", "saslStart", "saslContinue"}
ReadCommands == {"find", "aggregate", "get_more"}
WriteCommands == {"insert", "update", "modify", "delete"}

IsDriverOp(op) ==
    \/ /\ op.type = "query" /\ extractOpType(op.docs[1]).type = "command"
       /\ extractOpType(op.docs[1]).command \in DriverCommands
    \/ op.type = "command" /\ op.cmd \in DriverCommands

(* For an OP_QUERY the type is compared, which is never one of a read.     *)
IsReadOp(op) ==
    \/ op.type = "query" /\ extractOpType(op.docs[1]).type \in ReadCommands
    \/ op.type = "insert"
    \/ op.type \in {"msg", "command"} /\ op.cmd \in ReadCommands

IsWriteOp(op) ==
    \/ op.type = "query" /\ extractOpType(op.docs[1]).type \in WriteCommands
    \/ op.type = "insert"
    \/ op.type \in {"msg", "command"} /\ op.cmd \in WriteCommands
=============================================================================
