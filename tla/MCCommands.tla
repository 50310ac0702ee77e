----------------------------- MODULE MCCommands -----------------------------
(* Small instances of module Commands: messages as they are on the wire,   *)
(* each with the op it means.                                              *)
EXTENDS Commands

D(size, keys, cursor) == [k |-> "doc", size |-> size, v |-> [NoDoc EXCEPT !.keys = keys, !.cursor = cursor]]
F(size, v) == [k |-> "fixed", size |-> size, v |-> v]
N(v) == [k |-> "name", size |-> 5, v |-> v]
K(v) == [k |-> "kind", size |-> 1, v |-> v]

Raw(opcode, id, to, body) ==
    [header |-> [opcode |-> opcode, length |-> MsgHeaderLen + Size(body), requestID |-> id, responseTo |-> to],
     body |-> body]
M(opcode, id, to, body, op) == [raw |-> Raw(opcode, id, to, body), means |-> Parsed(op)]
Unreadable(opcode, id, to, body) == [raw |-> Raw(opcode, id, to, body), means |-> Bad("bad")]

d1 == D(9, <<"a">>, 0)
d2 == D(6, <<"b">>, 0)
Find == D(12, <<"find">>, 0)
More == D(14, <<"getMore", "collection">>, 7)
CursorDoc == D(30, <<"cursor", "ok">>, 7)
OkDoc == D(8, <<"ok">>, 0)

Query(id, d) == M("query", id, 0, <<F(4, <<0>>), N("c"), F(8, <<0, 0>>), d>>,
                  [Op("query") EXCEPT !.name = "c", !.docs = <<d.v>>])
QuerySelect(id) == M("query", id, 0, <<F(4, <<0>>), N("c"), F(8, <<0, 0>>), d1, d2>>,
                     [Op("query") EXCEPT !.name = "c", !.docs = <<d1.v, d2.v>>])
IsMaster(id) == Query(id, D(10, <<"isMaster">>, 0))
GetMore(id) == M("getmore", id, 0, <<F(4, <<0>>), N("c"), F(12, <<7>>)>>, [Op("getmore") EXCEPT !.name = "c", !.ids = <<7>>])
Insert(id) == M("insert", id, 0, <<F(4, <<0>>), N("c"), d1, d2>>,
                [Op("insert") EXCEPT !.name = "c", !.docs = <<d1.v, d2.v>>])
Update(id) == M("update", id, 0, <<F(4, <<0>>), N("c"), F(4, <<0>>), d1, d2>>,
                [Op("update") EXCEPT !.name = "c", !.docs = <<d1.v, d2.v>>])
Delete(id) == M("delete", id, 0, <<F(4, <<0>>), N("c"), F(4, <<0>>), d1>>, [Op("delete") EXCEPT !.name = "c", !.docs = <<d1.v>>])
Kill(id) == M("killcursors", id, 0, <<F(8, <<2>>), F(8, <<7>>), F(8, <<8>>)>>, [Op("killcursors") EXCEPT !.ids = <<7, 8>>])
Command(id, cmd, args, docs) ==
    M("command", id, 0, <<N("db"), N(cmd), args, d2>> \o docs,
      [Op(IF cmd = "getMore" THEN "commandgetmore" ELSE "command") EXCEPT
         !.name = "db", !.cmd = cmd, !.docs = <<args.v, d2.v>> \o Values(docs)])
CommandReply(to, d) == M("commandreply", 90, to, <<d, d2, d1>>, [Op("commandreply") EXCEPT !.docs = <<d.v, d2.v, d1.v>>])
Reply(to, cursor, docs) == M("reply", 91, to, <<F(20, <<cursor>>)>> \o docs, [Op("reply") EXCEPT !.ids = <<cursor>>, !.docs = Values(docs)])

S0(d) == [kind |-> 0, docs |-> <<d.v>>]
Msg(type, id, to, d) ==
    M("msg", id, to, <<F(4, <<0>>), K(0), d>>,
      [Op(type) EXCEPT !.sections = <<S0(d)>>, !.cmd = IF type = "msgreply" THEN "reply" ELSE d.v.keys[1]])
InsertDoc == D(13, <<"insert", "$db">>, 0)
MsgInsert(id) ==
    M("msg", id, 0, <<F(4, <<1>>), K(1), F(4, <<24>>), N("docs"), d1, d2, K(0), InsertDoc, F(4, <<5>>)>>,
      [Op("msg") EXCEPT !.sections = <<[kind |-> 1, docs |-> <<d1.v, d2.v>>], S0(InsertDoc)>>, !.cmd = "insert"])
Packed(compressor, m) ==
    [raw |-> Raw("compressed", m.raw.header.requestID, m.raw.header.responseTo,
                 <<[k |-> "packed", size |-> 20, compressor |-> compressor, uncompressed |-> Size(m.raw.body), v |-> m.raw]>>),
     means |-> IF compressor = "snappy" THEN m.means ELSE Bad("bad")]
EOF == M("none", 0, 0, <<>>, NilOp)
Cut == Unreadable("insert", 5, 0, <<F(4, <<0>>), N("c"), [k |-> "part", size |-> 3, v |-> NoDoc]>>)
CutReply(to) == Unreadable("reply", 92, to, <<F(20, <<0>>), [k |-> "part", size |-> 3, v |-> NoDoc]>>)

(* A captured op: message, time, connection; two connections have the      *)
(* endpoints of their number.                                              *)
O(n, m, seen, conn) ==
    [n |-> n, raw |-> m.raw, means |-> m.means, seen |-> seen, conn |-> conn, endpoint |-> conn % 2]

Old == <<O(1, IsMaster(1), 1, 0), O(2, Reply(1, 0, <<OkDoc>>), 2, 0), O(3, Query(2, Find), 2, 1),
         O(4, Reply(2, 7, <<d1, d2>>), 3, 1), O(5, Insert(3), 4, 0), O(6, QuerySelect(4), 4, 1), O(7, GetMore(5), 5, 1),
         O(8, Reply(5, 0, <<>>), 6, 1), O(9, EOF, 7, 1)>>
Commands1 == <<O(1, Command(1, "find", Find, <<d1>>), 1, 0), O(2, CommandReply(1, CursorDoc), 3, 0),
               O(3, Command(2, "getMore", More, <<>>), 3, 0), O(4, CommandReply(2, OkDoc), 4, 0), O(5, Kill(3), 4, 2),
               O(6, Update(4), 5, 1), O(7, Delete(5), 5, 1), O(8, Command(6, "update", d1, <<d2, d2>>), 6, 2)>>
New == <<O(1, Msg("msg", 1, 0, Find), 1, 0), O(2, MsgInsert(1), 2, 1), O(3, Msg("msgreply", 90, 1, CursorDoc), 3, 0),
         O(4, Msg("msggetmore", 2, 0, More), 4, 0), O(5, Packed("snappy", Msg("msgreply", 91, 1, OkDoc)), 4, 1),
         O(6, Msg("msgreply", 92, 2, OkDoc), 5, 0), O(7, Packed("snappy", Msg("msg", 3, 0, Find)), 6, 1)>>
Reused == <<O(1, Query(1, Find), 1, 0), O(2, Query(1, d1), 2, 0), O(3, Reply(1, 0, <<d1>>), 4, 0),
            O(4, Reply(1, 0, <<d1>>), 5, 0), O(5, Query(1, d1), 6, 1), O(6, CutReply(1), 6, 0), O(7, Query(2, d1), 7, 0)>>
Broken == <<O(1, Insert(1), 1, 0), O(2, Query(2, D(9, <<"update">>, 0)), 1, 1), O(3, Cut, 2, 0), O(4, Delete(3), 3, 1)>>
Unknown == <<O(1, Insert(1), 1, 0), O(2, Packed("zstd", Msg("msg", 3, 0, Find)), 2, 0)>>

Modern == <<O(1, Msg("msg", 1, 0, D(10, <<"isMaster", "$db">>, 0)), 1, 0), O(2, Msg("msgreply", 90, 1, OkDoc), 2, 0),
            O(3, MsgInsert(2), 3, 1)>>

Base(command, ops) ==
    [command |-> command, ops |-> ops, fullReplies |-> FALSE, split |-> 1, gzip |-> FALSE, start |-> 0, duration |-> 0,
     removeDriverOps |-> FALSE, readOnly |-> FALSE, writeOnly |-> FALSE, paired |-> FALSE, collect |-> "format"]
Split(n, ops) == [Base("filter", ops) EXCEPT !.split = n]

MCCases ==
    [f1 |-> [Split(2, Old) EXCEPT !.removeDriverOps = TRUE, !.start = 2, !.duration = 3],
     f2 |-> [Split(3, Commands1) EXCEPT !.start = 2, !.duration = 1], f3 |-> [Split(2, New) EXCEPT !.writeOnly = TRUE],
     f4 |-> [Split(1, New) EXCEPT !.readOnly = TRUE], f5 |-> [Split(1, Old) EXCEPT !.gzip = TRUE, !.duration = 2],
     f6 |-> [Split(2, Old) EXCEPT !.readOnly = TRUE, !.gzip = TRUE],
     f7 |-> [Split(2, Broken) EXCEPT !.removeDriverOps = TRUE], f8 |-> [Split(1, Unknown) EXCEPT !.writeOnly = TRUE],
     f9 |-> [Split(2, Modern) EXCEPT !.removeDriverOps = TRUE], f10 |-> [Split(3, Commands1) EXCEPT !.writeOnly = TRUE],
     f11 |-> [Split(2, Commands1) EXCEPT !.readOnly = TRUE],
     m1 |-> Base("monitor", Old), m2 |-> [Base("monitor", Commands1) EXCEPT !.paired = TRUE],
     m3 |-> [Base("monitor", New) EXCEPT !.paired = TRUE], m4 |-> [Base("monitor", Reused) EXCEPT !.paired = TRUE],
     m5 |-> [Base("monitor", Reused) EXCEPT !.fullReplies = TRUE], m6 |-> Base("monitor", Broken),
     m7 |-> [Base("monitor", Old) EXCEPT !.collect = "none"], m8 |-> [Base("monitor", Old) EXCEPT !.paired = TRUE],
     p1 |-> Base("play", Commands1), p2 |-> Base("play", New), p3 |-> Base("play", Old),
     p4 |-> [Base("play", Old) EXCEPT !.collect = "none"]]
=============================================================================
