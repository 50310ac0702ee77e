# A verification of mongoreplay

This project models the core of `mongoreplay` in TLA+, checks the models with
TLC and proves the invariants of five of them with TLAPS. Most other tools of the repository
are scripts that run once and top to bottom; `mongoreplay`
(`src/mongoreplay`) is a concurrent program with a protocol and with a database
driver of its own, and it is what the project is about.

## 1. The system

`mongoreplay` captures MongoDB traffic and plays it against another server:

    packets -> Assembler -> MongoOpStream -> Record -> playback file
                                 \-> Monitor -> statistics
    playback file -> parallel reader -> OpChan -> Play -> connections -> llmgo -> server
                                           \-> Filter -> playback files

| Component | State | Operations | Where it is hard |
|---|---|---|---|
| TCP assembly (`assembly.go`) | per flow: next sequence number and a list of pages; the page cache | `AssembleWithTimestamp`, `FlushOlderThan`, `FlushAll` | lost, repeated, reordered and overlapping packets; wrapping sequence numbers; recycled pages; page limits |
| Packet handler (`packet_handler.go`) | the capture loop | `Handle`, `bookkeep`, `Close` | what is flushed and closed, and in which order, at the end |
| Op stream (`mongo_op_handler.go`, `recorded_op.go`, `message.go`) | per connection two streams with their message under construction; map of half-open connections; a heap of ops | `New`, `Reassembled`, `ReassemblyComplete`, `handleOps`, `Close` | messages across packets and gaps; reused ports; three unbuffered channels in a row; a heap of limited size |
| Record (`record.go`) | the first write error | one goroutine over `Ops` | must keep reading after an error |
| Parallel file reader (`parallel_file_read_manager.go`) | tokens, job channel, result channels, index of reader and of consumer | `runFileReader`, `runParseWorker`, `runParsePool`, `next`, `err` | order from a pool of workers; errors racing the end; who still uses the file |
| Playback file (`playbackfile.go`, `util.go`) | position, generation | `OpChan`, `ReadDocument`, writer | how a cut file ends; a file played several times |
| Play and executor (`play.go`, `execute.go`) | a channel and a goroutine per connection; incomplete and complete reply pairs | `Play`, `newExecutionConnection`, `Execute`, `AddFromFile`, `AddFromWire`, `handleCompletedReplies` | halves of a pair in any order; full channels; sockets that do not open; ops that fail |
| Cursor managers (`cursors.go`) | recorded to live cursor, success and failure channels, uses left | `GetCursor`, `SetCursor`, `MarkFailed`, preprocessing | connections that wait for each other; channels closed twice |
| Filter (`filter.go`) | a channel and a file per output | `Execute`, `Filter`, writers, `shouldFilterOp` | which ops are kept; an error channel without a buffer |
| Monitor and statistics (`monitor.go`, `stat_collector.go`) | unresolved requests, a bounded channel of statistics | `Collect`, `GenerateOpStat`, `ResolveOp`, `Close` | pairs that never complete, ids used again, closing the channel |
| Wire protocol (`op.go`, `raw_op.go`, `*_op.go`) | none | parsing, cursors, shortening, classifying | five generations of formats; messages cut short |
| llmgo transactions (`txn/`) | in the database: transactions, queues of tokens, the stash; per runner a stack of calls | `Run`, `Resume`, `ResumeAll`, the flusher | runners that work on the same transaction; runners that die |
| llmgo cluster (`cluster.go`, `server.go`) | servers, masters, seeds, references, the sync channel | `syncServersLoop`, `AcquireSocket`, `Acquire`, `Release` | fail-over during a sync; servers added twice; waiters |
| llmgo sockets and logins (`server.go`, `socket.go`, `auth.go`, `session.go`) | caches of sockets, references, replies waited for, credentials flagged for logout | `AcquireSocket`, `Release`, `kill`, `readLoop`, `Login`, `LogoutAll`, `setSocket` | a socket that dies under any of them; a socket reused by another user |
| llmgo queries and writes (`session.go`, `bulk.go`, `queue.go`) | an iterator with its queue, its cursor and its counts; a bulk with its actions and its errors | `Next`, `getMore`, `replyFunc`, `Close`; `Run`, `writeOp` | several goroutines on an iterator, batches on their way; which write failed |
| llmgo GridFS (`gridfs.go`) | chunk, buffers, pending inserts; the cached chunk | `Write`, `Close`, `Abort`, `Read`, `Seek`, `RemoveId` | inserts in the background that fail after the fact |
| legacy extended JSON (`legacy/json`) | scanner: a step function, a stack, one symbol to redo; decoder: an offset, `useNumber` | `DecodeMap`, `ScanObject`, `checkValid` | two machines that read the text separately and have to agree |

What makes them correct: the stream gets the sender's bytes in order, once, and
is told of gaps (assembly); what is recorded are whole messages in order of
time and the recording ends (op stream, record); the ops leave the reader in
file order, and io.EOF means that all are out (reader); a recorded cursor is
replaced by the live cursor of its own query, playback ends and does not crash
(play); a file of ops is split as asked and every op is in the statistics once
(filter, monitor); a transaction has all of its effects once or none (txn); the
lists of servers agree and nobody waits for ever (cluster); a request runs with
the credentials of its session and learns how it ended (sockets); an iteration
returns every document once and in order, and a write reports what it did
(queries and writes); a file is whole or not there (GridFS).

The other directories: `migration/mongosync_insights` is a Flask application
whose session, log and snapshot stores and scan cache are shared by concurrent
requests; `niceDeleteMany` runs a pool of delete batches under admission
control; the remaining ones are data gathering scripts (`getMongoData`, `mdiag`,
`dbStats`, ...), checks for single server issues (`ca-*`, `split_sessions`),
repair scripts for time-series buckets, and cluster administration scripts
(`balancer`, `orphanage`, `replset-consistency`). PROJECT.json lists each with
its status.

## 2. The modules

| Module | What it is |
|---|---|
| `OrderedFileRead` | abstract: a sequential pass over a playback file |
| `ParallelFileRead` | the pool of goroutines that implements it |
| `ModLemmas`, `ParallelFileReadProofs` | lemmas about `%`, induction and sequences; the theorems about `ParallelFileRead` |
| `Playback`, `MCPlayback` | preprocessing, Play, the connection goroutines and both cursor managers |
| `PlaybackProofs` | the theorems about `Playback` |
| `Assembler` | TCP reassembly of one flow |
| `OpStream`, `MCOpStream` | from reassembled bytes to the recorded ops |
| `WireOps` | messages of the wire protocol: reading, cursors, shortening |
| `Commands`, `MCCommands` | record, filter, monitor and play around a file of such messages |
| `Txn`, `MCTxn` | the transaction runners on their database |
| `TxnProofs` | the theorems about `Txn` |
| `Topology`, `MCTopology` | a cluster that finds out its servers, and the sessions that wait for them |
| `TopologyProofs` | the theorems about `Topology` |
| `Pool`, `MCPool` | the sockets of a server, sessions that share them, logins |
| `PoolProofs` | the theorems about `Pool` |
| `ResultStream` | abstract: what an iteration promises to those who call `Next` |
| `Cursor` | the iterator that implements it |
| `Writes` | bulk and single writes |
| `Collection`, `MCCollection` | `Writes` and `Cursor` composed: what was written is read |
| `CollectionInv`, `CollectionProofs` | inductive invariants of `Collection`; the theorems about writes and iterator |
| `GridFS`, `MCGridFS` | a file that is written, read and removed |
| `GridFSProofs` | the theorems about `GridFS` |
| `JsonScanner`, `JsonDecoder`, `Json` | extended JSON: the scanner, the decoder on top of it, the stream |
| `JsonGrammar`, `MCJson` | the same language, said without a scanner |

An operator `X_Suffix` (or one named for what it does wrong, such as
`completeWriteAtOnce`) under a comment "Plausible bug" is a form of `X` with a
mistake in it. They are not part of any specification; each shows that some
property would notice that mistake.

Properties that belong together are conjunctions of named parts
(`Consistent`, `PagesAreKept`, ...); the parts carry the comments.

### ParallelFileRead

A document is its position in the file. `readerPc`, `workerPc` and `consumerPc`
are the program counters of the file reader, the parse workers and the loop of
`OpChan`; `available` and `parseJobsChan` are the buffered channels of the same
names. `resultChan` has no buffer: a send is one step with its receive
(`WorkerDeliver`). The file (`input`) has `n` documents, some of them do not
unmarshal (`bad`), and it ends cleanly, in the middle of a document or with a
read error. `ReadDocument` has the code's behaviour that a file cut between the
length of a document and its body ends like a clean one. `fileReadErr` is read
without synchronisation, so `ConsumerCheck` may see its old value.

`OrderedFileRead` delivers the next document or ends the pass with io.EOF, a
read error or a parse error, and says when each is allowed.

### Playback

The recording is grown op by op while preprocessing reads it (`PreprocessOp`),
so that every recording within the bounds is played: queries, getMores or
killCursors of lists of cursors, replies to each of these, ends of connections.
`NextOps` says which recordings a capture can hold. Play is one actor
(`DispatchOp`, `DispatchEOF`, `CloseChans`, `PlayReturn`, with `NextGeneration`
and `SuppressEOF` of `OpChan`) and each connection is one. A connection takes an
op, looks its cursors up one at a time, may block in `GetCursor`, executes, and
handles completed replies; every lock of the code protects one step. `info` is
the map of the cursor manager: `preprocessCursorManager`, or `cursorCache` when
preprocessing is off. A live cursor is named by the query and generation that
got it, which makes a mix-up visible. `case` is chosen at first: the cursors and
lists of them, the number of ops, `--repeat`, `--no-preprocess`, and what may go
wrong outside of the tool. `NeverCrashes` and `CursorNotForgotten` are claimed
for one generation only: see section 5.

### Assembler

One flow. A packet carries a range of offsets of the sender's stream, which ends
with a FIN or with an RST anywhere in it; sequence numbers are `0..SeqMax`, and
of the two numbers a stream may start at (`Isns`) one makes it wrap around after
two bytes. `AssembleWithTimestamp` is one action with the
whole handler in it: opening the connection, buffering in pages of `pageBytes`,
delivery, closing at FIN and the page limit. The free list of the page cache is
kept with the fields of the recycled pages that `pageCache.next` does not reset.
`FlushOlderThan` and `FlushAll` are the other two. Two histories: `owed` has the
bytes that did not arrive too late, and `torn` says that a packet had to be
compared with a place across the rollover and was not in order there. `Difference`
is one off then, so that streams that are `torn` are excused; a stream that only
runs through the rollover is not (section 5).

### OpStream

The two flows of one connection, and those that follow on the same ports. The
assembler's calls are the input: `New`, `Reassembled` with any cut of the flow
(with a gap, or from amid a flow), `ReassemblyComplete`. A message is the set of
its offsets, a header is believed exactly where a message starts; that a body
can look like a header is outside of the model. `streamOps` is the state
machine; `handleOps`, `DrainHeap` and `Record` are the goroutines behind it.
Because every channel is unbuffered and `Reassembled` waits for its `done`, the
next call comes when the ops of the last have been taken. The time of a
reassembly is the arrival of its packet: any time since the first packet of the
flow, so that the bytes of a page that waited behind a gap are older than those
of the packet that let it out, and ops reach the heap out of order. The EOF of a
connection gets the time of the last op read, plus one, and can pass an op in the
heap that is later than that one: `EOFIsLast` says that it does not pass the
others. Of ops with the same time, `container/heap` may give any first.

### WireOps and Commands

A body is a sequence of pieces (integers, names, documents, and pieces that are
cut short), each with its size, and a document is its keys, its cursor, the size
of its batch and its errors. `Parse` with the `FromReader` of every op,
`ShortenReply`, `setCursorIDs` and the classification are operators over it.

`Commands` records a capture (`Received`, `Shortens`) and gives the file to one
command. Filter has its writers with their bounded channels, the unbuffered
error channel and the files that are removed in the end; monitor and play
generate statistics that a recorder takes from a bounded channel. A read or a
write may fail at any place. `FilterIsExact` compares the files with what was
sent (`Reads`, `Writes`, `DriverIssued` are told from the messages, not with the
code's `IsReadOp`, `IsWriteOp` and `IsDriverOp`), but for the ops of which the
options say something else than the code does (`Disputed`). `Hangs` are the two
places where `filter` stands for ever, `Untimed` the request whose reply the
statistics do not wait for.

### Txn

One action is one request to the database with the local computation that
follows. The database holds for each document its `txn-queue`, its revision and
whether it is there, its record in the stash, and the transactions with their
state, nonce and revisions. `stack[r]` holds the calls of `run`,
`recurse` and `advance`, of which some are recursive. `Crash` kills a runner
between any two requests (`chaos.go`), and another one may `Resume` what it left.
`log` has the transactions that changed a document, so that a change made
twice or never is visible. The workloads leave out a removal that races an
insertion of the same document: the comment in `apply` (`flusher.go:834`) names
that race itself.

### Topology

`loopStep` is `syncServersLoop` with `syncServersIteration`, `workerStep` the
goroutine of `spawnSync` for an address, `userStep` a session in
`AcquireSocket`. Objects of `mongoServer` have identities, so that an object
that stays open, or one that is not the one at its address, can be seen. The
members of the set change roles, go down and come back; `iter.listed` records
whom a master vouched for.

### Pool

Two sessions (one may be made as a copy of the other) and the sockets of one server.
`replyFuncs`, `creds` and `logout` are those of `socket.go` and `auth.go`,
`auth` is what the server at the other end believes. An action is what happens
under one lock: `Release`, for one, is several, and a `kill` can come between.
A goroutine remembers the credentials it was asked to log in with (`arg`) and
those of the request it sends (`cred`), which differ when older ones are logged
in first; a request for a nonce waits in `nonce`, not in `replyFuncs`. A request
may be one that cannot be serialized (`badRequest`): `Query` then returns after
it has taken the flagged logouts off the socket, which are lost (`lost`). A
session may be logged in as two users of one database, of which `Logout` removes
one (`halfOut`). `RunsAsSession` excuses just these databases.

### Cursor, ResultStream, Writes, Collection

`iter` has the fields of `Iter`, its queue a ring with the capacity of the code.
An action is what happens under `iter.m`, or what the server or the reading
goroutine does: `Next`, `getMore` in its two halves, the replies, `Close`. The
queries of `MCCollection` are finds with limits, prefetching and batch sizes,
tailing, and command cursors, for one or two goroutines. `ResultStream` is what
they promise: the documents once and in order, and an end without an error only
after the last.

`Writes` has `Bulk` with `Unordered`, its splitting by kind and into batches of
`BatchMax`, `writeOp` for servers with commands and for old ones, and the single
writes of `Collection`. An operation names the document it selects; the server
rejects some of them, fails the write concern, or its answer is lost. What it
promises is limited to where the code tells (`Telling`): without a safe mode no
error comes back, and neither does that of an update or a removal in a bulk at an
old server, since `writeOp` looks only at a list of errors that getLastError does
not have (`session.go:4391`); an ordered bulk then goes on after it. A batch of
an unordered insert whose message was lost has no such list either, and its error
is dropped (`BatchLost`, `session.go:4372`).
`Collection` runs a plan of `Writes` and iterates over what the server holds
then. A query is any combination of a batch size, a limit, a prefetch ratio and
what its callers do, also those that the iterator is not made for and does not
refuse. A history (`astray`) tells when one of them went wrong: a batch beyond
the limit came (`overrun`: `Batch` set after `Limit` may ask for more), a reply
was cut while the next batch was being requested (`cut`), `Close` came before the
first reply (`early`), or a getMore failed while another goroutine waited
(`unwoken`). Each property names the one it excuses and no other: for example
`LimitIsExact` excuses queries that were over-asked and cut replies, and
`ImplementsStream` stops at the first `overrun` or `cut` (`Regular`). A failing
query with a limit of 1 ends without its error (`HiddenError`). What the doc
comments say without these conditions is refuted (section 5).

### GridFS

The writer, the goroutines of `insertChunk`, the reader with the goroutine that
fetches the next chunk, and a remover. The bytes of a file are their positions.
A request fails, or it succeeds and its answer is lost. The id of a file may have
no BSON: `insertChunk` then counts a chunk and returns (`Miscounted`), and `Close`
waits for ever, which `CallsReturn` excuses and `CloseReturns` in section 5 is
about.

### Json

Bytes that no state tells apart are one symbol, and so is a word of the
language. `JsonScanner` has a state for every step function and operates on a
stack as `parseState`; `JsonDecoder` is driven by it as `decode.go` is;
`JsonGrammar` says recursively what a text means. `Json` is the `Decoder` of a
stream: its buffer, its reader, which returns pieces of any size, and its calls.
The text is chosen while it is read, from an alphabet of a part of the language.
The decoder unescapes strings by its own rules (`Unescaped`, `unquoteBytes`), not
by the grammar's. Other texts are given whole to `checkValid`, `nextValue` and
`Compact`: every text over an alphabet is a state, valid or not, so that a scanner
that refuses too much is seen as well as one that takes too much. `Compact` keeps
the spaces between `MinKey` and its parentheses, which mean nothing.
The library is a copy that mongoreplay uses for little (`json.Marshal` of
statistics); it is here because the two machines in it must agree.

## 3. The runs

| Run | Shows |
|---|---|
| `pfr_pool` | every interleaving of reader, three workers and consumer over every file of up to five documents: file order, complete at io.EOF, nobody left on the file, the inductive invariant of the proofs, refinement of `OrderedFileRead`; and every pass ends and its goroutines return |
| `play_safety` | every recording of up to five ops on two connections with all faults, killCursors of two cursors, two generations: right cursors, no crash, cursors kept until their last use, Play returns last |
| `play_ends` | without faults of the environment, with and without preprocessing and repeating, playback always ends |
| `asm_order` | every capture of up to five packets of a four-byte stream, wrapping sequence numbers and RSTs included: in order, once, gaps announced, nothing lost that came in time, no page leaked |
| `opstream_record` | every cut of two flows with two messages: whole messages, also when packets are older than those delivered before them, sorted as far as the heap reaches, EOF after the ops of its connection that are not later than the last one read, streams counted right, and the recording ends also after a write error |
| `commands` | six captures given to filter, monitor and play with twenty-three settings, while reads and writes fail: ops are read as sent, filter keeps what was asked for where code and options agree, every op is once in the statistics and with its latency, the commands end, or filter hangs where it is known to |
| `txn_runners` | two runners on two transactions that cross, insert, remove and replace the same documents, one killed or set on the other's work anywhere: all effects once or none, no transaction lost |
| `topology_sync` | a cluster over a fail-over, two names of one server, a removed member, two sessions, a direct connection, tags nobody has: lists agree, nothing twice or on a stranger's word, all closed at the end, waiters woken |
| `pool_sockets` | sessions of different users on the same sockets, a server that is closed, a pool limit, logins and logouts of two users of a database, requests that cannot be serialized, copies and clones, changes of mode: references, the cache, the right credentials, no reply forgotten |
| `collection_driver` | thirteen ways to write, each followed by iterations of one or two goroutines, among them batches beyond the limit, a `Close` before the first reply, cut replies and a getMore that fails while another goroutine waits: writes tell the truth, cursors are released, the iteration implements `ResultStream` and ends |
| `gridfs_files` | a file written, aborted, read with Seek and removed, with failing requests, lost answers and an id without BSON: whole or not there, the right bytes, calls return |
| `json` | the decoder over every stream of sixteen small alphabets, read in pieces, with and without an error of the reader, against the grammar; and every text over twelve alphabets, given whole |

Bounds.

- Files and playback: five documents and three workers let the round robin wrap
  with a remainder; the proofs remove these bounds. Five ops hold a query, its
  reply, two uses on the other connection and an end; a queue of one op makes
  Play block; two connections are enough for one to wait for the other.
- Assembly and op stream: two-byte pages make a packet of three bytes take two
  pages, a limit of two is reached, and five packets allow a loss, a
  retransmission and an overlap in one capture. Sequence numbers of five bits
  keep the stream within a quarter of the number space, which `Difference`
  needs; from 8 the stream stays clear of the rollover, and from 29 its third
  byte is the first after it. A header of two bytes and messages of three let a cut fall into the
  header, right after it and at the end; a heap of two holds an op back; three
  calls and two connections let a port be reused.
- `commands`: channels of two fill up behind a writer or the recorder; two
  faults let the error of a second goroutine find the first one's taken.
- `txn_runners`: two transactions on two documents can wait for each other and
  for what the other one removes; one kill or one resumption puts two runners
  on one transaction. `Retries` is the code's.
- `topology_sync`: two addresses, of which one has two names; `MaxServers`
  objects are enough for every sync the faults allow, `Retries` bounds how often
  a session starts over.
- `pool_sockets`: two users of one database, one of another, and up to two faults; three sockets are one more
  than two sessions hold.
- `collection_driver`: batches of two split five documents in three; the ring
  begins with one place so that it grows, also while it is wrapped around.
- `gridfs_files`: chunk sizes of one to three and writes of one, two and five
  bytes fill no, one or several chunks, with a rest or none.
- `json`: alphabets of four to eight symbols and texts of up to seven symbols
  beyond their beginning; pieces of two symbols let every value be cut.

Runs that do not check for deadlock: `play_safety` (with the faults allowed there
a connection may wait for a cursor that never comes, see section 5),
`pool_sockets`, `txn_runners` and `topology_sync` (the sessions may have nothing
more to do once the bounds are reached), `json` (the calls are over, or a text is as long as it gets). In
`topology_sync` an action bounded that way can stop a session; that no waiter is
left is then a temporal property of its own. Symmetry (of connections, of
runners) is used only in `play_safety` and `txn_runners`, which have no temporal
property.

Fairness. Weak fairness of each goroutine: the Go scheduler runs what can run.
In `ParallelFileRead` it includes that a read of the file returns, in `Playback`
that the server answers or fails each request (an assumption on the server: the
tool sets no socket timeout, `play.go:99`), in `OpStream` that the flush goes
through all streams, in `Collection` and `GridFS` that a request is answered or
its connection fails, in `Commands` that writes return. In `Topology` the loop,
the goroutines of a sync and the calls of sessions are fair, and the clock that
times a waiting session out; the 30 seconds after which a sync comes by itself
are not, so that a request alone has to bring one about. Nothing is assumed of
packets: that the capture stops is the premise of `RecordingEnds`.

## 4. The proofs

`ParallelFileReadProofs` proves, for every number of workers and every length of
the file (`NumWorkers \in Nat \ {0}`, `MaxDocs \in Nat`):

- `Invariance`: `IInv` is an invariant; `TypeCorrect`;
- `DeliveredInOrder`: the ops leave in file order;
- `EOFComplete`: io.EOF over a file whose read did not fail means that all ops
  are out;
- `EOFQuiet`: after io.EOF nobody of the pass touches the file;
- `Refinement`: the pool implements `OrderedFileRead`.

Order is not inductive. The consumer takes whatever comes from manager
`taken % NumWorkers`; that this is document `taken + 1` needs that no other
document of that manager is on its way. `IInv` says so through the tokens: a job
under way holds the token of its manager (`JobsInv`), documents that hold a
token are within `NumWorkers` of the last one that got one (`HoldsToken`), a
token in its channel means that the documents of its manager are taken
(`TokenInv`), and no document is in two places (`DistinctInv`). Two documents
less than `NumWorkers` apart with the same remainder are equal (`ModUnique` in
`ModLemmas`, `NextIsUnique`). For completeness, `CoverageInv` says that no
document between the last taken and the last that got a token is lost while the
workers were not stopped, and `ClosingInv` orders the ends of reader, workers
and channels. There is a lemma per action and the temporal theorems follow from
them.

`PlaybackProofs` proves, for every set of cursors, connections and recordings
(`CasesAssumption` says only that the sets and numbers are what they are meant
to be), any channel capacity of at least one and any number of generations:

- `ConsistentHolds`: the state is well formed, `failChan` is closed once in a
  single playback, and Play returns after every connection;
- `SentCursorsAreRightHolds`: a getMore or killCursors carries live cursors of
  the requests behind its recorded ones.

What a request carries was looked up in `info`, which was filled from a complete
pair, which came from two halves: `RightInv` says at each of these places that
the live cursor is of the request that created the recorded one. That failChan
is closed once needs that a request is executed once: `OnceInv` has the ops
ahead of, in and behind the channels in the order of the file, and a failed
cursor belongs to a request that is behind.

`CursorNotForgottenHolds` is about one pass, in which a cursor
that is created and used is not deleted before its last use. A place of the
recording where the cursor stands is ahead if its op is not dispatched, waits in
a channel or is being rewritten; `numUsesLeft` is at least the number of places
ahead (`CountInv`), every lookup takes one place away, and the map entry goes
with the last.

`TopologyProofs` proves, for every set of addresses, names and sessions, any
number of failures and of identities for servers:

- `ServersAreKeptHolds`: the masters are among the servers, no address is there
  twice (so that `addServer` does not panic), the references are those of the
  sessions and the loop, and all is closed at the end;
- `StrangersStayOutHolds`: whoever joins is a master, was listed by one, or the
  connection is direct.

A server that a goroutine of the sync holds, or that waits in `notYetAdded`, is
the only one of its address (`UniqueInv`): without it a second server could be
added between the check and `addServer`. `OpenInv` says that an open server is on
the list or in such hands, and `VouchedInv` follows a master's word from its
answer over the goroutine it starts to the addition.

`PoolProofs` proves, for every set of sockets and finite set of sessions, all
credentials and every scenario of limits, modes and failures:

- `NoForgottenWaiterHolds`: who waits for a reply that was not cut short is known
  to a socket that is alive;
- `BookkeepingHolds`: the parts of `SocketsAreKept` that are true in every
  scenario: types, references, the cache, a closed server, and no panic of
  `InitialAcquire` or `Release`.

References are counted by counting holders: the lemmas `HoldersChange` and
`RefsKeep` say what a step of one session does to the number of them. A socket
without references is parked in one place (`ParkInv`), one that logs in for the
first time is known to nobody else (`LoginInv`), and each request on the wire is
the only one of the goroutine that waits for it (`WireInv`). What is left of
`SocketsAreKept` is `NoPanic`. It does not hold in every scenario: a master that
steps down makes `setSocket` panic, and concurrent logins by MONGODB-CR make
`resetNonce` panic (section 5). `MCPool` has scenarios without these, and TLC
checks it there.

`GridFSProofs` proves, for every chunk size, any limit of pending insertions,
all sizes of writes and reads and any failures (`ScenariosAssumption`: sizes and
the limit are positive, a file is there at first or is written, not both):

- `FilesAreWholeHolds`: a document has all its chunks and its checksum, Close
  tells the truth, no chunk is left behind;
- `ReadsRightBytesHolds`: Read returns the bytes it was asked for.

An id without BSON is one of the scenarios: a write of such a file never
completes, and what is pending then is more than what goroutines hold
(`Counted`).

Chunk `n` is to hold `Piece(n)`, and while nothing failed every chunk below
`w.chunk` is stored or in the hands of a goroutine (`Kept`), and checksum, buffer
and data at hand split the bytes written so far at the chunk's boundary
(`ShapeInv`, place by place of `Write` and `insertChunk`). So once nothing is
pending all is there (`AllIsThere`), and a document goes in only then. A reader
or a remover works on a file that no writer touches (`SettledInv`); its buffer
holds what lies between its offset and the end of the chunk before `r.chunk`,
and the cache, if filled, the chunk of its number (`ReaderOk`, `CacheInv`).
`OutcomeInv` relates what became of the document to what failed. The arithmetic
is in lemmas about runs of bytes (`BytesConcat`, `BytesSub`, `BytesTail`) and
about chunks (`AtFacts`, `CountOfChunks`, `ChunkOf`).

`CollectionProofs` proves, for any callers, capacity of the queue, plans of writes
and all queries (`QueriesAssumption` says what a query is, and that somebody reads
it):

- `IteratorImplementsStream`: the iterator implements `ResultStream`, so `Next`
  returns every document once and in order, to whoever calls it, and ends
  without an error only after the last one, or the last one of the limit, unless
  it was closed; until a batch beyond the limit came or a reply was cut while
  getMore was under way, and but for a failing query with a limit of 1;
- `CursorsKept`: no document is left in the queue when the limit is used up, so
  that `Next` does not panic, unless `Batch` was beyond the limit or a reply was
  cut while getMore was under way; types and counts hold until one of these
  happened; and for a `Batch` within the limit no cursor is left open when
  nothing failed and `Close` did not come before the first reply.

The invariant has three parts. `WriteInv` is about the writes. `IterInv` is what
holds of a regular iterator, and is lost with `overrun` and `cut`; so the
invariant has `Regular => IterInv`, and a step keeps it if the iterator is still
regular after it. `StrayInv` holds always, and is what makes the excuses narrow:
it says that an over-run needs a query that was over-asked or a reply that was
cut, and likewise for the panic. `early` and `unwoken` leave everything as it
was but the cursor and the waiter they are about, and stay inside of `IterInv`.

The number of documents to ask for is computed from counters of `iter`, the
documents from the ring, and what the server sent lies in between. `CountInv`
and `ContentInv` relate them: documents returned, in the ring, in the reply that
is read and in the next one are a prefix of the result, one after the other, and
`docsToReceive` is what is left of the first plus one for a request. That works
because there is one request at most (`OneRequest`): `docsBeforeMore` goes
through 0 once in a batch (`FetchInv`), and a `Next` that has to wait asks only
when nothing is to come. `LimitInv` has that what is asked for never exceeds
what the limit leaves, `EndInv` that a cursor number of 0 was told by the server
at the end, `FailInv` follows the one document of a query that fails, and
`ReleaseInv` an open cursor to whoever will kill it. The ring is proved a queue
once (`PushFacts`, `PopFacts`, `ExpandFacts`), and `FirstBatch`, which is
recursive, has its facts from `Iterated`. The mapping is the one of `Cursor`
(`Stream`); there is a lemma for the steps of each kind, and `PositionFacts`
says that `ResultStream` finds the document returned last where the iterator has
it.

And about the writes:

- `WritesTruthful`: nothing is carried out twice; an ordered bulk is carried out
  in the order in which it was queued up, without gaps, to the first failure; a
  nil error of `Run` means that everything was done; an unordered bulk reports
  exactly what was not done; what a single operation returns is true;
- `InsertedIsRead`: what was inserted and not removed again is among the
  documents that an iteration without a limit returns if it ends by itself and
  no reply was cut while getMore was under way.

An operation goes from the calls into an action, from there into a message, and
is then done, or reported, or dropped where the code does not tell. `BulkInv` follows
it: by `Sorted` every operation queued up is at one place of one action of its
kind; `SentOps` are those up to `at` and `from`, where `Run` has come to, and by
`DoneInv` what was done is among them, all of it while no error was met, and in an
unordered bulk exactly those that were not are in `errs` and `acc`. In an ordered
bulk the actions are the queue cut into pieces (`Starts`), so that `applied` is a
prefix as long as the pieces sent (`OrderInv`); `PlaceInv` has what is empty where.
A message is carried out operation by operation; `Progress` is the invariant of
that recursion (`CarriedSteps` unfolds it, `SetInduction` goes along it) and
`OutcomeOk` what every answer, or its loss, leaves of it. `TellInv` is about the
single operations. That the operations of a bulk differ from each other is an
assumption on `Plans`, where it names them: the model tells operations apart by
their content. `ReadInv` adds to that what the collection holds (`Kept`), that all
of it is stored when reading begins (`InOrderHas`), and goes along the steps of
`ResultStream`, not those of the iterator.

`TxnProofs` proves, for every finite set of transactions, any documents, runners
and workload, any number of runners killed or set on the work of others, and any
`Retries`:

- `Aborted`: a transaction that is aborting or aborted has changed no document;
- `Agreement`: the record of a transaction only goes forward, through states it
  never comes back to, and ends as applied or as aborted; its nonce, once it is
  prepared, and its revisions, once it is applied, are the same for all runners;
- `TypeCorrect`: records, queues, stashes and outcomes are well formed.

A runner works on a copy of the record that it read or wrote some time ago, and
decides by it; others may have gone on, aborted or applied in between. `IInv`
says what a copy is worth (`Backed`): the record in the database has all that
was agreed on in the copy (`Extends`), so a copy that says applying is true for
ever, one that says prepared has the right nonce, and one that says preparing
says nothing. All copies are covered: those in the calls of `advance` on each
runner's stack, those in `seen`, and through their tokens those that queues and
marks lead to (`TokensOk`). `AdvanceOk` says for each place in the code of
`prepare`, `rescan`, `assert`, `abortOrReload` and `apply` which state its copy
is in: a place that writes a document has a copy that says applying. With the
guards of the updates of the record (`s: preparing`, `s: prepared`) this gives
`LogOk`, that whatever was written was written for a transaction that is
applying or applied, from which no update leads to aborting. The lengths of the
lists of revisions and the indices into operations are part of it too, so that
the code's slices are not indexed out of range. A stack has one call of `run` at
the bottom (`StackOk`) and its steps are put, replaced and returned from by
`SetTopKeeps`, `CallKeeps` and `ReturnKeeps`, which all actions use; the lemmas
`TxnWrite`, `DocWrite` and `StashWrite` do the same for the database.

Each of these modules has a lemma per action, and `InvariantHolds`
(`Invariant`, `Invariance`) for its `IInv`; the other theorems follow from that. Before it was proved, each `IInv`
was checked by TLC in the run of its module.

Only model-checked:

- liveness (the prover does not handle fairness);
- everything about JSON, and the pieces of messages in `WireOps` and `Commands`:
  what a recursive definition computes for every input needs induction over
  data. Where a definition is recursive over a set or a number and only a fact
  about its values is needed, `ModLemmas` has an induction over sets
  (`SetInduction`, from a minimal element) and one over functions that are
  iterated (`Iterates`, `Iterated`);
- of `Txn`, that a write happens once, that an applied transaction is complete
  (`AppliedExactly`) and that no transaction is lost (`NothingLost`). The first
  two rest on the revisions and queues that keep other transactions off a
  document between `assert` and the last write of `apply`, on every interleaving
  of two slow runners; the third depends on how often a rescan is repeated
  (`Retries`).
  `TypeOK`, the other half of `Consistent`, is proved;
- `Assembler` and `OpStream`;
- `RunsAsSession` and `NoPanic` of `Pool`, which depend on what its scenarios
  do.

## 5. Seen while modelling

Behaviour of the code that disagrees with a comment, or that a reader would not
expect. The models have it; the properties of the runs say where they do not hold
because of it.

What a doc comment, a flag or a test says is written down in the modules as a
definition of its own where the model can tell. The following are refuted by TLC
when they are added to the .cfg of the module (as INVARIANT, or as PROPERTY where
marked *); they are in no run, which all pass.

| Definition | What is said | What the code does |
|---|---|---|
| `RolloverIsSafe` (Assembler) | `assembly.go:33`: "Difference defines an ordering for comparing TCP sequences that's safe for roll-overs" | line 46 unwraps by `uint32Max`, which is 2^32 - 1, while `Add` wraps by 2^32: a packet that overlaps delivered bytes across the rollover has a byte delivered twice |
| `SkipMeansGap` (Assembler) | `assembly.go:126`: "next returns a clean, ready-to-use page object"; 67: Skip is otherwise "the number of bytes skipped" | line 141 does not reset the `Skip` of a recycled page, so that it announces the gap of its last use and the op stream throws its message away |
| `LogoutsAreSent` (Pool) | `auth_test.go:617`: "Now verify that logouts are properly flushed if they are not revalidated after leaving the pool." | `Query` takes the flagged logouts off the socket (`socket.go:520`) and returns without sending them when a document has no BSON (573-576): the next request runs as the former user |
| `LogoutRemoves` * (Pool) | `session.go:777`: "Logout removes any established authentication credentials for the database." | the loop (788) removes the first credential and breaks; a second user of the database stays and is logged in again on the next socket |
| `LimitHolds` (Collection) | `session.go:2719`: "Once n documents have been returned by Next, the following call will return ErrNotFound." | a `Batch` set after `Limit` overwrites it; the server sends more and `Next` panics with "data remains after limit exhausted" (3511) |
| `ErrTells` (Collection) | `session.go:3388`: "Err returns nil if no errors happened during iteration, or the actual error otherwise." | with a limit of 1 the error of the query finds `iter.err` set to ErrNotFound (3513); so does that of a reply that is cut while getMore is under way, when the empty reply comes (4287): `Err` is nil and documents are missing |
| `CloseKills` (Collection) | `session.go:3404`: "Close kills the server cursor used by the iterator, if any" | before the first reply the cursor is 0 (3422-3430); the reply then sets it (4299) and nobody kills it |
| `NextReturns` * (Collection) | `session.go:3465`: "Next returns true if a document was successfully unmarshalled onto result, and false at the end of the result set or if an error happened." | getMore without a socket sets the error without a Broadcast and leaves `docsToReceive` up (3693): another goroutine in `Next` waits for ever |
| `CloseReturns` * (GridFS) | `gridfs.go:475`: "Close flushes any pending changes in case the file is being written to, waits for any background operations to finish, and closes the file." | `insertChunk` counts the chunk in `wpending` (606) and returns when its id has no BSON (613-616) without counting it down: `Close` waits for ever |
| `OnlyReads` (Commands) | `filter.go:29`: "Only include read/aggregate operations in the playback" | `IsReadOp` (`op.go:136-171`) takes an `OP_INSERT` for a read, no find by `OP_QUERY`, and knows getMore as `get_more` |
| `OnlyWrites` (Commands) | `filter.go:30`: "Only include Insert/Update/Delete operations in the playback" | `IsWriteOp` (`op.go:176`) knows neither `OP_UPDATE` nor `OP_DELETE` |
| `NoDriverOps` (Commands) | `filter.go:27`: "remove driver issued operations from the playback" | `IsDriverOp` (`op.go:103`) looks at no `OP_MSG` |
| `PairsAreOneLine` (Commands) | `monitor.go:24`: "Output only one line for a request/reply pair" | `GenerateOpStat` (`stat_collector.go:417`) has no case for a getMore in an `OP_MSG`, which is reported at once |
| `WriteErrorsAreTold` * (Commands) | `filter.go:145`: "errors encountered while running filter" | a writer sends its error on an unbuffered channel (165) that is read after `wg.Wait` (139), which waits for the writer: neither the error nor filter comes out |
| `OnlyUseNumberDoes` (Json) | `stream.go:34`: "UseNumber causes the Decoder to unmarshal a number into an interface{} as a Number instead of as a float64"; `boolean.go:44`: "Prevent d.convertNumber() from parsing the argument as a float64." | `getBoolean` (49) puts `useNumber` back only where the argument is a number: after `Boolean(true)` it stays set for the rest of the stream |

The rest, by part:

Playback files and play:

- a read error between the check of `err()` and the end of `next()` is lost: the
  pass ends like a complete one (`playbackfile.go:200`); a file cut right after
  the length of a document ends as a complete one (`util.go:90`);
- ops skipped for want of a socket are not marked failed; connections that wait
  for their cursors wait for ever (`execute.go:215`). With preprocessing, a live
  reply without a cursor, or half of a pair that expires, does the same;
- with `--repeat`, a query that fails in two generations closes `failChan` twice
  (`cursors.go:153`); uses of a cursor are counted for one pass, so that the
  second one finds cursors gone; the live cursor of the first may still be in
  the map and is used again, since `SetCursor` sets it once
  (`SentCursorsAreRight` asks only that it is of the right query);
- `trackReplied` keeps the connection of the last reply that carries a cursor,
  so a getMore there is dropped instead of waiting for the first;
- `MarkFailed` reads its map without the lock;
- `Play` returns at an op without a time and does not drain `opChan`
  (`play.go:157`), on which `OpChan` then blocks.

Capture:

- `bidi.close` deletes the map entries of both flows, also those of a newer
  connection on the same ports, whose two flows then get two numbers;
- an op has the time of the packet its header came in (`mongo_op_handler.go:288`),
  so that packets that were buffered give ops out of order, further than the heap
  can put right, and the EOF of the connection, a nanosecond after the last op
  read (319-332), may come before an op that is still in the heap.

Filter, monitor and ops:

- an op that cannot be parsed makes Filter return while `Execute` waits on
  `errChan` for ever;
- one file (`--split 1`) with `--gzip` loses the end of the compressed stream;
- `--readOpsOnly` and `--writeOpsOnly` drop the EOF marks;
- with `--paired` a request id
  used again forgets the first request; the result of `ValidateParams` is
  ignored (`monitor.go:98`); the terminal recorder leaves goroutines behind when
  its format has no `%q` or no `%r`;
- `CommandOp` takes a last input document that is cut short as one filled with
  zeros; `rawD[0]` panics on an empty document of `OP_MSG` (`msg_op.go:394`);
  `setCursorIDs` loses an error (`msg_op.go:276`); shortening an `OP_REPLY` of
  several documents can change what `getCursorID` finds; `CompressMessage` puts
  a length where the opcode belongs (`compress.go:88`; it is not used); `Parse`
  decompresses in place; `GetMoreOp.Execute` asserts a type before it looks at
  the error.

The driver:

- transactions: the race that the comment in `apply` names (a delayed insert
  after a removal, `flusher.go:834`); `ResumeAll` passes over transactions in
  state aborting (`txn.go:317`);
- cluster: a session that waits for tags nobody has never times out
  (`cluster.go:600`), although `session.go:1693` promises a timeout;
  `removeServer` goes by address, so an old handle closes a healthy server; a
  slow session and a closed server that every sync adds again can go on for
  ever; mode Secondary with tags only the master has returns the master;
- sockets: `setSocket` panics when the master steps down between choice and
  acquisition, twice (`session.go:4249`); a second login by MONGODB-CR while
  another one has its nonce panics with "resetNonce: nonce already cached",
  where the comment in `loginClassic` has it wait; a socket that died before it
  was appended to `liveSockets` stays there and counts against the pool limit
  (`server.go:112`); concurrent `Connect`s exceed that limit; a `Release` that
  races a `kill` puts a dead socket into the cache (`InitialAcquire` notices);
  `readLoop` forgets its `replyFunc` before it reads the body, so a reply that
  is cut is reported to nobody; `ExecOpWithReply` keeps its lock when the output
  document of a reply does not unmarshal;
- iterators: `replyFunc` dereferences a nil op when the connection dies (4270);
  after a kill that failed `Close` is not idempotent; `Pipe.One`, and `For` with
  an error, never close it;
- writes: an unordered insert of more than 1000 documents whose batches fail
  returns nil and nil (4372); the old form of bulk updates and removals swallows
  errors;
- GridFS: after an error of `Read` or `Seek` the chunk is already counted, so a
  retry skips it or slices out of range; `SetChunkSize` and `SetId` only check
  the mode where their docs speak of an error once writing has begun; a lost
  answer of `Files.Insert` leaves a document without chunks; `Abort`
  writes `err` without the lock.

Extended JSON: a constructor that fails leaves `useNumber` set;
`-ISODate(1)` and `//` pass `checkValid` and the decoder disagrees; `DecodeMap`
of something else than an object reports errPhase; `Timestamp("a",1)` and
`Date(true)` are runtime panics; `MinKey` at the end of a text is rejected where
`MinKey()` is accepted; `0x` and `1x1` are scanned and cannot be converted;
`Indent` breaks lines inside of regular expressions; an error of the reader is
lost when a value completes in the same read.

## 6. Not modelled, and the plan

Not modelled, inside of what is: options, logging, layout of reports, pcap,
gzip and deadlines throughout; sleeping until `PlayAt` (any delay is allowed
anyway). Txn: `ChangeLog`, `PurgeMissing`, `ResumeAll`, assertions about the
content of documents. Topology: the pinger. Pool: the statistics of sockets,
the contents of SASL conversations. Cursor and Writes: calls of one command each
(indexes, users, map-reduce). GridFS: an insertion delayed on another connection
until after `RemoveAll`. JSON: the encoder, decoding by reflection, `BinData`,
`ObjectId`, `DBPointer` and the constructor `RegExp`.

Not modelled at all: BSON (conversion by reflection, without state), test
servers, the rest of `legacy` (options, connection strings, passwords), and the
tools beside mongoreplay. The standalone scripts are sequential, and what they
are about is the server. `mongosync_insights` has hazards worth a project of
their own: a log store that expires under a request (`log_store_registry.py:81`),
a scan that overwrites a newer one (`index_build_destination_cache.py:88`). It
shares no code or state with mongoreplay.

What remains to be proved: `StreamsAreCounted` and the order of the heap of
`OpStream`; `PagesAreAhead` of `Assembler`; `AppliedExactly` of `Txn`, for which `TxnProofs` would need that the revision of
a document moves only through the transaction whose token is first in its queue;
`NoPanic` of `Pool` for scenarios without a change of role and without
MONGODB-CR, and `RunsAsSession`.
