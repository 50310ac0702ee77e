------------------------------- MODULE GridFS -------------------------------
(***************************************************************************)
(* GridFS of llmgo (gridfs.go): a file is split into chunks, which are     *)
(* inserted by goroutines of their own while it is written, and the next   *)
(* of which is fetched in the background while it is read.                 *)
(*                                                                         *)
(* There is one file.  One goroutine writes it, one reads it and one       *)
(* removes it; each step is what happens between two waits of a goroutine. *)
(* The bytes of the file are their own positions, 1, 2, ...                *)
(***************************************************************************)
EXTENDS Integers, Sequences, FiniteSets, FiniteSetsExt, SequencesExt

CONSTANT
    Scenarios   \* by name: the chunk size and how many may be pending, the
                \* sizes of the writes and reads, how much is there at first,
                \* whether the id that SetId gave the file has no BSON
                \* (bson.Marshal then fails for each of its documents),
                \* and, as bounds, how much is written, how many operations
                \* the reader does and how many requests fail

ASSUME ScenariosAssumption ==
    \A n \in DOMAIN Scenarios :
      LET c == Scenarios[n]
      IN  /\ c.chunkSize \in Nat \ {0} /\ c.maxPending \in Nat \ {0}
          /\ c.writes \subseteq Nat \ {0} /\ c.reads \subseteq Nat \ {0}
          /\ {c.total, c.length, c.ops, c.faults} \subseteq Nat
          /\ {c.aborts, c.removes, c.lost, c.badId} \subseteq BOOLEAN
          /\ c.total = 0 \/ c.length = 0

VARIABLES
    config,   \* the name of the scenario
    chunks,   \* the chunks collection: chunk number to bytes
    files,    \* the files collection: the documents of the file
    w,        \* the GridFile that is written
    inserts,  \* goroutines of insertChunk: chunk number to bytes
    r,        \* the GridFile that is read
    cache,    \* gfsCachedChunk, filled by a goroutine of getChunk
    remover,  \* where RemoveId is
    faults    \* the requests that failed, by kind

vars == <<config, chunks, files, w, inserts, r, cache, remover, faults>>
C == Scenarios[config]

Bytes(from, to) == [i \in 1..(IF to >= from THEN to - from + 1 ELSE 0) |-> from + i - 1]
Smaller(a, b) == IF a < b THEN a ELSE b
NoChunks == [n \in {} |-> <<>>]
Put(f, n, data) == [m \in DOMAIN f \union {n} |-> IF m = n THEN data ELSE f[m]]
NoCache == [n |-> -1, state |-> "none", data |-> <<>>]
ChunksOf(length, size) ==
    [n \in 0..((length + size - 1) \div size) - 1 |-> Bytes(n * size + 1, Smaller((n + 1) * size, length))]

(* A closed handle; Create and Open make one for writing or reading.       *)
Closed ==
    [mode |-> "closed", err |-> "nil", chunk |-> 0, offset |-> 0, wpending |-> 0, wbuf |-> <<>>,
     wsum |-> <<>>, rbuf |-> <<>>, length |-> 0, pc |-> "idle", wait |-> "no", data |-> <<>>, rest |-> <<>>,
     result |-> "none", ops |-> 0, want |-> 0, asked |-> 0, got |-> <<>>, from |-> 0]

Init ==
    /\ config \in DOMAIN Scenarios
    /\ chunks = ChunksOf(C.length, C.chunkSize)
    /\ files = IF C.length > 0 THEN {[length |-> C.length, md5 |-> Bytes(1, C.length)]} ELSE {}
    /\ w = Closed /\ r = Closed /\ inserts = NoChunks /\ cache = NoCache /\ remover = "idle"
    /\ faults = <<>>

(* A request to the server fails, or succeeds and its answer is lost.      *)
Fails(kind) == Len(faults) < C.faults /\ faults' = Append(faults, kind)
Loses(kind) == C.lost /\ Fails(kind)
Works == UNCHANGED faults

-----------------------------------------------------------------------------
(* Create, SetChunkSize.                                                   *)
Create ==
    /\ w.mode = "closed" /\ w.result = "none" /\ C.total > 0
    /\ w' = [w EXCEPT !.mode = "writing"]
    /\ UNCHANGED <<config, chunks, files, inserts, r, cache, remover, faults>>

(* insertChunk up to its wait: the chunk has its number and is part of the *)
(* checksum.  The continuation is in pc and rest.                          *)
BeginChunk(f, data, pc) ==
    [f EXCEPT !.chunk = @ + 1, !.wsum = @ \o data, !.data = data, !.pc = pc]

(* Write: a full buffer is flushed, then whole chunks of the data are, and *)
(* what remains is kept.                                                   *)
Write(k) ==
    /\ w.mode = "writing" /\ w.pc = "idle" /\ w.err = "nil" /\ w.length + k <= C.total
    /\ LET data == Bytes(w.length + 1, w.length + k)
           f == [w EXCEPT !.length = @ + k]
           missing == Smaller(C.chunkSize - Len(w.wbuf), k)
       IN  w' = IF Len(w.wbuf) + k < C.chunkSize THEN [f EXCEPT !.wbuf = @ \o data]
                ELSE IF Len(w.wbuf) > 0
                THEN BeginChunk([f EXCEPT !.rest = SubSeq(data, missing + 1, k)],
                                w.wbuf \o SubSeq(data, 1, missing), "flush")
                ELSE [f EXCEPT !.rest = data, !.pc = "split"]
    /\ UNCHANGED <<config, chunks, files, inserts, r, cache, remover, faults>>

Split ==
    /\ w.pc = "split"
    /\ LET size == C.chunkSize
       IN  w' = IF Len(w.rest) > size
                THEN BeginChunk([w EXCEPT !.rest = SubSeq(@, size + 1, Len(@))], SubSeq(w.rest, 1, size), "chunk")
                ELSE [w EXCEPT !.wbuf = @ \o w.rest, !.rest = <<>>, !.pc = "idle"]
    /\ UNCHANGED <<config, chunks, files, inserts, r, cache, remover, faults>>

(* The rest of insertChunk: it waits while too many are pending, and drops *)
(* the chunk when it is woken up after an insert failed.                   *)
InChunk == w.pc \in {"flush", "chunk", "last"}

AfterChunk(f) ==
    [f EXCEPT !.wbuf = IF f.pc = "chunk" THEN @ ELSE <<>>, !.data = <<>>, !.wait = "no",
              !.pc = IF @ = "last" THEN "complete" ELSE "split"]

insertWaits ==
    /\ InChunk /\ w.wpending >= C.maxPending
    /\ w.wait = "no" \/ (w.wait = "woken" /\ w.err = "nil")
    /\ w' = [w EXCEPT !.wait = "waiting"]
    /\ UNCHANGED <<config, chunks, files, inserts, r, cache, remover, faults>>

(* The chunk is marshalled after wpending went up: without BSON there is   *)
(* an error, and no goroutine that would count it down.                    *)
insertChunk ==
    /\ InChunk /\ w.wpending < C.maxPending
    /\ w.wait = "no" \/ (w.wait = "woken" /\ w.err = "nil")
    /\ \/ /\ ~C.badId
          /\ w' = AfterChunk([w EXCEPT !.wpending = @ + 1])
          /\ inserts' = Put(inserts, w.chunk - 1, w.data)
       \/ /\ C.badId
          /\ w' = AfterChunk([w EXCEPT !.wpending = @ + 1, !.err = "bson"])
          /\ UNCHANGED inserts
    /\ UNCHANGED <<config, chunks, files, r, cache, remover, faults>>

insertGivesUp ==
    /\ InChunk /\ w.wait = "woken" /\ w.err # "nil"
    /\ w' = AfterChunk(w)
    /\ UNCHANGED <<config, chunks, files, inserts, r, cache, remover, faults>>

(* The goroutine of one chunk.                                             *)
Inserted(n, stored, err) ==
    /\ chunks' = IF stored THEN Put(chunks, n, inserts[n]) ELSE chunks
    /\ inserts' = [m \in DOMAIN inserts \ {n} |-> inserts[m]]
    /\ w' = [w EXCEPT !.wpending = @ - 1, !.err = IF @ = "nil" THEN err ELSE @,
                      !.wait = IF @ = "waiting" THEN "woken" ELSE @]
    /\ UNCHANGED <<config, files, r, cache, remover>>

chunkStored(n) == n \in DOMAIN inserts /\ Inserted(n, TRUE, "nil") /\ Works
chunkFails(n) == n \in DOMAIN inserts /\ Inserted(n, FALSE, "net") /\ Fails("chunk")
chunkUnknown(n) == n \in DOMAIN inserts /\ Inserted(n, TRUE, "net") /\ Loses("chunk")

Abort ==
    /\ C.aborts /\ w.mode = "writing" /\ w.pc = "idle" /\ w.err # "aborted"
    /\ w' = [w EXCEPT !.err = "aborted"]
    /\ UNCHANGED <<config, chunks, files, inserts, r, cache, remover, faults>>

(* Close of a file that is written.                                        *)
CloseWriter ==
    /\ w.mode = "writing" /\ w.pc = "idle"
    /\ w' = IF w.wbuf # <<>> /\ w.err = "nil" THEN BeginChunk(w, w.wbuf, "last") ELSE [w EXCEPT !.pc = "complete"]
    /\ UNCHANGED <<config, chunks, files, inserts, r, cache, remover, faults>>

Document == [length |-> w.length, md5 |-> w.wsum]
Ended(f) == [f EXCEPT !.mode = "closed", !.pc = "idle", !.result = f.err]

(* Plausible bug: after an error nobody waits for the insertions under     *)
(* way.                                                                    *)
completeWriteAtOnce ==
    /\ w.pc = "complete" /\ (w.wpending = 0 \/ w.err # "nil")
    /\ \/ /\ w.err = "nil" /\ Works
          /\ files' = files \union {Document} /\ w' = Ended(w)
       \/ /\ w.err # "nil" /\ Works
          /\ w' = [w EXCEPT !.pc = "cleanup"] /\ UNCHANGED files
    /\ UNCHANGED <<config, chunks, inserts, r, cache, remover>>

(* completeWrite: once nothing is pending the file's document is inserted, *)
(* or else the chunks are removed.                                         *)
completeWrite ==
    /\ w.pc = "complete" /\ w.wpending = 0
    /\ \/ /\ w.err = "nil" /\ ~C.badId /\ Works
          /\ files' = files \union {Document} /\ w' = Ended(w)
       \/ /\ w.err = "nil" /\ ((C.badId /\ Works) \/ Fails("file"))
          /\ w' = [w EXCEPT !.err = "net", !.pc = "cleanup"] /\ UNCHANGED files
       \/ /\ w.err = "nil" /\ ~C.badId /\ Loses("document")
          /\ files' = files \union {Document}
          /\ w' = [w EXCEPT !.err = "net", !.pc = "cleanup"]
       \/ /\ w.err # "nil" /\ Works
          /\ w' = [w EXCEPT !.pc = "cleanup"] /\ UNCHANGED files
    /\ UNCHANGED <<config, chunks, inserts, r, cache, remover>>

cleanup ==
    /\ w.pc = "cleanup"
    /\ w' = Ended(w)
    /\ \/ chunks' = NoChunks /\ Works
       \/ UNCHANGED chunks /\ Fails("cleanup")
    /\ UNCHANGED <<config, files, inserts, r, cache, remover>>

-----------------------------------------------------------------------------
(* Open, OpenId and OpenNext.                                              *)
Open ==
    /\ r.mode = "closed" /\ r.result = "none" /\ C.ops > 0
    /\ \E d \in files : r' = [r EXCEPT !.mode = "reading", !.length = d.length]
    /\ UNCHANGED <<config, chunks, files, w, inserts, cache, remover, faults>>

(* The caller does so many operations and gives up after an error.         *)
CanUse == r.mode = "reading" /\ r.pc = "idle" /\ r.result # "failed" /\ r.ops < C.ops

(* One turn of the loop in Read: copy what there is, stop or go on.        *)
Copy(f) ==
    LET i == Smaller(f.want, Len(f.rbuf))
        g == [f EXCEPT !.got = @ \o SubSeq(f.rbuf, 1, i), !.offset = @ + i, !.want = @ - i,
                       !.rbuf = SubSeq(@, i + 1, Len(@))]
    IN  [g EXCEPT !.pc = IF g.want = 0 \/ g.offset = g.length THEN "idle" ELSE "read"]

Read(k) ==
    /\ CanUse
    /\ LET f == [r EXCEPT !.ops = @ + 1, !.want = k, !.asked = k, !.got = <<>>, !.from = r.offset]
       IN  r' = IF r.offset = r.length THEN [f EXCEPT !.result = "EOF"] ELSE [Copy(f) EXCEPT !.result = "read"]
    /\ UNCHANGED <<config, chunks, files, w, inserts, cache, remover, faults>>

Seek(offset) ==
    /\ CanUse
    /\ LET chunk == offset \div C.chunkSize
           f == [r EXCEPT !.ops = @ + 1, !.result = "seek"]
       IN  r' = IF offset > r.length THEN f
                ELSE IF offset = r.length THEN [f EXCEPT !.offset = offset]
                ELSE IF chunk + 1 = r.chunk /\ offset >= r.offset
                THEN [f EXCEPT !.offset = offset, !.rbuf = SubSeq(@, offset - r.offset + 1, Len(@))]
                ELSE [f EXCEPT !.offset = offset, !.chunk = chunk, !.rbuf = <<>>, !.pc = "seek"]
    /\ UNCHANGED <<config, chunks, files, w, inserts, cache, remover, faults>>

(* getChunk: from the cache once it is filled, or by a query; the chunk    *)
(* after it is then fetched in the background.                             *)
(* Plausible bug: Read does not stop at an error.                          *)
GotOrRetry(f, data, err) ==
    LET g == [f EXCEPT !.chunk = @ + 1, !.rbuf = data]
    IN  IF err THEN f
        ELSE IF f.pc = "seek"
        THEN [g EXCEPT !.rbuf = SubSeq(data, f.offset - f.chunk * C.chunkSize + 1, Len(data)), !.pc = "idle"]
        ELSE Copy(g)

Got(f, data, err) ==
    LET g == [f EXCEPT !.chunk = @ + 1, !.rbuf = data]
    IN  IF err THEN [g EXCEPT !.result = "failed", !.pc = "idle"]
        ELSE IF f.pc = "seek"
        THEN [g EXCEPT !.rbuf = SubSeq(data, f.offset - f.chunk * C.chunkSize + 1, Len(data)), !.pc = "idle"]
        ELSE Copy(g)

(* Plausible bug: what was cached is used without a look at its number.    *)
getChunkCached ==
    /\ r.pc \in {"read", "seek"} /\ Works
    /\ \/ cache.state = "filled" /\ r' = Got(r, cache.data, FALSE)
       \/ cache.state = "failed" /\ r' = Got(r, <<>>, TRUE)
       \/ cache.state = "none" /\ r.chunk \in DOMAIN chunks /\ r' = Got(r, chunks[r.chunk], FALSE)
       \/ cache.state = "none" /\ r.chunk \notin DOMAIN chunks /\ r' = Got(r, <<>>, TRUE)
    /\ cache' = IF (r.chunk + 1) * C.chunkSize < r.length
                THEN [n |-> r.chunk + 1, state |-> "pending", data |-> <<>>] ELSE NoCache
    /\ UNCHANGED <<config, chunks, files, w, inserts, remover>>

getChunk ==
    /\ r.pc \in {"read", "seek"}
    /\ \/ /\ cache.n = r.chunk /\ cache.state = "filled" /\ r' = Got(r, cache.data, FALSE) /\ Works
       \/ /\ cache.n = r.chunk /\ cache.state = "failed" /\ r' = Got(r, <<>>, TRUE) /\ Works
       \/ /\ cache.n # r.chunk /\ r.chunk \in DOMAIN chunks /\ r' = Got(r, chunks[r.chunk], FALSE) /\ Works
       \/ /\ cache.n # r.chunk /\ r.chunk \notin DOMAIN chunks /\ r' = Got(r, <<>>, TRUE) /\ Works
       \/ /\ cache.n # r.chunk /\ r' = Got(r, <<>>, TRUE) /\ Fails("read")
    /\ cache' = IF (r.chunk + 1) * C.chunkSize < r.length
                THEN [n |-> r.chunk + 1, state |-> "pending", data |-> <<>>] ELSE NoCache
    /\ UNCHANGED <<config, chunks, files, w, inserts, remover>>

cacheChunk ==
    /\ cache.state = "pending"
    /\ \/ /\ cache.n \in DOMAIN chunks /\ Works
          /\ cache' = [cache EXCEPT !.state = "filled", !.data = chunks[cache.n]]
       \/ /\ cache.n \notin DOMAIN chunks /\ Works
          /\ cache' = [cache EXCEPT !.state = "failed"]
       \/ Fails("read") /\ cache' = [cache EXCEPT !.state = "failed"]
    /\ UNCHANGED <<config, chunks, files, w, inserts, r, remover>>

(* Close of a file that is read waits for the cache.                       *)
CloseReader ==
    /\ r.mode = "reading" /\ r.pc = "idle" /\ cache.state # "pending"
    /\ r' = [r EXCEPT !.mode = "closed", !.result = "closed"] /\ cache' = NoCache
    /\ UNCHANGED <<config, chunks, files, w, inserts, remover, faults>>

-----------------------------------------------------------------------------
(* RemoveId, for each file that Remove finds: the document, then the       *)
(* chunks.                                                                 *)
RemoveId ==
    /\ C.removes /\ remover = "idle" /\ files # {}
    /\ \/ files' = {} /\ remover' = "chunks" /\ Works
       \/ UNCHANGED files /\ remover' = "done" /\ Fails("remove")
       \/ files' = {} /\ remover' = "done" /\ Loses("remove")
    /\ UNCHANGED <<config, chunks, w, inserts, r, cache>>

RemoveChunks ==
    /\ remover = "chunks" /\ remover' = "done"
    /\ \/ chunks' = NoChunks /\ Works
       \/ UNCHANGED chunks /\ Fails("cleanup")
    /\ UNCHANGED <<config, files, w, inserts, r, cache>>

-----------------------------------------------------------------------------
Writer == Split \/ insertWaits \/ insertChunk \/ insertGivesUp \/ completeWrite \/ cleanup
Inserter(n) == chunkStored(n) \/ chunkFails(n) \/ chunkUnknown(n)
Numbers == 0..C.total

(* The callers: they write, read and remove as they like, but always close *)
(* what they opened.                                                       *)
Callers ==
    \/ Create \/ Abort \/ CloseWriter \/ Open \/ CloseReader \/ RemoveId
    \/ \E k \in C.writes : Write(k)
    \/ \E k \in C.reads : Read(k)
    \/ \E offset \in 0..(r.length + 1) : Seek(offset)

AllClosed ==
    /\ w.mode = "closed" /\ r.mode = "closed" /\ inserts = NoChunks /\ remover # "chunks"

(* A chunk without BSON was counted and will not be counted down.          *)
Miscounted == C.badId /\ w.wpending > 0

Done == (AllClosed \/ (Miscounted /\ r.mode = "closed")) /\ UNCHANGED vars

Next ==
    \/ Callers \/ Writer \/ (\E n \in Numbers : Inserter(n)) \/ getChunk \/ cacheChunk \/ RemoveChunks
    \/ Done

(* Go runs every goroutine that can run, and the server answers.           *)
Fairness ==
    /\ WF_vars(Writer) /\ WF_vars(\E n \in Numbers : Inserter(n)) /\ WF_vars(getChunk) /\ WF_vars(cacheChunk)

Spec == Init /\ [][Next]_vars /\ Fairness

-----------------------------------------------------------------------------
Happened(kind) == \E i \in DOMAIN faults : faults[i] = kind

(* The state is well formed, and wpending counts the inserting goroutines, *)
(* or, with an id that has no BSON, chunks that nobody inserts.            *)
TypeOK ==
    /\ config \in DOMAIN Scenarios
    /\ DOMAIN chunks \subseteq Nat /\ DOMAIN inserts \subseteq 0..(w.chunk - 1)
    /\ IF C.badId THEN inserts = NoChunks ELSE w.wpending = Cardinality(DOMAIN inserts)
    /\ w.pc \in {"idle", "flush", "chunk", "last", "split", "complete", "cleanup"}
    /\ w.wait \in {"no", "waiting", "woken"} /\ Len(w.wbuf) <= C.chunkSize
    /\ r.pc \in {"idle", "read", "seek"} /\ r.offset \in 0..r.length
    /\ cache.state \in {"none", "pending", "filled", "failed"}
    /\ remover \in {"idle", "chunks", "done"} /\ Len(faults) <= C.faults

(* Whoever finds the document of a file finds all of it: every chunk is    *)
(* there, whole and under its number, and the checksum is that of the      *)
(* bytes in their order.  (Unless the answer to the insertion of the       *)
(* document was lost: completeWrite then removes the chunks of a file that *)
(* is there.)  Write splits, goroutines insert in any order.               *)
FileIsComplete ==
    ~Happened("document") =>
      \A d \in files : /\ chunks = ChunksOf(d.length, C.chunkSize)
                        /\ d.md5 = Bytes(1, d.length)

(* Close of a writer reports what happened: no error, and the file is      *)
(* there until somebody removes it; an error, and there is none.  An       *)
(* insertion that failed in the background is not forgotten.               *)
CloseTellsTheTruth ==
    w.mode = "closed" /\ w.result # "none" /\ remover = "idle" /\ ~Happened("document") =>
      IF w.result = "nil" THEN files = {Document} ELSE files = {}

(* Chunks without a document are not left behind by a write that failed or *)
(* was aborted, nor by RemoveId, unless the request that removes them      *)
(* failed: no insertion is still under way when completeWrite removes what *)
(* was written.                                                            *)
NoOrphans ==
    AllClosed /\ files = {} /\ ~Happened("cleanup") /\ ~Happened("remove") => chunks = NoChunks

(* Read returns the bytes from the offset where it began, in order, none   *)
(* skipped and none twice, whatever was sought and cached before; without  *)
(* an error it fills the buffer or reaches the end of the file.            *)
ReadsRightBytes ==
    r.mode = "reading" /\ r.pc = "idle" /\ r.result \in {"read", "failed"} =>
      /\ r.got = Bytes(r.from + 1, r.from + Len(r.got))
      /\ r.result = "read" => Len(r.got) = Smaller(r.asked, r.length - r.from)

(* Every Write, Close, Read and Seek returns: a writer that waits for room *)
(* or for the last insertion is woken, and the loop of Read ends.  (The    *)
(* writer of a file whose id has no BSON is exempt once it has counted a   *)
(* chunk that nobody inserts; CloseReturns is about it.)                   *)
CallsReturn ==
    /\ w.pc # "idle" ~> w.pc = "idle" \/ Miscounted
    /\ r.pc # "idle" ~> r.pc = "idle"

(* Close "flushes any pending changes in case the file is being written    *)
(* to, waits for any background operations to finish, and closes the       *)
(* file" (gridfs.go:475-477).  It does not with an id without BSON: the    *)
(* marshalling of a chunk fails after wpending went up, and Close waits    *)
(* for an insertion that never began.                                      *)
CloseReturns == w.pc \in {"last", "complete", "cleanup"} ~> w.mode = "closed"

(* A file is there with all of its chunks or not at all, and Close says    *)
(* which; no chunk is left without a file.                                 *)
FilesAreWhole == TypeOK /\ FileIsComplete /\ CloseTellsTheTruth /\ NoOrphans
=============================================================================
