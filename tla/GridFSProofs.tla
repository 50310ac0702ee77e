---------------------------- MODULE GridFSProofs ----------------------------
(***************************************************************************)
(* Proofs about GridFS for every chunk size, every number of pending       *)
(* insertions, any sizes of writes and reads and any failures: a file is   *)
(* there with all of its chunks or not at all, Close says which, nothing   *)
(* is left behind, and Read returns the bytes it was asked for.            *)
(***************************************************************************)
EXTENDS GridFS, ModLemmas, FiniteSetTheorems, SequenceTheorems

-----------------------------------------------------------------------------
(* The inductive invariant.                                                *)

Size == C.chunkSize
At(n) == n * Size                          \* where chunk n begins
Total == IF C.length > 0 THEN C.length ELSE w.length
Piece(n) == Bytes(At(n) + 1, Smaller(At(n + 1), Total))
TheDocument == [length |-> Total, md5 |-> Bytes(1, Total)]

WErrs == {"nil", "net", "aborted", "bson"}
WPcs == {"idle", "flush", "chunk", "last", "split", "complete", "cleanup"}
Writers ==
    [mode : {"closed", "writing"}, err : WErrs, chunk : Nat, offset : Nat, wpending : Nat, wbuf : Seq(Nat),
     wsum : Seq(Nat), rbuf : Seq(Nat), length : Nat, pc : WPcs, wait : {"no", "waiting", "woken"},
     data : Seq(Nat), rest : Seq(Nat), result : WErrs \cup {"none"}, ops : Nat, want : Nat, asked : Nat,
     got : Seq(Nat), from : Nat]
Readers ==
    [mode : {"closed", "reading"}, err : WErrs, chunk : Nat, offset : Nat, wpending : Nat, wbuf : Seq(Nat),
     wsum : Seq(Nat), rbuf : Seq(Nat), length : Nat, pc : {"idle", "read", "seek"}, wait : {"no"},
     data : Seq(Nat), rest : Seq(Nat), result : {"none", "EOF", "read", "seek", "failed", "closed"},
     ops : Nat, want : Nat, asked : Nat, got : Seq(Nat), from : Nat]
Caches == [n : Int, state : {"none", "pending", "filled", "failed"}, data : Seq(Nat)]
IsStore(f) ==
    /\ f = [n \in DOMAIN f |-> f[n]] /\ DOMAIN f \subseteq Nat
    /\ \A n \in DOMAIN f : f[n] \in Seq(Nat)
Kinds == {"chunk", "file", "document", "cleanup", "read", "remove"}

TypeInv ==
    /\ config \in DOMAIN Scenarios
    /\ IsStore(chunks) /\ IsStore(inserts)
    /\ files \subseteq {TheDocument}
    /\ w \in Writers /\ r \in Readers /\ cache \in Caches
    /\ remover \in {"idle", "chunks", "done"}
    /\ faults \in Seq(Kinds) /\ Len(faults) <= C.faults

(* What wpending counts; with an id without BSON nothing is ever inserted. *)
Counted == IF C.badId THEN DOMAIN inserts = {} ELSE w.wpending = Cardinality(DOMAIN inserts)

(* The writer's bookkeeping, also after an error.                          *)
BookInv ==
    /\ Len(w.wbuf) <= Size /\ (w.pc \in {"chunk", "split"} => w.wbuf = <<>>)
    /\ IsFiniteSet(DOMAIN inserts) /\ Counted
    /\ DOMAIN inserts \subseteq 0..(w.chunk - 1)
    /\ (InChunk => w.chunk > 0 /\ (w.chunk - 1) \notin DOMAIN inserts)
    /\ (w.mode = "closed" => w.pc = "idle")
    /\ (w.mode = "closed" \/ w.pc = "cleanup" => DOMAIN inserts = {})
    /\ (w.mode = "closed" /\ w.result = "none" => w = Closed)
    /\ (w.mode = "writing" => w.result = "none")
    /\ (w.mode = "writing" \/ w.result # "none" => C.length = 0)
    /\ (w.pc = "cleanup" => w.err # "nil")

(* What was given to insertChunk is there or on its way, chunk by chunk.   *)
Kept(n) ==
    /\ DOMAIN chunks \cup DOMAIN inserts = 0..(n - 1)
    /\ \A m \in DOMAIN chunks : chunks[m] = Piece(m)
    /\ \A m \in DOMAIN inserts : inserts[m] = Piece(m)

(* Where the bytes written so far are, while nothing failed.               *)
ShapeInv ==
    w.mode = "writing" /\ w.err = "nil" =>
      /\ (w.pc \in {"idle", "split", "complete"} => Kept(w.chunk))
      /\ (InChunk => Kept(w.chunk - 1))
      /\ (w.pc \in {"idle", "split", "flush", "chunk"} =>
            w.wsum = Bytes(1, At(w.chunk)) /\ At(w.chunk) <= w.length)
      /\ (w.pc = "idle" => w.wbuf = Bytes(At(w.chunk) + 1, w.length))
      /\ (w.pc \in {"split", "flush", "chunk"} => w.rest = Bytes(At(w.chunk) + 1, w.length))
      /\ (w.pc \in {"flush", "chunk"} => w.data = Bytes(At(w.chunk - 1) + 1, At(w.chunk)))
      /\ (w.pc = "last" => w.data = Bytes(At(w.chunk - 1) + 1, w.length))
      /\ (w.pc \in {"last", "complete"} =>
            /\ w.wsum = Bytes(1, w.length) /\ w.length <= At(w.chunk)
            /\ (w.chunk = 0 \/ At(w.chunk - 1) < w.length))

(* The file is written: nothing but a removal touches it any more.         *)
Settled ==
    /\ w.mode = "closed" \/ w.pc = "cleanup"
    /\ (w.mode = "closed" /\ w.result = "none" => C.length > 0)
    /\ \A n \in DOMAIN chunks : chunks[n] = Piece(n)

SettledInv ==
    files # {} \/ r.mode = "reading" \/ cache.state # "none" \/ remover # "idle" => Settled

(* What became of the file.                                                *)
OutcomeInv ==
    /\ (~Happened("document") /\ files # {} =>
          /\ chunks = ChunksOf(Total, Size)
          /\ w.mode = "closed" /\ (C.length > 0 \/ w.result = "nil"))
    /\ (w.mode = "closed" /\ w.result = "nil" => Document = TheDocument)
    /\ (w.mode = "closed" /\ w.result = "nil" /\ remover = "idle" => files = {TheDocument})
    /\ (w.mode = "closed" /\ w.result = "none" /\ C.length = 0 => chunks = NoChunks)
    /\ (remover = "chunks" => files = {})
    /\ (files = {} /\ ~Happened("cleanup") /\ ~Happened("remove") =>
          chunks = NoChunks \/ remover = "chunks" \/ w.mode = "writing")

(* What the reader has read, and what it holds ready.                      *)
ReaderOk(f) ==
    /\ f.offset <= f.length
    /\ f.got = Bytes(f.from + 1, f.from + Len(f.got))
    /\ (f.mode = "closed" => f.pc = "idle" /\ f.result \in {"none", "closed"})
    /\ (f.mode = "closed" /\ f.result = "none" => f = Closed)
    /\ (f.mode = "reading" => f.length = Total)
    /\ (f.pc = "read" => f.result = "read") /\ (f.pc = "seek" => f.result = "seek")
    /\ (f.mode = "reading" /\ f.result # "failed" =>
          /\ (f.pc = "idle" /\ f.offset < f.length =>
                f.rbuf = Bytes(f.offset + 1, Smaller(At(f.chunk), f.length)) /\ f.offset <= At(f.chunk))
          /\ (f.pc = "read" => f.offset < f.length /\ f.offset = At(f.chunk) /\ f.want > 0)
          /\ (f.pc = "seek" => f.offset < f.length /\ At(f.chunk) <= f.offset /\ f.offset < At(f.chunk + 1))
          /\ (f.result = "read" =>
                /\ f.from <= f.offset /\ f.got = Bytes(f.from + 1, f.offset)
                /\ f.want + (f.offset - f.from) = f.asked
                /\ (f.pc = "idle" => f.want = 0 \/ f.offset = f.length)))

ReaderInv == ReaderOk(r)

CacheInv == cache.state = "filled" => cache.n \in Nat /\ cache.data = Piece(cache.n)

IInv == TypeInv /\ BookInv /\ ShapeInv /\ SettledInv /\ OutcomeInv /\ ReaderInv /\ CacheInv

-----------------------------------------------------------------------------
(* Bytes, and where chunks begin.                                          *)

(* Bytes(a, b) is a sequence of numbers of which the i-th is a + i - 1.    *)
LEMMA BytesFacts ==
    ASSUME NEW a \in Nat, NEW b \in Nat
    PROVE  /\ Bytes(a, b) \in Seq(Nat)
           /\ Len(Bytes(a, b)) = IF b >= a THEN b - a + 1 ELSE 0
           /\ \A i \in 1..Len(Bytes(a, b)) : Bytes(a, b)[i] = a + i - 1
           /\ (b < a => Bytes(a, b) = <<>>)
  <1> DEFINE n == IF b >= a THEN b - a + 1 ELSE 0
             f(i) == a + i - 1
             s == [i \in 1..n |-> f(i)]
  <1>1. n \in Nat
    OBVIOUS
  <1>2. \A i \in 1..n : f(i) \in Nat
    BY <1>1
  <1>3. s \in Seq(Nat) /\ Len(s) = n /\ DOMAIN s = 1..n
    <2> HIDE DEF n, f
    <2>1. s \in [1..n -> Nat]
      BY <1>2
    <2> QED BY <1>1, <2>1
  <1>4. Bytes(a, b) = s
    BY DEF Bytes
  <1>5. b < a => n = 0
    OBVIOUS
  <1>6. \A i \in 1..n : s[i] = f(i)
    OBVIOUS
  <1>7. b < a => s = <<>>
    <2> HIDE DEF n, f, s
    <2> QED BY <1>3, <1>5
  <1> QED BY <1>3, <1>4, <1>6, <1>7 DEF n

(* Two sequences with the same elements are the same.                      *)
LEMMA SameBytes ==
    ASSUME NEW s \in Seq(Nat), NEW a \in Nat, NEW b \in Nat,
           Len(s) = Len(Bytes(a, b)), \A i \in 1..Len(s) : s[i] = a + i - 1
    PROVE  s = Bytes(a, b)
  BY BytesFacts, SeqEqual

(* What follows on a run of bytes makes a longer one.                      *)
Follows(a, b, c, d) == {a, b, c, d} \subseteq Nat /\ d = b + 1 /\ a <= d /\ b <= c

(* Two runs of bytes one after the other are one.                          *)
LEMMA BytesConcat == \A a, b, c, d : Follows(a, b, c, d) => Bytes(a, b) \o Bytes(d, c) = Bytes(a, c)
  <1> SUFFICES ASSUME NEW a, NEW b, NEW c, NEW d, Follows(a, b, c, d)
               PROVE  Bytes(a, b) \o Bytes(d, c) = Bytes(a, c)
    OBVIOUS
  <1>a. a \in Nat /\ b \in Nat /\ c \in Nat /\ d \in Nat /\ d = b + 1 /\ a <= d /\ b <= c
    BY DEF Follows
  <1> DEFINE p == Bytes(a, b)
             q == Bytes(d, c)
             s == p \o q
  <1>1. /\ p \in Seq(Nat) /\ Len(p) = IF b >= a THEN b - a + 1 ELSE 0
        /\ \A i \in 1..Len(p) : p[i] = a + i - 1
    BY <1>a, BytesFacts, Zenon
  <1>2. /\ q \in Seq(Nat) /\ Len(q) = IF c >= d THEN c - d + 1 ELSE 0
        /\ \A i \in 1..Len(q) : q[i] = d + i - 1
    BY <1>a, BytesFacts, Zenon
  <1>3. Len(Bytes(a, c)) = IF c >= a THEN c - a + 1 ELSE 0
    BY <1>a, BytesFacts, Zenon
  <1> HIDE DEF p, q
  <1>4. Len(p) = b - a + 1 /\ Len(q) = c - b /\ Len(Bytes(a, c)) = Len(p) + Len(q)
    BY <1>a, <1>1, <1>2, <1>3
  <1>5. s \in Seq(Nat) /\ Len(s) = Len(p) + Len(q)
    BY <1>1, <1>2, ConcatProperties
  <1>6. ASSUME NEW i \in 1..Len(s) PROVE s[i] = a + i - 1
    <2>1. s[i] = IF i <= Len(p) THEN p[i] ELSE q[i - Len(p)]
      BY <1>1, <1>2, <1>5, ConcatProperties
    <2>2. CASE i <= Len(p)
      BY <2>1, <2>2, <1>1
    <2>3. CASE ~(i <= Len(p))
      <3>1. i - Len(p) \in 1..Len(q) /\ Len(p) \in Nat
        BY <2>3, <1>1, <1>2, <1>5
      <3>2. q[i - Len(p)] = d + (i - Len(p)) - 1
        BY <3>1, <1>2
      <3> QED BY <3>1, <3>2, <2>1, <2>3, <1>a, <1>4
    <2> QED BY <2>2, <2>3
  <1>7. s = Bytes(a, c)
    <2> HIDE DEF s
    <2>1. Len(s) = Len(Bytes(a, c))
      BY <1>4, <1>5
    <2> QED BY <2>1, <1>5, <1>6, <1>a, SameBytes
  <1> QED BY <1>7 DEF p, q

(* A part of a run of bytes is a run of bytes.                             *)
IsPart(a, b, m, n, e, f) ==
    /\ {a, m} \subseteq Nat \ {0} /\ {b, n} \subseteq Nat /\ n <= Len(Bytes(a, b))
    /\ e = a + m - 1 /\ f = a + n - 1

(* SubSeq takes a run out of a run.                                        *)
LEMMA BytesSub ==
    \A a, b, m, n, e, f : IsPart(a, b, m, n, e, f) => SubSeq(Bytes(a, b), m, n) = Bytes(e, f)
  <1> SUFFICES ASSUME NEW a, NEW b, NEW m, NEW n, NEW e, NEW f, IsPart(a, b, m, n, e, f)
               PROVE  SubSeq(Bytes(a, b), m, n) = Bytes(e, f)
    OBVIOUS
  <1>a. /\ a \in Nat \ {0} /\ b \in Nat /\ m \in Nat \ {0} /\ n \in Nat
        /\ n <= Len(Bytes(a, b)) /\ e = a + m - 1 /\ f = a + n - 1
    BY DEF IsPart
  <1> DEFINE p == Bytes(a, b)
             s == SubSeq(p, m, n)
  <1>1. p \in Seq(Nat) /\ Len(p) \in Nat /\ n <= Len(p) /\ \A i \in 1..Len(p) : p[i] = a + i - 1
    <2>1. p \in Seq(Nat) /\ \A i \in 1..Len(p) : p[i] = a + i - 1
      BY <1>a, BytesFacts
    <2>2. Len(p) \in Nat
      BY <2>1, LenProperties
    <2> QED BY <2>1, <2>2, <1>a
  <1>2. e \in Nat /\ f \in Nat /\ e = a + m - 1 /\ f = a + n - 1
    BY <1>a
  <1> HIDE DEF p
  <1>3. Len(Bytes(e, f)) = IF f >= e THEN f - e + 1 ELSE 0
    BY <1>2, BytesFacts
  <1>4. s \in Seq(Nat) /\ Len(s) = (IF m <= n THEN n - m + 1 ELSE 0)
    <2>1. \A i \in m..n : i \in 1..Len(p)
      BY <1>1, <1>a
    <2>2. m \in 1..(Len(p) + 1) \/ n < m
      BY <1>1, <1>a
    <2> QED BY SMTT(40), <1>1, <1>a, <2>1, <2>2, SubSeqProperties
  <1>5. \A i \in 1..Len(s) : s[i] = p[m + i - 1] /\ m + i - 1 \in 1..Len(p)
    BY <1>1, <1>a, <1>4, SubSeqProperties
  <1>6. \A i \in 1..Len(s) : s[i] = e + i - 1
    BY <1>1, <1>a, <1>2, <1>5
  <1>7. s = Bytes(e, f)
    <2> HIDE DEF s
    <2>1. Len(s) = Len(Bytes(e, f))
      BY <1>a, <1>2, <1>3, <1>4
    <2> QED BY <2>1, <1>2, <1>4, <1>6, SameBytes
  <1> QED BY <1>7 DEF p

(* What is assumed about the scenario of a run.                            *)
LEMMA ScenarioFacts ==
    ASSUME config \in DOMAIN Scenarios
    PROVE  /\ Size \in Nat \ {0} /\ C.chunkSize = Size
           /\ C.maxPending \in Nat \ {0}
           /\ \A k \in C.writes : k \in Nat \ {0}
           /\ \A k \in C.reads : k \in Nat \ {0}
           /\ C.total \in Nat /\ C.length \in Nat /\ C.ops \in Nat /\ C.faults \in Nat
           /\ (C.total = 0 \/ C.length = 0)
  BY ScenariosAssumption DEF C, Size

(* Multiples of the size of a chunk.                                       *)
LEMMA Multiples ==
    ASSUME NEW s \in Nat \ {0}, NEW n \in Nat
    PROVE  n * s \in Nat /\ (n + 1) * s = n * s + s /\ 0 * s = 0
  BY Z3

(* A larger number of chunks takes at least one chunk more.                *)
LEMMA MultiplesGrow ==
    ASSUME NEW s \in Nat \ {0}, NEW m \in Nat, NEW n \in Nat, m < n
    PROVE  m * s + s <= n * s
  <1>1. s * m + s <= s * n
    BY MulStep
  <1>2. m * s = s * m /\ n * s = s * n
    BY Z3
  <1> QED BY <1>1, <1>2

(* Chunks follow each other.                                               *)
LEMMA AtFacts ==
    ASSUME Size \in Nat \ {0}, NEW n \in Nat
    PROVE  /\ At(n) \in Nat /\ n + 1 \in Nat /\ At(n + 1) \in Nat
           /\ At(n + 1) = At(n) + Size /\ At(0) = 0
           /\ (n > 0 => n - 1 \in Nat /\ At(n - 1) \in Nat /\ At(n) = At(n - 1) + Size)
           /\ \A m \in Nat : m < n => At(m + 1) <= At(n)
  <1> DEFINE s == Size
  <1>0. s \in Nat \ {0} /\ s = Size
    OBVIOUS
  <1> HIDE DEF s
  <1>1. n * s \in Nat /\ (n + 1) * s = n * s + s /\ 0 * s = 0
    BY <1>0, Multiples
  <1>2. ASSUME n > 0 PROVE n - 1 \in Nat /\ (n - 1) * s \in Nat /\ n * s = (n - 1) * s + s
    <2> DEFINE m == n - 1
    <2>1. m \in Nat /\ m + 1 = n
      BY <1>2
    <2> HIDE DEF m
    <2>2. m * s \in Nat /\ (m + 1) * s = m * s + s
      BY <1>0, <2>1, Multiples
    <2> QED BY <2>1, <2>2 DEF m
  <1>3. ASSUME NEW m \in Nat, m < n PROVE (m + 1) * s <= n * s
    <2>1. (m + 1) * s = m * s + s
      BY <1>0, Multiples
    <2> QED BY <1>0, <1>3, <2>1, MultiplesGrow
  <1>4. \A k : At(k) = k * s
    BY <1>0 DEF At
  <1>5. n + 1 \in Nat
    OBVIOUS
  <1>6. n * s + s \in Nat
    BY <1>0, <1>1
  <1>7. At(n) \in Nat /\ At(n + 1) \in Nat /\ At(n + 1) = At(n) + Size /\ At(0) = 0
    <2>1. At(n) = n * s /\ At(n + 1) = (n + 1) * s /\ At(0) = 0 * s
      BY <1>4
    <2> QED BY <2>1, <1>0, <1>1, <1>6
  <1>8. n > 0 => n - 1 \in Nat /\ At(n - 1) \in Nat /\ At(n) = At(n - 1) + Size
    <2>1. At(n) = n * s /\ At(n - 1) = (n - 1) * s
      BY <1>4
    <2> QED BY <2>1, <1>0, <1>2
  <1>9. \A m \in Nat : m < n => At(m + 1) <= At(n)
    <2>1. \A m \in Nat : m < n => (m + 1) * s <= n * s
      BY <1>3
    <2>2. \A m \in Nat : At(m + 1) = (m + 1) * s /\ At(n) = n * s
      BY <1>4
    <2> HIDE DEF s
    <2> QED BY <2>1, <2>2
  <1> QED BY <1>5, <1>7, <1>8, <1>9

(* How many chunks so many bytes take.                                     *)
LEMMA CountOfChunks ==
    ASSUME Size \in Nat \ {0}, NEW n \in Nat, NEW l \in Nat,
           l <= At(n), n = 0 \/ At(n - 1) < l
    PROVE  (l + Size - 1) \div Size = n
  <1> DEFINE s == Size
             a == l + s - 1
             q == a \div s
             r0 == a % s
  <1>0. s \in Nat \ {0} /\ s = Size
    OBVIOUS
  <1>1. a \in Nat
    BY <1>0
  <1>2. a = s * q + r0 /\ r0 \in 0..(s - 1) /\ q \in Nat
    <2> HIDE DEF s, a
    <2> QED BY <1>0, <1>1, DivMod
  <1>3. At(n) = n * s /\ n * s \in Nat /\ (n > 0 => n * s = At(n - 1) + s)
    BY <1>0, AtFacts DEF At
  <1>4. q * s = s * q /\ q * s \in Nat
    <2> HIDE DEF q, s
    <2> QED BY <1>0, <1>2, Z3
  <1>5. n = 0 \/ n * s < l + s
    <2> SUFFICES ASSUME n # 0 PROVE n * s < l + s
      OBVIOUS
    <2>1. At(n - 1) \in Nat /\ At(n - 1) < l
      BY AtFacts
    <2> QED BY <1>3, <1>0, <2>1
  <1>6. l <= n * s /\ a = l + s - 1 /\ a = q * s + r0
    BY <1>2, <1>3, <1>4
  <1> HIDE DEF s, a, q, r0
  <1>7. ~(q < n)
    <2> SUFFICES ASSUME q < n PROVE FALSE
      OBVIOUS
    <2>1. q * s + s <= n * s
      BY <1>0, <1>2, MultiplesGrow
    <2> QED BY <2>1, <1>0, <1>1, <1>2, <1>3, <1>4, <1>5, <1>6
  <1>8. ~(n < q)
    <2> SUFFICES ASSUME n < q PROVE FALSE
      OBVIOUS
    <2>1. n * s + s <= q * s
      BY <1>0, <1>2, MultiplesGrow
    <2> QED BY <2>1, <1>0, <1>1, <1>2, <1>3, <1>4, <1>6
  <1>9. q = n
    BY <1>2, <1>7, <1>8
  <1> QED BY <1>9, <1>0 DEF q, a

(* Storing one chunk.                                                      *)
PutRight(f, n, d, g) ==
    /\ IsStore(g) /\ DOMAIN g = DOMAIN f \cup {n} /\ g[n] = d
    /\ \A m \in DOMAIN f : m # n => g[m] = f[m]

(* Put stores one chunk and leaves the others alone.                       *)
LEMMA Stored ==
    \A f, n, d : IsStore(f) /\ n \in Nat /\ d \in Seq(Nat) => PutRight(f, n, d, Put(f, n, d))
  BY DEF IsStore, Put, PutRight

(* Taking one chunk away.                                                  *)
LEMMA TakenAway ==
    ASSUME NEW f, IsStore(f), NEW n, NEW g, g = [m \in DOMAIN f \ {n} |-> f[m]]
    PROVE  /\ IsStore(g) /\ DOMAIN g = DOMAIN f \ {n}
           /\ \A m \in DOMAIN g : g[m] = f[m]
  BY DEF IsStore

(* There may be no chunks at all.                                          *)
LEMMA NoChunksFacts == IsStore(NoChunks) /\ DOMAIN NoChunks = {}
  BY DEF IsStore, NoChunks

(* A collection without chunk numbers is empty.                            *)
LEMMA EmptyStore ==
    ASSUME NEW f, IsStore(f), DOMAIN f = {}
    PROVE  f = NoChunks
  BY DEF IsStore, NoChunks

-----------------------------------------------------------------------------
(* The moves of the goroutines.                                            *)

(* A request works or fails; what failed is not forgotten.                 *)
FaultMove == Works \/ \E k \in Kinds : Fails(k)

(* The failures stay within their bound, and none is forgotten.            *)
LEMMA FaultFacts ==
    TypeInv /\ FaultMove /\ UNCHANGED config =>
      /\ faults' \in Seq(Kinds) /\ Len(faults') <= C'.faults
      /\ \A k : Happened(k) => Happened(k)'
  <1> SUFFICES ASSUME TypeInv, FaultMove, UNCHANGED config
               PROVE  /\ faults' \in Seq(Kinds) /\ Len(faults') <= C'.faults
                      /\ \A k : Happened(k) => Happened(k)'
    OBVIOUS
  <1>1. faults \in Seq(Kinds) /\ Len(faults) <= C.faults /\ C' = C /\ C.faults \in Nat
    BY ScenarioFacts DEF TypeInv, C
  <1>2. CASE Works
    BY <1>1, <1>2 DEF Works, Happened
  <1>3. CASE \E k \in Kinds : Fails(k)
    <2>1. PICK k \in Kinds : faults' = Append(faults, k) /\ Len(faults) < C.faults
      BY <1>3 DEF Fails
    <2>2. /\ faults' \in Seq(Kinds) /\ Len(faults') = Len(faults) + 1
          /\ \A i \in 1..Len(faults) : faults'[i] = faults[i]
      BY <1>1, <2>1, AppendProperties
    <2>3. Len(faults) \in Nat /\ DOMAIN faults = 1..Len(faults) /\ DOMAIN faults' = 1..Len(faults')
      BY <1>1, <2>2, LenProperties
    <2>4. \A i \in DOMAIN faults : i \in DOMAIN faults' /\ faults'[i] = faults[i]
      BY <2>2, <2>3
    <2>5. \A x : Happened(x) => Happened(x)'
      BY <2>4 DEF Happened
    <2> QED BY <1>1, <2>1, <2>2, <2>3, <2>5
  <1> QED BY <1>2, <1>3 DEF FaultMove

(* The failure that was just met has happened.                             *)
LEMMA FailureIsKnown ==
    ASSUME TypeInv, NEW k, Fails(k)
    PROVE  Happened(k)'
  <1>1. faults \in Seq(Kinds) /\ faults' = Append(faults, k)
    BY DEF TypeInv, Fails
  <1>2. Len(faults) + 1 \in DOMAIN faults' /\ faults'[Len(faults) + 1] = k
    BY <1>1
  <1> QED BY <1>2 DEF Happened

(* Each kind of failure is one of the above.                               *)
LEMMA KindsFacts == \A k \in {"chunk", "file", "document", "cleanup", "read", "remove"} :
    (Fails(k) => FaultMove) /\ (Loses(k) => FaultMove)
  BY DEF Kinds, FaultMove, Loses

(* While a file is written nobody has found it yet.                        *)
LEMMA NotSettledAlone ==
    IInv /\ ~Settled => files = {} /\ r.mode = "closed" /\ cache.state = "none" /\ remover = "idle"
  <1> SUFFICES ASSUME IInv, ~Settled
               PROVE  files = {} /\ r.mode = "closed" /\ cache.state = "none" /\ remover = "idle"
    OBVIOUS
  <1>1. files = {} /\ r.mode # "reading" /\ cache.state = "none" /\ remover = "idle"
    BY DEF IInv, SettledInv
  <1>2. r.mode = "closed"
    BY <1>1 DEF IInv, TypeInv, Readers
  <1> QED BY <1>1, <1>2

(* In particular while Write, insertChunk and completeWrite work on it.    *)
LEMMA WritingAlone ==
    IInv /\ w.mode = "writing" /\ w.pc # "cleanup" =>
      /\ files = {} /\ r.mode = "closed" /\ cache.state = "none" /\ remover = "idle"
      /\ C.length = 0 /\ Total = w.length /\ w.result = "none" /\ ~Settled
  <1> SUFFICES ASSUME IInv, w.mode = "writing", w.pc # "cleanup"
               PROVE  /\ files = {} /\ r.mode = "closed" /\ cache.state = "none" /\ remover = "idle"
                      /\ C.length = 0 /\ Total = w.length /\ w.result = "none" /\ ~Settled
    OBVIOUS
  <1>1. ~Settled
    BY DEF Settled
  <1>2. C.length = 0 /\ w.result = "none"
    BY DEF IInv, BookInv
  <1>3. Total = w.length
    BY <1>2 DEF Total
  <1> QED BY <1>1, <1>2, <1>3, NotSettledAlone

(* A move of the writer, or of a goroutine that inserts, keeps what is     *)
(* known of the rest.                                                      *)
WriterMove ==
    /\ ~Settled
    /\ w' \in Writers /\ w'.mode = "writing"
    /\ IsStore(chunks') /\ IsStore(inserts') /\ FaultMove
    /\ UNCHANGED <<config, files, r, cache, remover>>

(* The parts of the invariant that such a move does not touch.             *)
LEMMA WriterMoves == IInv /\ WriterMove /\ BookInv' /\ ShapeInv' => IInv'
  <1> SUFFICES ASSUME IInv, WriterMove, BookInv', ShapeInv'
               PROVE  IInv'
    OBVIOUS
  <1>1. files = {} /\ r.mode = "closed" /\ cache.state = "none" /\ remover = "idle"
    BY NotSettledAlone DEF WriterMove
  <1>2. /\ files' = {} /\ r' = r /\ r'.mode = "closed" /\ cache' = cache /\ cache'.state = "none"
        /\ remover' = "idle" /\ w'.mode = "writing" /\ config' = config /\ C' = C
    BY <1>1 DEF WriterMove, C
  <1>3. faults' \in Seq(Kinds) /\ Len(faults') <= C'.faults
    BY FaultFacts DEF IInv, WriterMove
  <1>4. TypeInv'
    BY <1>2, <1>3 DEF IInv, TypeInv, WriterMove
  <1>5. SettledInv'
    BY <1>2 DEF SettledInv
  <1>6. OutcomeInv'
    BY <1>2 DEF OutcomeInv
  <1>7. ReaderInv'
    BY <1>2 DEF IInv, ReaderInv, ReaderOk
  <1>8. CacheInv'
    BY <1>2 DEF CacheInv
  <1> QED BY <1>4, <1>5, <1>6, <1>7, <1>8 DEF IInv

(* So does a move of the reader.                                           *)
ReaderMove ==
    /\ Settled /\ r' \in Readers /\ cache' \in Caches /\ FaultMove
    /\ UNCHANGED <<config, chunks, files, w, inserts, remover>>

(* The parts of the invariant that such a move does not touch.             *)
LEMMA ReaderMoves == IInv /\ ReaderMove /\ ReaderInv' /\ CacheInv' => IInv'
  <1> SUFFICES ASSUME IInv, ReaderMove, ReaderInv', CacheInv'
               PROVE  IInv'
    OBVIOUS
  <1>1. /\ config' = config /\ chunks' = chunks /\ files' = files /\ w' = w /\ inserts' = inserts
        /\ remover' = remover /\ C' = C /\ Total' = Total /\ Size' = Size
    BY DEF ReaderMove, C, Total, Size
  <1>2. faults' \in Seq(Kinds) /\ Len(faults') <= C'.faults /\ \A k : Happened(k) => Happened(k)'
    BY FaultFacts DEF IInv, ReaderMove
  <1>3. TypeInv'
    BY <1>1, <1>2 DEF IInv, TypeInv, ReaderMove, TheDocument
  <1>4. BookInv'
    BY <1>1 DEF IInv, BookInv, InChunk, Counted
  <1>5. \A n : Piece(n)' = Piece(n)
    BY <1>1 DEF Piece, At
  <1>6. ShapeInv'
    BY <1>1, <1>5 DEF IInv, ShapeInv, InChunk, Kept, At
  <1>7. Settled'
    BY <1>1, <1>5 DEF ReaderMove, Settled
  <1>8. OutcomeInv'
    <2>1. TheDocument' = TheDocument /\ Document' = Document
      BY <1>1 DEF TheDocument, Document
    <2> QED BY <1>1, <1>2, <2>1 DEF IInv, OutcomeInv
  <1> QED BY <1>3, <1>4, <1>6, <1>7, <1>8 DEF IInv, SettledInv

-----------------------------------------------------------------------------
(* The steps of the writer.                                                *)

(* The size of a chunk stays, and its bytes do while nothing is written.   *)
LEMMA Constants ==
    UNCHANGED config =>
      /\ C' = C /\ Size' = Size /\ (\A n : At(n)' = At(n))
      /\ (w'.length = w.length => Total' = Total /\ \A n : Piece(n)' = Piece(n))
  <1> SUFFICES ASSUME UNCHANGED config
               PROVE  /\ C' = C /\ Size' = Size /\ (\A n : At(n)' = At(n))
                      /\ (w'.length = w.length => Total' = Total /\ \A n : Piece(n)' = Piece(n))
    OBVIOUS
  <1>1. C' = C /\ Size' = Size
    BY DEF C, Size
  <1>2. \A n : At(n)' = At(n)
    BY <1>1 DEF At
  <1>3. ASSUME w'.length = w.length
        PROVE  Total' = Total /\ \A n : Piece(n)' = Piece(n)
    BY <1>1, <1>2, <1>3 DEF Total, Piece
  <1> QED BY <1>1, <1>2, <1>3

(* The types of the parts of the writer.                                   *)
LEMMA TypeFacts ==
    IInv =>
      /\ config \in DOMAIN Scenarios /\ Size \in Nat \ {0} /\ C.chunkSize = Size /\ C.length \in Nat
      /\ w.chunk \in Nat /\ w.length \in Nat /\ w.wpending \in Nat /\ Total \in Nat
      /\ w.wbuf \in Seq(Nat) /\ w.rest \in Seq(Nat) /\ w.data \in Seq(Nat) /\ w.wsum \in Seq(Nat)
      /\ w.err \in WErrs /\ w.pc \in WPcs /\ w.mode \in {"closed", "writing"}
      /\ IsStore(chunks) /\ IsStore(inserts)
  <1> SUFFICES ASSUME IInv
               PROVE  /\ config \in DOMAIN Scenarios /\ Size \in Nat \ {0} /\ C.chunkSize = Size /\ C.length \in Nat
                      /\ w.chunk \in Nat /\ w.length \in Nat /\ w.wpending \in Nat /\ Total \in Nat
                      /\ w.wbuf \in Seq(Nat) /\ w.rest \in Seq(Nat) /\ w.data \in Seq(Nat) /\ w.wsum \in Seq(Nat)
                      /\ w.err \in WErrs /\ w.pc \in WPcs /\ w.mode \in {"closed", "writing"}
                      /\ IsStore(chunks) /\ IsStore(inserts)
    OBVIOUS
  <1>1. TypeInv
    BY DEF IInv
  <1>2. Size \in Nat \ {0} /\ C.chunkSize = Size /\ C.length \in Nat
    BY <1>1, ScenarioFacts DEF TypeInv
  <1>3. w \in Writers
    BY <1>1 DEF TypeInv
  <1>4. /\ w.chunk \in Nat /\ w.length \in Nat /\ w.wpending \in Nat
        /\ w.wbuf \in Seq(Nat) /\ w.rest \in Seq(Nat) /\ w.data \in Seq(Nat) /\ w.wsum \in Seq(Nat)
        /\ w.err \in WErrs /\ w.pc \in WPcs /\ w.mode \in {"closed", "writing"}
    BY <1>3 DEF Writers
  <1>5. Total \in Nat
    BY <1>2, <1>4 DEF Total
  <1> QED BY <1>1, <1>2, <1>4, <1>5 DEF TypeInv

(* A chunk that is full is the same whatever is written after it.          *)
LEMMA FullPiece ==
    ASSUME Size \in Nat \ {0}, Total \in Nat, NEW n \in Nat, NEW m \in 0..(n - 1), At(n) <= Total
    PROVE  Piece(m) = Bytes(At(m) + 1, At(m + 1))
  <1>1. m \in Nat /\ m < n
    OBVIOUS
  <1>2. At(m + 1) <= At(n) /\ At(m + 1) \in Nat /\ At(n) \in Nat
    BY <1>1, AtFacts
  <1> QED BY <1>2 DEF Piece, Smaller

(* A piece is a sequence of bytes.                                         *)
LEMMA PieceFacts ==
    ASSUME Size \in Nat \ {0}, Total \in Nat, NEW n \in Nat
    PROVE  /\ Piece(n) \in Seq(Nat)
           /\ At(n) \in Nat /\ At(n) + 1 \in Nat \ {0} /\ Smaller(At(n + 1), Total) \in Nat
  <1>1. At(n) \in Nat /\ At(n + 1) \in Nat
    BY AtFacts
  <1>2. At(n) + 1 \in Nat \ {0} /\ Smaller(At(n + 1), Total) \in Nat
    BY <1>1 DEF Smaller
  <1>3. Piece(n) \in Seq(Nat)
    BY <1>2, BytesFacts DEF Piece
  <1> QED BY <1>1, <1>2, <1>3

(* When nothing is pending, nothing is on its way.                         *)
LEMMA NoneCounted == ASSUME IInv, w.wpending = 0 PROVE DOMAIN inserts = {}
  <1>1. IsFiniteSet(DOMAIN inserts) /\ Counted
    BY DEF IInv, BookInv
  <1>2. CASE C.badId
    BY <1>1, <1>2 DEF Counted
  <1>3. CASE ~C.badId
    BY <1>1, <1>3, FS_EmptySet DEF Counted
  <1> QED BY <1>2, <1>3

(* What a step of the writer that stores nothing leaves alone.             *)
WriterStep ==
    /\ w.mode = "writing" /\ w.pc # "cleanup"
    /\ w' \in Writers /\ w'.mode = "writing" /\ w'.result = w.result /\ w'.wpending = w.wpending
    /\ Len(w'.wbuf) <= Size /\ (w'.pc \in {"chunk", "split"} => w'.wbuf = <<>>)
    /\ UNCHANGED <<config, chunks, files, inserts, r, cache, remover>> /\ FaultMove

(* Such a step keeps all but what is known of the bytes.                   *)
LEMMA WriterSteps ==
    ASSUME IInv, WriterStep, ShapeInv',
           \/ w'.chunk = w.chunk /\ (w'.pc \in {"flush", "chunk", "last"} => InChunk)
           \/ w'.chunk = w.chunk + 1,
           w'.pc = "cleanup" => w.wpending = 0 /\ w'.err # "nil"
    PROVE  IInv'
  <1>1. WriterMove
    BY TypeFacts, WritingAlone DEF WriterStep, WriterMove
  <1>2. BookInv'
    <2>1. /\ inserts' = inserts /\ w'.wpending = w.wpending /\ C' = C /\ Size' = Size
          /\ w'.mode = "writing" /\ w'.result = "none" /\ C.length = 0 /\ w.chunk \in Nat
      BY WritingAlone, Constants, TypeFacts DEF WriterStep
    <2>2. /\ IsFiniteSet(DOMAIN inserts') /\ Counted' /\ (w.wpending = 0 => DOMAIN inserts = {})
      BY <2>1, NoneCounted DEF IInv, BookInv, Counted
    <2>3. DOMAIN inserts' \subseteq 0..(w'.chunk - 1)
      BY <2>1 DEF IInv, BookInv
    <2>4. InChunk' => w'.chunk > 0 /\ (w'.chunk - 1) \notin DOMAIN inserts'
      BY <2>1 DEF IInv, BookInv, InChunk
    <2>5. w'.pc = "cleanup" => DOMAIN inserts' = {} /\ w'.err # "nil"
      BY <2>1, <2>2
    <2> QED BY <2>1, <2>2, <2>3, <2>4, <2>5 DEF BookInv, WriterStep
  <1> QED BY <1>1, <1>2, WriterMoves

(* What is written so far, in the states between two waits.                *)
LEMMA ShapeFacts ==
    ASSUME IInv, w.mode = "writing", w.err = "nil", w.pc # "cleanup"
    PROVE  /\ (w.pc \in {"idle", "split", "complete"} => Kept(w.chunk))
           /\ (w.pc \in {"idle", "split"} => w.wsum = Bytes(1, At(w.chunk)) /\ At(w.chunk) <= w.length)
           /\ (w.pc = "idle" => /\ w.wbuf = Bytes(At(w.chunk) + 1, w.length)
                                /\ Len(w.wbuf) = w.length - At(w.chunk))
           /\ (w.pc = "split" => /\ w.rest = Bytes(At(w.chunk) + 1, w.length) /\ w.wbuf = <<>>
                                 /\ Len(w.rest) = w.length - At(w.chunk))
           /\ At(w.chunk) \in Nat /\ At(w.chunk + 1) = At(w.chunk) + Size
           /\ Len(w.wbuf) <= Size
  <1>1. /\ w.chunk \in Nat /\ w.length \in Nat /\ Size \in Nat \ {0}
    BY TypeFacts
  <1>2. At(w.chunk) \in Nat /\ At(w.chunk) + 1 \in Nat /\ At(w.chunk + 1) = At(w.chunk) + Size
    BY <1>1, AtFacts
  <1>3. Len(Bytes(At(w.chunk) + 1, w.length)) =
          IF w.length >= At(w.chunk) + 1 THEN w.length - (At(w.chunk) + 1) + 1 ELSE 0
    BY <1>1, <1>2, BytesFacts
  <1>4. At(w.chunk) <= w.length => Len(Bytes(At(w.chunk) + 1, w.length)) = w.length - At(w.chunk)
    BY <1>1, <1>2, <1>3
  <1>5. /\ (w.pc \in {"idle", "split", "complete"} => Kept(w.chunk))
        /\ (w.pc \in {"idle", "split"} => w.wsum = Bytes(1, At(w.chunk)) /\ At(w.chunk) <= w.length)
        /\ (w.pc = "idle" => w.wbuf = Bytes(At(w.chunk) + 1, w.length))
        /\ (w.pc = "split" => w.rest = Bytes(At(w.chunk) + 1, w.length))
    BY DEF IInv, ShapeInv
  <1>6. Len(w.wbuf) <= Size /\ (w.pc = "split" => w.wbuf = <<>>)
    BY DEF IInv, BookInv
  <1> QED BY <1>2, <1>4, <1>5, <1>6

(* More may be written, what is kept stays so.                             *)
LEMMA KeptWhileWriting ==
    ASSUME IInv, UNCHANGED <<config, chunks, inserts>>, NEW n \in Nat, Kept(n),
           At(n) <= Total, Total <= Total', Total' \in Nat
    PROVE  Kept(n)'
  <1>1. Size \in Nat \ {0} /\ Total \in Nat /\ C' = C /\ Size' = Size /\ \A m : At(m)' = At(m)
    BY TypeFacts, Constants
  <1>2. At(n) \in Nat
    BY <1>1, AtFacts
  <1>3. ASSUME NEW m \in 0..(n - 1) PROVE Piece(m)' = Piece(m)
    <2>1. Piece(m) = Bytes(At(m) + 1, At(m + 1))
      BY <1>1, FullPiece
    <2>2. At(m + 1) <= At(n) /\ At(m + 1) \in Nat
      <3>1. m \in Nat /\ m < n
        OBVIOUS
      <3>2. At(m + 1) \in Nat /\ At(m + 1) <= At(n)
        BY <1>1, <3>1, AtFacts
      <3> QED BY <3>2
    <2>3. Smaller(At(m + 1), Total') = At(m + 1)
      BY <1>1, <1>2, <2>2 DEF Smaller
    <2>4. Piece(m)' = Bytes(At(m) + 1, Smaller(At(m + 1), Total'))
      BY <1>1 DEF Piece
    <2> QED BY <2>1, <2>3, <2>4
  <1>4. DOMAIN chunks \subseteq 0..(n - 1) /\ DOMAIN inserts \subseteq 0..(n - 1)
    BY DEF Kept
  <1> QED BY <1>3, <1>4 DEF Kept

(* A full chunk goes to insertChunk.                                       *)
Begun(data) ==
    /\ w.mode = "writing" /\ w.err = "nil" /\ w.pc \in {"idle", "split"}
    /\ w'.err = "nil" /\ w'.pc \in {"flush", "chunk"} /\ w'.chunk = w.chunk + 1
    /\ w'.wsum = w.wsum \o data /\ w'.data = data
    /\ data = Bytes(At(w.chunk) + 1, At(w.chunk + 1))
    /\ w'.rest = Bytes(At(w.chunk + 1) + 1, w'.length)
    /\ At(w.chunk + 1) <= w'.length /\ w.length <= w'.length /\ w'.length \in Nat

(* The first part of insertChunk keeps the bytes in order.                 *)
LEMMA BeginsChunk ==
    ASSUME IInv, WriterStep, NEW data, Begun(data)
    PROVE  ShapeInv'
  <1>1. /\ w.chunk \in Nat /\ w.length \in Nat /\ Size \in Nat \ {0} /\ Total = w.length /\ C.length = 0
    BY TypeFacts, WritingAlone DEF WriterStep
  <1>2. /\ C' = C /\ Size' = Size /\ (\A m : At(m)' = At(m)) /\ w'.chunk = w.chunk + 1
    BY Constants DEF WriterStep, Begun
  <1>3. Total' = w'.length /\ w'.length \in Nat /\ w.length <= w'.length
    BY <1>1, <1>2 DEF Total, Begun
  <1>4. /\ Kept(w.chunk) /\ w.wsum = Bytes(1, At(w.chunk)) /\ At(w.chunk) <= w.length
        /\ At(w.chunk) \in Nat /\ At(w.chunk + 1) = At(w.chunk) + Size
    BY ShapeFacts DEF Begun, WriterStep
  <1>5. PICK n \in Nat : n = w.chunk
    BY <1>1
  <1>6. At(n) \in Nat /\ At(n + 1) \in Nat /\ At(n + 1) = At(n) + Size
    BY <1>1, AtFacts
  <1>7. Kept(n)'
    <2>1. Kept(n) /\ At(n) <= Total /\ Total <= Total' /\ Total' \in Nat
      BY <1>1, <1>3, <1>4, <1>5
    <2> QED BY <2>1, KeptWhileWriting DEF WriterStep
  <1>8. w'.chunk = n + 1 /\ w'.chunk - 1 = n /\ w'.pc \in {"flush", "chunk"}
    BY <1>2, <1>5 DEF Begun
  <1>9. w'.wsum = Bytes(1, At(n + 1)) /\ w'.data = Bytes(At(n) + 1, At(n + 1))
    <2>1. data = Bytes(At(n) + 1, At(n + 1)) /\ w.wsum = Bytes(1, At(n))
          /\ w'.wsum = w.wsum \o data /\ w'.data = data
      BY <1>4, <1>5 DEF Begun
    <2> DEFINE x == At(n)
               x1 == x + 1
               y == At(n + 1)
    <2>2. Follows(1, x, y, x1)
      BY <1>1, <1>6 DEF Follows
    <2> HIDE DEF x, x1, y
    <2>3. Bytes(1, x) \o Bytes(x1, y) = Bytes(1, y)
      BY <2>2, BytesConcat
    <2> QED BY <2>1, <2>3 DEF x, x1, y
  <1>10. w'.rest = Bytes(At(n + 1) + 1, w'.length) /\ At(n + 1) <= w'.length
    BY <1>5 DEF Begun
  <1>11. At(w.chunk)' = At(n + 1) /\ At(w.chunk - 1)' = At(n)
    BY <1>2, <1>8 DEF At
  <1>12. Kept(w.chunk - 1)'
    BY <1>7, <1>8 DEF Kept, Piece
  <1> QED BY <1>8, <1>9, <1>10, <1>11, <1>12 DEF ShapeInv, InChunk

(* What does not fill a chunk is kept in wbuf, or in rest.                 *)
NotBegun ==
    /\ w.mode = "writing" /\ w.err = "nil" /\ w.pc \in {"idle", "split"}
    /\ w'.pc \in {"idle", "split"} /\ w'.chunk = w.chunk /\ w'.wsum = w.wsum
    /\ (w'.pc = "idle" => w'.wbuf = Bytes(At(w.chunk) + 1, w'.length))
    /\ (w'.pc = "split" => w'.rest = Bytes(At(w.chunk) + 1, w'.length))
    /\ w.length <= w'.length /\ w'.length \in Nat

(* So does a step that only moves bytes between the buffers.               *)
LEMMA KeepsBytes ==
    ASSUME IInv, WriterStep, NotBegun
    PROVE  ShapeInv'
  <1>1. /\ w.chunk \in Nat /\ w.length \in Nat /\ Size \in Nat \ {0} /\ Total = w.length /\ C.length = 0
    BY TypeFacts, WritingAlone DEF WriterStep
  <1>2. /\ C' = C /\ Size' = Size /\ (\A m : At(m)' = At(m)) /\ w'.chunk = w.chunk
    BY Constants DEF WriterStep, NotBegun
  <1>3. Total' = w'.length /\ w'.length \in Nat /\ w.length <= w'.length
    BY <1>1, <1>2 DEF Total, NotBegun
  <1>4. Kept(w.chunk) /\ w.wsum = Bytes(1, At(w.chunk)) /\ At(w.chunk) <= w.length /\ At(w.chunk) \in Nat
    BY ShapeFacts DEF NotBegun, WriterStep
  <1>5. PICK n \in Nat : n = w.chunk
    BY <1>1
  <1>6. Kept(n)'
    <2>1. Kept(n) /\ At(n) <= Total /\ Total <= Total' /\ Total' \in Nat
      BY <1>1, <1>3, <1>4, <1>5
    <2> QED BY <2>1, KeptWhileWriting DEF WriterStep
  <1>7. w'.chunk = n /\ w'.pc \in {"idle", "split"}
    BY <1>2, <1>5 DEF NotBegun
  <1>8. At(w.chunk)' = At(n)
    BY <1>2, <1>7 DEF At
  <1>9. Kept(w.chunk)'
    BY <1>6, <1>7 DEF Kept, Piece
  <1>10. w'.wsum = Bytes(1, At(n)) /\ At(n) <= w'.length
    BY <1>1, <1>3, <1>4, <1>5 DEF NotBegun
  <1>11. /\ (w'.pc = "idle" => w'.wbuf = Bytes(At(n) + 1, w'.length))
         /\ (w'.pc = "split" => w'.rest = Bytes(At(n) + 1, w'.length))
    BY <1>5 DEF NotBegun
  <1> QED BY <1>7, <1>8, <1>9, <1>10, <1>11 DEF ShapeInv, InChunk

(* The data of one Write is split at the end of the chunk.                 *)
Splits(at, l, k, s, e, m) ==
    /\ {at, l} \subseteq Nat /\ {k, s} \subseteq Nat \ {0} /\ at <= l
    /\ e = l + k /\ m = Smaller(s - (l - at), k)

SplitRight(at, l, k, s, e, m) ==
    /\ Bytes(at + 1, l) \o Bytes(l + 1, e) = Bytes(at + 1, e)
    /\ (l - at + k >= s /\ l - at <= s =>
          /\ Bytes(at + 1, l) \o SubSeq(Bytes(l + 1, e), 1, m) = Bytes(at + 1, at + s)
          /\ SubSeq(Bytes(l + 1, e), m + 1, k) = Bytes(at + s + 1, e))

(* Where Write splits its data to fill the buffer.                         *)
LEMMA WriteSplits ==
    \A at, l, k, s, e, m : Splits(at, l, k, s, e, m) => SplitRight(at, l, k, s, e, m)
  <1> SUFFICES ASSUME NEW at, NEW l, NEW k, NEW s, NEW e, NEW m, Splits(at, l, k, s, e, m)
               PROVE  /\ Bytes(at + 1, l) \o Bytes(l + 1, e) = Bytes(at + 1, e)
                      /\ (l - at + k >= s /\ l - at <= s =>
                            /\ Bytes(at + 1, l) \o SubSeq(Bytes(l + 1, e), 1, m) = Bytes(at + 1, at + s)
                            /\ SubSeq(Bytes(l + 1, e), m + 1, k) = Bytes(at + s + 1, e))
    BY Zenon DEF SplitRight
  <1> DEFINE a1 == at + 1
             l1 == l + 1
  <1>0. /\ at \in Nat /\ l \in Nat /\ k \in Nat \ {0} /\ s \in Nat \ {0} /\ at <= l
        /\ e = l + k /\ m = Smaller(s - (l - at), k)
    BY DEF Splits
  <1>1. e \in Nat /\ a1 \in Nat /\ a1 # 0 /\ l1 \in Nat /\ l1 # 0 /\ e = l + k /\ a1 = at + 1 /\ l1 = l + 1
    BY <1>0
  <1> HIDE DEF a1, l1
  <1>2. Bytes(a1, l) \o Bytes(l1, e) = Bytes(a1, e)
    <2>1. Follows(a1, l, e, l1)
      BY <1>0, <1>1 DEF Follows
    <2> QED BY <2>1, BytesConcat
  <1>3. ASSUME l - at + k >= s, l - at <= s
        PROVE  /\ Bytes(a1, l) \o SubSeq(Bytes(l1, e), 1, m) = Bytes(a1, at + s)
               /\ SubSeq(Bytes(l1, e), m + 1, k) = Bytes(at + s + 1, e)
    <2>1. m = s - (l - at) /\ m \in Nat /\ m <= k /\ l + m = at + s
      BY <1>0, <1>3 DEF Smaller
    <2>2. Len(Bytes(l1, e)) = k
      <3>1. Len(Bytes(l1, e)) = IF e >= l1 THEN e - l1 + 1 ELSE 0
        BY <1>1, BytesFacts
      <3> QED BY <3>1, <1>0, <1>1
    <2>3. SubSeq(Bytes(l1, e), 1, m) = Bytes(l1, at + s)
      <3> DEFINE y == at + s
      <3>1. IsPart(l1, e, 1, m, l1, y)
        BY SMTT(40), <1>0, <1>1, <2>1, <2>2 DEF IsPart
      <3> HIDE DEF y
      <3>2. SubSeq(Bytes(l1, e), 1, m) = Bytes(l1, y)
        BY <3>1, BytesSub
      <3> QED BY <3>2 DEF y
    <2>4. SubSeq(Bytes(l1, e), m + 1, k) = Bytes(at + s + 1, e)
      <3> DEFINE x == at + s + 1
                 m1 == m + 1
      <3>1. IsPart(l1, e, m1, k, x, e)
        BY SMTT(40), <1>0, <1>1, <2>1, <2>2 DEF IsPart
      <3> HIDE DEF x, m1
      <3>2. SubSeq(Bytes(l1, e), m1, k) = Bytes(x, e)
        BY <3>1, BytesSub
      <3> QED BY <3>2 DEF x, m1
    <2>6. Bytes(a1, l) \o Bytes(l1, at + s) = Bytes(a1, at + s)
      <3> DEFINE y == at + s
      <3>1. Follows(a1, l, y, l1)
        BY <1>0, <1>1, <2>1 DEF Follows
      <3> HIDE DEF y
      <3>2. Bytes(a1, l) \o Bytes(l1, y) = Bytes(a1, y)
        BY <3>1, BytesConcat
      <3> QED BY <3>2 DEF y
    <2> QED BY <2>3, <2>4, <2>6
  <1> QED BY <1>2, <1>3 DEF a1, l1

(* A Write smaller than what the chunk has room for.                       *)
LEMMA WriteKeeps == ASSUME IInv, NEW k \in C.writes, Write(k) PROVE IInv'
  <1> DEFINE at == At(w.chunk)
             l == w.length
             s == Size
             e == l + k
             data == Bytes(l + 1, e)
             m == Smaller(s - (l - at), k)
  <1>1. /\ w.mode = "writing" /\ w.pc = "idle" /\ w.err = "nil"
        /\ UNCHANGED <<config, chunks, files, inserts, r, cache, remover, faults>>
    BY DEF Write
  <1>2. /\ w \in Writers /\ w.chunk \in Nat /\ l \in Nat /\ s \in Nat \ {0} /\ C.chunkSize = s
        /\ w.wsum \in Seq(Nat) /\ k \in Nat \ {0} /\ Total = l
    <2>1. config \in DOMAIN Scenarios /\ w \in Writers
      BY DEF IInv, TypeInv
    <2>2. k \in Nat \ {0}
      BY <2>1, ScenarioFacts
    <2> QED BY <1>1, <2>1, <2>2, TypeFacts, WritingAlone
  <1>3. /\ w.wbuf = Bytes(at + 1, l) /\ Len(w.wbuf) = l - at /\ at <= l /\ at \in Nat /\ l - at <= s
        /\ At(w.chunk + 1) = at + s
    BY <1>1, <1>2, ShapeFacts
  <1>4. e \in Nat /\ e = l + k
    BY <1>2
  <1> HIDE DEF at, l, s, e, m
  <1>s. Splits(at, l, k, s, e, m)
    BY <1>2, <1>3, <1>4 DEF Splits, m
  <1>5. /\ Bytes(at + 1, l) \o data = Bytes(at + 1, e)
        /\ (l - at + k >= s =>
              /\ Bytes(at + 1, l) \o SubSeq(data, 1, m) = Bytes(at + 1, at + s)
              /\ SubSeq(data, m + 1, k) = Bytes(at + s + 1, e))
    <2>1. l - at <= s
      BY <1>3
    <2>2. /\ Bytes(at + 1, l) \o Bytes(l + 1, e) = Bytes(at + 1, e)
          /\ (l - at + k >= s /\ l - at <= s =>
                /\ Bytes(at + 1, l) \o SubSeq(Bytes(l + 1, e), 1, m) = Bytes(at + 1, at + s)
                /\ SubSeq(Bytes(l + 1, e), m + 1, k) = Bytes(at + s + 1, e))
      <3>1. SplitRight(at, l, k, s, e, m)
        BY <1>s, WriteSplits, Zenon
      <3> QED BY <3>1, Zenon DEF SplitRight
    <2> QED BY <2>1, <2>2, Zenon
  <1>6. w' = IF l - at + k < s THEN [w EXCEPT !.length = e, !.wbuf = Bytes(at + 1, e)]
             ELSE IF l - at > 0
             THEN [w EXCEPT !.length = e, !.rest = Bytes(at + s + 1, e), !.chunk = @ + 1,
                            !.wsum = @ \o Bytes(at + 1, at + s), !.data = Bytes(at + 1, at + s), !.pc = "flush"]
             ELSE [w EXCEPT !.length = e, !.rest = data, !.pc = "split"]
    <2> DEFINE f == [w EXCEPT !.length = @ + k]
    <2>1. w' = IF Len(w.wbuf) + k < C.chunkSize THEN [f EXCEPT !.wbuf = @ \o data]
               ELSE IF Len(w.wbuf) > 0
               THEN BeginChunk([f EXCEPT !.rest = SubSeq(data, Smaller(C.chunkSize - Len(w.wbuf), k) + 1, k)],
                               w.wbuf \o SubSeq(data, 1, Smaller(C.chunkSize - Len(w.wbuf), k)), "flush")
               ELSE [f EXCEPT !.rest = data, !.pc = "split"]
      BY DEF Write, l, e
    <2>2. /\ C.chunkSize - Len(w.wbuf) = s - (l - at)
          /\ Len(w.wbuf) + k < C.chunkSize <=> l - at + k < s
          /\ Len(w.wbuf) > 0 <=> l - at > 0
      BY <1>2, <1>3
    <2>3. f = [w EXCEPT !.length = e] /\ w.wbuf = Bytes(at + 1, l)
      BY <1>3 DEF l, e
    <2> HIDE DEF f
    <2>4. CASE l - at + k < s
      <3>1. w' = [f EXCEPT !.wbuf = @ \o data]
        BY <2>1, <2>2, <2>4
      <3> QED BY <1>2, <1>5, <2>3, <2>4, <3>1
    <2>5. CASE ~(l - at + k < s) /\ l - at > 0
      <3>1. SubSeq(data, m + 1, k) = Bytes(at + s + 1, e)
            /\ w.wbuf \o SubSeq(data, 1, m) = Bytes(at + 1, at + s)
        <4>1. l - at + k >= s
          BY <1>2, <1>3, <2>5
        <4> HIDE DEF data
        <4> QED BY <1>3, <1>5, <4>1, Zenon
      <3>2. w' = BeginChunk([f EXCEPT !.rest = SubSeq(data, m + 1, k)], w.wbuf \o SubSeq(data, 1, m), "flush")
        BY <2>1, <2>2, <2>5 DEF m
      <3>3. w' = BeginChunk([f EXCEPT !.rest = Bytes(at + s + 1, e)], Bytes(at + 1, at + s), "flush")
        BY <3>1, <3>2
      <3> HIDE DEF data
      <3> QED BY <1>2, <2>3, <2>5, <3>3 DEF BeginChunk
    <2>6. CASE ~(l - at + k < s) /\ ~(l - at > 0)
      BY <1>2, <2>1, <2>2, <2>3, <2>6
    <2> QED BY <2>4, <2>5, <2>6
  <1>7. FaultMove
    BY <1>1 DEF FaultMove, Works
  <1>8. at + s \in Nat /\ data \in Seq(Nat)
    <2>1. at + s \in Nat /\ l + 1 \in Nat
      BY <1>2, <1>3
    <2> QED BY <1>4, <2>1, BytesFacts
  <1> HIDE DEF data
  <1>9. CASE l - at + k < s
    <2> DEFINE buf == Bytes(at + 1, e)
    <2>1. buf \in Seq(Nat) /\ Len(buf) = e - at
      <3> DEFINE a1 == at + 1
      <3>1. a1 \in Nat /\ a1 = at + 1
        BY <1>3
      <3> HIDE DEF a1
      <3>2. /\ Bytes(a1, e) \in Seq(Nat)
            /\ Len(Bytes(a1, e)) = IF e >= a1 THEN e - a1 + 1 ELSE 0
        BY <1>4, <3>1, BytesFacts, Zenon
      <3>3. e >= a1 /\ e - a1 + 1 = e - at
        BY <1>2, <1>3, <1>4, <3>1
      <3>4. Bytes(a1, e) \in Seq(Nat) /\ Len(Bytes(a1, e)) = e - at
        BY <3>2, <3>3
      <3> QED BY <3>4 DEF a1
    <2>2. w' = [w EXCEPT !.length = e, !.wbuf = buf]
      BY <1>6, <1>9
    <2>3. Len(buf) <= Size
      BY <1>2, <1>3, <1>4, <1>9, <2>1 DEF s
    <2> HIDE DEF buf
    <2>4. w' \in Writers /\ w'.length = e /\ w'.wbuf = buf /\ w'.mode = w.mode /\ w'.pc = w.pc
          /\ w'.err = w.err /\ w'.chunk = w.chunk /\ w'.wsum = w.wsum /\ w'.result = w.result
          /\ w'.wpending = w.wpending
      BY <1>2, <1>4, <2>1, <2>2 DEF Writers
    <2>5. WriterStep
      BY <1>1, <1>7, <2>3, <2>4 DEF WriterStep
    <2>6. NotBegun
      BY <1>1, <1>2, <1>4, <2>4 DEF NotBegun, buf, at, l
    <2> QED BY <1>1, <2>4, <2>5, <2>6, KeepsBytes, WriterSteps
  <1>10. CASE ~(l - at + k < s) /\ l - at > 0
    <2> DEFINE d == Bytes(at + 1, at + s)
               rest == Bytes(at + s + 1, e)
               sum == w.wsum \o d
               n == w.chunk + 1
    <2>1. d \in Seq(Nat) /\ rest \in Seq(Nat) /\ sum \in Seq(Nat) /\ n \in Nat
      <3>1. d \in Seq(Nat)
        <4> DEFINE x == at + 1
                   y == at + s
        <4>1. x \in Nat /\ y \in Nat
          BY <1>3, <1>8
        <4> HIDE DEF x, y
        <4>2. Bytes(x, y) \in Seq(Nat)
          BY <4>1, BytesFacts
        <4> QED BY <4>2 DEF x, y
      <3>2. rest \in Seq(Nat)
        <4> DEFINE x == at + s + 1
        <4>1. x \in Nat
          BY <1>8
        <4> HIDE DEF x
        <4>2. Bytes(x, e) \in Seq(Nat)
          BY <4>1, <1>4, BytesFacts
        <4> QED BY <4>2 DEF x
      <3> HIDE DEF d, rest
      <3> QED BY <1>2, <3>1, <3>2
    <2>2. w' = [w EXCEPT !.length = e, !.rest = rest, !.chunk = n, !.wsum = sum, !.data = d, !.pc = "flush"]
      BY <1>6, <1>10
    <2>3. n = w.chunk + 1 /\ sum = w.wsum \o d
      OBVIOUS
    <2> HIDE DEF d, rest, sum, n
    <2>4. w' \in Writers /\ w'.length = e /\ w'.rest = rest /\ w'.chunk = n /\ w'.wsum = sum /\ w'.data = d
          /\ w'.pc = "flush" /\ w'.mode = w.mode /\ w'.err = w.err /\ w'.result = w.result
          /\ w'.wpending = w.wpending /\ w'.wbuf = w.wbuf
      BY <1>2, <1>4, <2>1, <2>2 DEF Writers, WPcs
    <2>5. WriterStep
      BY <1>1, <1>3, <1>7, <2>4 DEF WriterStep, s
    <2>6. At(w.chunk + 1) <= e /\ l <= e
      BY <1>2, <1>3, <1>4, <1>10
    <2>7. Begun(d)
      <3>1. d = Bytes(At(w.chunk) + 1, At(w.chunk + 1)) /\ rest = Bytes(At(w.chunk + 1) + 1, e)
        BY <1>3 DEF d, rest, at
      <3> QED BY <1>1, <1>4, <2>3, <2>4, <2>6, <3>1 DEF Begun, l
    <2> QED BY <2>3, <2>4, <2>5, <2>7, BeginsChunk, WriterSteps
  <1>11. CASE ~(l - at + k < s) /\ ~(l - at > 0)
    <2>1. w' = [w EXCEPT !.length = e, !.rest = data, !.pc = "split"]
      BY <1>6, <1>11
    <2>2. w' \in Writers /\ w'.length = e /\ w'.rest = data /\ w'.pc = "split" /\ w'.mode = w.mode
          /\ w'.err = w.err /\ w'.chunk = w.chunk /\ w'.wsum = w.wsum /\ w'.result = w.result
          /\ w'.wpending = w.wpending /\ w'.wbuf = w.wbuf
      BY <1>2, <1>4, <1>8, <2>1 DEF Writers, WPcs
    <2>3. at = l
      BY <1>2, <1>3, <1>11
    <2>4. w.wbuf = <<>>
      <3>1. w.wbuf \in Seq(Nat) /\ Len(w.wbuf) = 0
        BY <1>3, <1>2, <2>3, TypeFacts
      <3> QED BY <3>1, EmptySeq
    <2>5. WriterStep
      BY <1>1, <1>3, <1>7, <2>2, <2>4 DEF WriterStep, s
    <2>6. NotBegun
      BY <1>1, <1>2, <1>4, <2>2, <2>3 DEF NotBegun, data, at, l
    <2> QED BY <1>1, <2>2, <2>5, <2>6, KeepsBytes, WriterSteps
  <1> QED BY <1>9, <1>10, <1>11

(* Split.                                                                  *)
LEMMA SplitKeeps == ASSUME IInv, Split PROVE IInv'
  <1>1. /\ w.pc = "split" /\ UNCHANGED <<config, chunks, files, inserts, r, cache, remover, faults>>
        /\ w' = IF Len(w.rest) > C.chunkSize
                THEN BeginChunk([w EXCEPT !.rest = SubSeq(@, C.chunkSize + 1, Len(@))],
                                SubSeq(w.rest, 1, C.chunkSize), "chunk")
                ELSE [w EXCEPT !.wbuf = @ \o w.rest, !.rest = <<>>, !.pc = "idle"]
    BY DEF Split
  <1>2. /\ w \in Writers /\ w.mode = "writing" /\ w.wbuf = <<>>
    BY <1>1 DEF IInv, TypeInv, BookInv, Writers
  <1>3. /\ Size \in Nat \ {0} /\ C.chunkSize = Size /\ w.chunk \in Nat /\ w.length \in Nat /\ w.wsum \in Seq(Nat)
        /\ w.rest \in Seq(Nat) /\ Len(w.rest) \in Nat /\ w.mode = "writing"
    BY <1>2, TypeFacts, LenProperties
  <1>4. FaultMove
    BY <1>1 DEF FaultMove, Works
  <1> DEFINE at == At(w.chunk)
             l == w.length
             s == Size
  <1>5. w.err = "nil" => /\ w.rest = Bytes(at + 1, l) /\ Len(w.rest) = l - at /\ at <= l /\ at \in Nat
                         /\ At(w.chunk + 1) = at + s
    BY <1>1, <1>2, ShapeFacts
  <1> HIDE DEF at, l, s
  <1>6. CASE Len(w.rest) > Size
    <2> DEFINE d == SubSeq(w.rest, 1, s)
               rest == SubSeq(w.rest, s + 1, Len(w.rest))
               sum == w.wsum \o d
               n == w.chunk + 1
    <2>1. d \in Seq(Nat) /\ rest \in Seq(Nat) /\ sum \in Seq(Nat) /\ n \in Nat
      <3>1. s \in Nat \ {0} /\ s < Len(w.rest)
        BY <1>3, <1>6 DEF s
      <3>2. \A q \in Seq(Nat) : \A i, j \in Nat : i > 0 /\ j <= Len(q) => SubSeq(q, i, j) \in Seq(Nat)
        OBVIOUS
      <3>3. d \in Seq(Nat)
        BY SMTT(40), <1>3, <3>1, <3>2
      <3>4. rest \in Seq(Nat)
        BY SMTT(40), <1>3, <3>1, <3>2
      <3> HIDE DEF d, rest
      <3> QED BY <1>3, <3>3, <3>4
    <2>2. w' = [w EXCEPT !.rest = rest, !.chunk = n, !.wsum = sum, !.data = d, !.pc = "chunk"]
      BY <1>1, <1>3, <1>6 DEF BeginChunk, s
    <2>3. w.err = "nil" => /\ d = Bytes(At(w.chunk) + 1, At(w.chunk + 1)) /\ rest = Bytes(At(w.chunk + 1) + 1, l)
                           /\ At(w.chunk + 1) <= l
      <3> SUFFICES ASSUME w.err = "nil"
                   PROVE  /\ d = Bytes(At(w.chunk) + 1, At(w.chunk + 1)) /\ rest = Bytes(At(w.chunk + 1) + 1, l)
                          /\ At(w.chunk + 1) <= l
        OBVIOUS
      <3> DEFINE a1 == at + 1
                 e1 == at + s
                 e2 == at + s + 1
                 s1 == s + 1
                 b == Bytes(a1, l)
                 len == Len(b)
      <3>1. /\ w.rest = b /\ len = l - at /\ at \in Nat /\ s \in Nat \ {0} /\ l \in Nat /\ at + s < l
            /\ Len(w.rest) = len
        BY <1>3, <1>5, <1>6 DEF s, l
      <3>2. IsPart(a1, l, 1, s, a1, e1)
        BY <3>1 DEF IsPart
      <3>3. IsPart(a1, l, s1, len, e2, l)
        BY <3>1 DEF IsPart
      <3> HIDE DEF a1, e1, e2, s1, len
      <3>4. SubSeq(b, 1, s) = Bytes(a1, e1)
        BY <3>2, BytesSub
      <3>5. SubSeq(b, s1, len) = Bytes(e2, l)
        BY <3>3, BytesSub
      <3> HIDE DEF b
      <3>6. d = Bytes(a1, e1) /\ rest = Bytes(e2, l)
        BY <3>1, <3>4, <3>5, Zenon DEF s1
      <3>7. At(w.chunk + 1) = at + s /\ at = At(w.chunk)
        BY <1>5 DEF at
      <3> HIDE DEF d, rest
      <3> QED BY <3>1, <3>6, <3>7 DEF a1, e1, e2
    <2>4. sum = w.wsum \o d /\ n = w.chunk + 1
      OBVIOUS
    <2> HIDE DEF d, rest, sum, n
    <2>5. w' \in Writers /\ w'.length = w.length /\ w'.rest = rest /\ w'.chunk = n /\ w'.wsum = sum /\ w'.data = d
          /\ w'.pc = "chunk" /\ w'.mode = w.mode /\ w'.err = w.err /\ w'.result = w.result
          /\ w'.wpending = w.wpending /\ w'.wbuf = w.wbuf
      BY <1>2, <2>1, <2>2 DEF Writers, WPcs
    <2>6. Len(<<>>) <= Size
      BY <1>3
    <2>7. WriterStep
      BY <1>1, <1>2, <1>4, <2>5, <2>6 DEF WriterStep
    <2>8. CASE w.err = "nil"
      <3>1. Begun(d)
        <4>1. /\ d = Bytes(At(w.chunk) + 1, At(w.chunk + 1)) /\ rest = Bytes(At(w.chunk + 1) + 1, w.length)
              /\ At(w.chunk + 1) <= w.length
          BY <2>3, <2>8 DEF l
        <4>2. w'.length = w.length /\ w.length <= w'.length /\ w'.length \in Nat
          BY <1>3, <2>5
        <4> QED BY <1>1, <1>2, <2>4, <2>5, <2>8, <4>1, <4>2 DEF Begun
      <3> QED BY SMTT(40), <2>4, <2>5, <2>7, <3>1, BeginsChunk, WriterSteps
    <2>9. CASE w.err # "nil"
      <3>1. ShapeInv'
        BY <2>5, <2>9 DEF ShapeInv
      <3> QED BY <2>4, <2>5, <2>7, <3>1, WriterSteps
    <2> QED BY <2>8, <2>9
  <1>7. CASE ~(Len(w.rest) > Size)
    <2> DEFINE none == <<>>
    <2>1. w.wbuf \o w.rest = w.rest
      BY <1>2, <1>3
    <2>2. w' = [w EXCEPT !.wbuf = w.rest, !.rest = none, !.pc = "idle"]
      BY <1>1, <1>3, <1>7, <2>1
    <2>3. none \in Seq(Nat)
      OBVIOUS
    <2> HIDE DEF none
    <2>4. w' \in Writers /\ w'.length = w.length /\ w'.chunk = w.chunk /\ w'.wsum = w.wsum
          /\ w'.pc = "idle" /\ w'.mode = w.mode /\ w'.err = w.err /\ w'.result = w.result
          /\ w'.wpending = w.wpending /\ w'.wbuf = w.rest
      BY <1>2, <1>3, <2>2, <2>3 DEF Writers, WPcs
    <2>5. Len(w.rest) <= Size
      BY <1>3, <1>7
    <2>6. WriterStep
      BY <1>1, <1>2, <1>4, <2>4, <2>5 DEF WriterStep
    <2>7. CASE w.err = "nil"
      <3>1. NotBegun
        BY <1>1, <1>2, <1>3, <1>5, <2>4, <2>7 DEF NotBegun, at, l
      <3> QED BY <2>4, <2>6, <3>1, KeepsBytes, WriterSteps
    <2>8. CASE w.err # "nil"
      <3>1. ShapeInv'
        BY <2>4, <2>8 DEF ShapeInv
      <3> QED BY <2>4, <2>6, <3>1, WriterSteps
    <2> QED BY <2>7, <2>8
  <1> QED BY <1>6, <1>7

(* Close of a writer.                                                      *)
LEMMA CloseWriterKeeps == ASSUME IInv, CloseWriter PROVE IInv'
  <1>1. /\ w.mode = "writing" /\ w.pc = "idle"
        /\ UNCHANGED <<config, chunks, files, inserts, r, cache, remover, faults>>
        /\ w' = IF w.wbuf # <<>> /\ w.err = "nil" THEN BeginChunk(w, w.wbuf, "last") ELSE [w EXCEPT !.pc = "complete"]
    BY DEF CloseWriter
  <1>2. /\ w \in Writers /\ w.chunk \in Nat /\ w.length \in Nat /\ w.wbuf \in Seq(Nat) /\ w.wsum \in Seq(Nat)
        /\ Size \in Nat \ {0} /\ Len(w.wbuf) \in Nat /\ Len(w.wbuf) <= Size
    BY TypeFacts, LenProperties DEF IInv, TypeInv, BookInv
  <1>3. FaultMove
    BY <1>1 DEF FaultMove, Works
  <1>4. PICK n \in Nat : n = w.chunk
    BY <1>2
  <1>5. At(n) \in Nat /\ At(n + 1) = At(n) + Size /\ (n > 0 => At(n - 1) \in Nat /\ At(n) = At(n - 1) + Size)
    BY <1>2, AtFacts
  <1>6. w.err = "nil" => /\ Kept(n) /\ w.wsum = Bytes(1, At(n)) /\ At(n) <= w.length
                         /\ w.wbuf = Bytes(At(n) + 1, w.length) /\ Len(w.wbuf) = w.length - At(n)
    BY <1>1, <1>4, ShapeFacts
  <1>7. ASSUME w'.length = w.length PROVE (Kept(n) => Kept(n)') /\ \A k : At(k)' = At(k)
    <2>1. \A k : Piece(k)' = Piece(k) /\ At(k)' = At(k)
      BY <1>1, <1>7, Constants
    <2> QED BY <1>1, <2>1 DEF Kept
  <1>8. CASE w.wbuf # <<>> /\ w.err = "nil"
    <2> DEFINE sum == w.wsum \o w.wbuf
               m == w.chunk + 1
    <2>1. sum \in Seq(Nat) /\ m \in Nat /\ m = n + 1 /\ m - 1 = n
      BY <1>2, <1>4
    <2>2. w' = [w EXCEPT !.chunk = m, !.wsum = sum, !.data = w.wbuf, !.pc = "last"]
      BY <1>1, <1>8 DEF BeginChunk
    <2>3. sum = Bytes(1, w.length) /\ At(n) < w.length /\ w.length <= At(n + 1)
      <3> DEFINE at == At(n)
                 a1 == at + 1
                 l == w.length
      <3>1. Len(w.wbuf) # 0
        BY <1>2, <1>8, EmptySeq
      <3>2. at < l /\ l <= at + Size
        BY <1>2, <1>5, <1>6, <1>8, <3>1
      <3>3. Follows(1, at, l, a1)
        BY <1>2, <1>5, <3>2 DEF Follows
      <3> HIDE DEF at, a1, l
      <3>4. Bytes(1, at) \o Bytes(a1, l) = Bytes(1, l)
        BY <3>3, BytesConcat
      <3>5. sum = Bytes(1, at) \o Bytes(a1, l)
        BY <1>6, <1>8 DEF at, a1, l
      <3>6. sum = Bytes(1, l)
        BY <3>4, <3>5
      <3> HIDE DEF sum
      <3> QED BY <1>5, <3>2, <3>6 DEF at, l
    <2> HIDE DEF sum, m
    <2>4. w' \in Writers /\ w'.length = w.length /\ w'.chunk = m /\ w'.wsum = sum /\ w'.data = w.wbuf
          /\ w'.pc = "last" /\ w'.mode = w.mode /\ w'.err = w.err /\ w'.result = w.result
          /\ w'.wpending = w.wpending /\ w'.wbuf = w.wbuf
      BY <1>2, <2>1, <2>2 DEF Writers, WPcs
    <2>5. WriterStep
      BY <1>1, <1>2, <1>3, <2>4 DEF WriterStep
    <2>6. w'.chunk = n + 1 /\ w'.chunk - 1 = n
      BY <2>1, <2>4
    <2>7. Kept(n)' /\ At(w.chunk)' = At(n + 1) /\ At(w.chunk - 1)' = At(n)
      <3>1. Size' = Size
        BY <1>1, Constants
      <3> QED BY <1>6, <1>7, <1>8, <2>4, <2>6, <3>1 DEF At
    <2>8. ShapeInv'
      <3>1. Kept(w.chunk - 1)'
        BY <2>6, <2>7 DEF Kept, Piece
      <3> QED BY <1>6, <1>8, <2>3, <2>4, <2>7, <3>1 DEF ShapeInv, InChunk
    <2>9. w'.chunk = w.chunk + 1
      BY <1>4, <2>6
    <2> QED BY <2>4, <2>5, <2>8, <2>9, WriterSteps
  <1>9. CASE ~(w.wbuf # <<>> /\ w.err = "nil")
    <2>1. w' = [w EXCEPT !.pc = "complete"]
      BY <1>1, <1>9
    <2>2. w' \in Writers /\ w'.length = w.length /\ w'.chunk = w.chunk /\ w'.wsum = w.wsum
          /\ w'.pc = "complete" /\ w'.mode = w.mode /\ w'.err = w.err /\ w'.result = w.result
          /\ w'.wpending = w.wpending /\ w'.wbuf = w.wbuf
      BY <1>2, <2>1 DEF Writers, WPcs
    <2>3. WriterStep
      BY <1>1, <1>2, <1>3, <2>2 DEF WriterStep
    <2>4. ShapeInv'
      <3>1. CASE w.err = "nil"
        <4>1. Len(w.wbuf) = 0
          BY <1>9, <3>1
        <4>2. w.length = At(n)
          BY <1>2, <1>5, <1>6, <3>1, <4>1
        <4>3. n = 0 \/ At(n - 1) < w.length
          BY <1>2, <1>5, <4>2
        <4>4. At(w.chunk)' = At(n) /\ At(w.chunk - 1)' = At(n - 1) /\ Kept(w.chunk)'
          <5>1. Size' = Size
            BY <1>1, Constants
          <5>2. w'.chunk = n
            BY <1>4, <2>2
          <5>3. Kept(n)'
            BY <1>6, <1>7, <2>2, <3>1
          <5> QED BY <5>1, <5>2, <5>3 DEF At, Kept, Piece
        <4>5. w'.wsum = Bytes(1, w'.length)
          BY <1>6, <2>2, <3>1, <4>2
        <4>6. w'.length <= At(n) /\ (w'.chunk = 0 \/ At(n - 1) < w'.length)
          BY <1>4, <1>5, <2>2, <4>2, <4>3
        <4> QED BY <2>2, <4>4, <4>5, <4>6 DEF ShapeInv, InChunk
      <3>2. CASE w.err # "nil"
        BY <2>2, <3>2 DEF ShapeInv
      <3> QED BY <3>1, <3>2
    <2> QED BY <2>2, <2>3, <2>4, WriterSteps
  <1> QED BY <1>8, <1>9

(* insertChunk waits for room.                                             *)
LEMMA WaitsKeeps == ASSUME IInv, insertWaits PROVE IInv'
  <1>1. /\ InChunk /\ w' = [w EXCEPT !.wait = "waiting"]
        /\ UNCHANGED <<config, chunks, files, inserts, r, cache, remover, faults>>
    BY DEF insertWaits
  <1>2. w \in Writers /\ w.mode = "writing" /\ w.pc # "cleanup"
    BY <1>1 DEF IInv, TypeInv, BookInv, InChunk, Writers
  <1>3. /\ w' \in Writers /\ w'.length = w.length /\ w'.chunk = w.chunk /\ w'.wsum = w.wsum
        /\ w'.pc = w.pc /\ w'.mode = w.mode /\ w'.err = w.err /\ w'.result = w.result
        /\ w'.wpending = w.wpending /\ w'.wbuf = w.wbuf /\ w'.data = w.data /\ w'.rest = w.rest
    BY <1>1, <1>2 DEF Writers
  <1>4. WriterStep
    BY <1>1, <1>2, <1>3 DEF WriterStep, FaultMove, Works, IInv, BookInv
  <1>5. ShapeInv'
    <2>1. \A k : Piece(k)' = Piece(k) /\ At(k)' = At(k)
      BY <1>1, <1>3, Constants
    <2> QED BY <1>1, <1>3, <2>1 DEF IInv, ShapeInv, InChunk, Kept
  <1> QED BY <1>1, <1>2, <1>3, <1>4, <1>5, WriterSteps DEF InChunk

(* insertChunk gives up after an error.                                    *)
LEMMA GivesUpKeeps == ASSUME IInv, insertGivesUp PROVE IInv'
  <1>1. /\ InChunk /\ w.err # "nil" /\ w' = AfterChunk(w)
        /\ UNCHANGED <<config, chunks, files, inserts, r, cache, remover, faults>>
    BY DEF insertGivesUp
  <1>2. w \in Writers /\ w.mode = "writing" /\ w.pc # "cleanup"
    BY <1>1 DEF IInv, TypeInv, BookInv, InChunk, Writers
  <1> DEFINE buf == IF w.pc = "chunk" THEN w.wbuf ELSE <<>>
             next == IF w.pc = "last" THEN "complete" ELSE "split"
             none == <<>>
  <1>3. w' = [w EXCEPT !.wbuf = buf, !.data = none, !.wait = "no", !.pc = next]
    BY <1>1, <1>2 DEF AfterChunk, Writers
  <1>4. buf = <<>> /\ none \in Seq(Nat) /\ next \in {"complete", "split"}
    BY DEF IInv, BookInv
  <1>5. Len(<<>>) <= Size /\ <<>> \in Seq(Nat)
    BY TypeFacts
  <1> HIDE DEF buf, next, none
  <1>6. /\ w' \in Writers /\ w'.chunk = w.chunk /\ w'.pc = next /\ w'.mode = w.mode /\ w'.err = w.err
        /\ w'.result = w.result /\ w'.wpending = w.wpending /\ w'.wbuf = <<>>
    BY <1>2, <1>3, <1>4, <1>5 DEF Writers, WPcs
  <1>7. WriterStep
    BY <1>1, <1>2, <1>4, <1>5, <1>6 DEF WriterStep, FaultMove, Works
  <1>8. ShapeInv'
    BY <1>1, <1>6 DEF ShapeInv
  <1> QED BY <1>4, <1>6, <1>7, <1>8, WriterSteps

(* Abort.                                                                  *)
LEMMA AbortKeeps == ASSUME IInv, Abort PROVE IInv'
  <1>1. /\ w.mode = "writing" /\ w.pc = "idle" /\ w' = [w EXCEPT !.err = "aborted"]
        /\ UNCHANGED <<config, chunks, files, inserts, r, cache, remover, faults>>
    BY DEF Abort
  <1>2. w \in Writers
    BY DEF IInv, TypeInv
  <1>3. /\ w' \in Writers /\ w'.chunk = w.chunk /\ w'.pc = w.pc /\ w'.mode = w.mode /\ w'.err = "aborted"
        /\ w'.result = w.result /\ w'.wpending = w.wpending /\ w'.wbuf = w.wbuf
    BY <1>1, <1>2 DEF Writers, WErrs
  <1>4. WriterStep
    BY <1>1, <1>3 DEF WriterStep, FaultMove, Works, IInv, BookInv
  <1>5. ShapeInv'
    BY <1>3 DEF ShapeInv
  <1> QED BY <1>1, <1>3, <1>4, <1>5, WriterSteps

(* insertChunk: the chunk is on its way.                                   *)
LEMMA InsertKeeps == ASSUME IInv, insertChunk, ~C.badId PROVE IInv'
  <1>1. /\ InChunk /\ w' = AfterChunk([w EXCEPT !.wpending = @ + 1])
        /\ inserts' = Put(inserts, w.chunk - 1, w.data)
        /\ UNCHANGED <<config, chunks, files, r, cache, remover, faults>>
    BY DEF insertChunk
  <1>2. w \in Writers /\ w.mode = "writing" /\ w.pc \in {"flush", "chunk", "last"}
    BY <1>1 DEF IInv, TypeInv, BookInv, InChunk, Writers
  <1>3. /\ w.chunk \in Nat /\ w.length \in Nat /\ w.wpending \in Nat /\ w.data \in Seq(Nat)
        /\ Size \in Nat \ {0} /\ IsStore(chunks) /\ IsStore(inserts) /\ Total = w.length
        /\ C.length = 0 /\ w.result = "none"
    BY <1>2, TypeFacts, WritingAlone
  <1>4. /\ w.chunk > 0 /\ w.chunk - 1 \notin DOMAIN inserts /\ IsFiniteSet(DOMAIN inserts)
        /\ w.wpending = Cardinality(DOMAIN inserts) /\ DOMAIN inserts \subseteq 0..(w.chunk - 1)
        /\ (w.pc = "chunk" => w.wbuf = <<>>)
    BY <1>1 DEF IInv, BookInv, Counted
  <1>5. PICK n \in Nat : w.chunk = n + 1 /\ w.chunk - 1 = n
    <2>1. w.chunk - 1 \in Nat /\ w.chunk = (w.chunk - 1) + 1
      BY <1>3, <1>4
    <2> QED BY <2>1
  <1> DEFINE next == IF w.pc = "last" THEN "complete" ELSE "split"
             none == <<>>
             more == w.wpending + 1
  <1>6. w' = [w EXCEPT !.wpending = more, !.wbuf = none, !.data = none, !.wait = "no", !.pc = next]
    BY <1>1, <1>2, <1>4 DEF AfterChunk, Writers
  <1>7. none \in Seq(Nat) /\ next \in {"complete", "split"} /\ more \in Nat /\ Len(none) <= Size
    BY <1>3
  <1> HIDE DEF none, next, more
  <1>8. /\ w' \in Writers /\ w'.wpending = more /\ w'.wbuf = none /\ w'.pc = next /\ w'.chunk = w.chunk
        /\ w'.mode = w.mode /\ w'.err = w.err /\ w'.result = w.result /\ w'.length = w.length
        /\ w'.wsum = w.wsum /\ w'.rest = w.rest
    BY <1>2, <1>6, <1>7 DEF Writers, WPcs
  <1>9. /\ IsStore(inserts') /\ DOMAIN inserts' = DOMAIN inserts \cup {n}
        /\ inserts'[n] = w.data /\ \A m \in DOMAIN inserts : inserts'[m] = inserts[m]
    <2> DEFINE put == Put(inserts, n, w.data)
    <2>1. inserts' = put /\ n \notin DOMAIN inserts
      BY <1>1, <1>4, <1>5
    <2>2. PutRight(inserts, n, w.data, put)
      BY <1>3, Stored
    <2> HIDE DEF put
    <2> QED BY <2>1, <2>2 DEF PutRight
  <1>10. WriterMove
    BY <1>1, <1>2, <1>3, <1>8, <1>9, WritingAlone DEF WriterMove, FaultMove, Works
  <1>11. BookInv'
    <2>1. IsFiniteSet(DOMAIN inserts') /\ Cardinality(DOMAIN inserts') = more
      BY <1>4, <1>5, <1>9, FS_AddElement DEF more
    <2>2. DOMAIN inserts' \subseteq 0..(w'.chunk - 1)
      BY <1>3, <1>4, <1>5, <1>8, <1>9
    <2>3. ~InChunk' /\ w'.pc # "cleanup" /\ Size' = Size /\ C' = C
      BY <1>1, <1>7, <1>8, Constants DEF InChunk
    <2>4. Counted'
      BY <1>8, <2>1, <2>3 DEF Counted
    <2> QED BY <1>2, <1>3, <1>7, <1>8, <2>1, <2>2, <2>3, <2>4 DEF BookInv, none
  <1>12. ShapeInv'
    <2> SUFFICES ASSUME w.err = "nil" PROVE ShapeInv'
      BY <1>8 DEF ShapeInv
    <2>1. At(n) \in Nat /\ At(n + 1) \in Nat
      BY <1>3, AtFacts
    <2>2. /\ Kept(n)
          /\ (w.pc # "last" => /\ w.data = Bytes(At(n) + 1, At(n + 1)) /\ At(n + 1) <= w.length
                               /\ w.wsum = Bytes(1, At(n + 1)) /\ w.rest = Bytes(At(n + 1) + 1, w.length))
          /\ (w.pc = "last" => /\ w.data = Bytes(At(n) + 1, w.length) /\ w.length <= At(n + 1)
                               /\ w.wsum = Bytes(1, w.length) /\ At(n) < w.length)
      BY <1>1, <1>2, <1>3, <1>4, <1>5 DEF IInv, ShapeInv, InChunk
    <2>3. w.data = Piece(n)
      BY <1>3, <2>1, <2>2 DEF Piece, Smaller
    <2>4. \A k : Piece(k)' = Piece(k) /\ At(k)' = At(k)
      BY <1>1, <1>8, Constants
    <2>5. Kept(n + 1)'
      <3>1. DOMAIN chunks \cup DOMAIN inserts' = 0..((n + 1) - 1)
        BY <1>9, <2>2 DEF Kept
      <3>2. \A m \in DOMAIN inserts' : inserts'[m] = Piece(m)
        BY <1>9, <2>2, <2>3 DEF Kept
      <3> QED BY <1>1, <2>2, <2>4, <3>1, <3>2 DEF Kept
    <2>6. At(w.chunk)' = At(n + 1) /\ At(w.chunk - 1)' = At(n) /\ Kept(w.chunk)'
      <3>1. Size' = Size /\ w'.chunk = n + 1 /\ w'.chunk - 1 = n
        BY <1>1, <1>5, <1>8, Constants
      <3> QED BY <2>5, <3>1 DEF At, Kept, Piece
    <2>7. CASE w.pc # "last"
      BY <1>8, <2>2, <2>6, <2>7 DEF ShapeInv, InChunk, next
    <2>8. CASE w.pc = "last"
      BY <1>8, <2>2, <2>6, <2>8 DEF ShapeInv, InChunk, next
    <2> QED BY <2>7, <2>8
  <1> QED BY <1>10, <1>11, <1>12, WriterMoves

(* insertChunk without BSON: there is an error, and nothing on its way.    *)
LEMMA MarshalFailsKeeps == ASSUME IInv, insertChunk, C.badId PROVE IInv'
  <1>1. /\ InChunk /\ w' = AfterChunk([w EXCEPT !.wpending = @ + 1, !.err = "bson"])
        /\ UNCHANGED <<config, chunks, files, inserts, r, cache, remover, faults>>
    BY DEF insertChunk
  <1>2. w \in Writers /\ w.mode = "writing" /\ w.pc \in {"flush", "chunk", "last"}
    BY <1>1 DEF IInv, TypeInv, BookInv, InChunk, Writers
  <1>3. /\ w.chunk \in Nat /\ w.length \in Nat /\ w.wpending \in Nat
        /\ Size \in Nat \ {0} /\ IsStore(inserts) /\ Total = w.length
        /\ C.length = 0 /\ w.result = "none"
    BY <1>2, TypeFacts, WritingAlone
  <1>4. /\ IsFiniteSet(DOMAIN inserts) /\ DOMAIN inserts = {} /\ (w.pc = "chunk" => w.wbuf = <<>>)
    BY <1>1 DEF IInv, BookInv, Counted
  <1> DEFINE next == IF w.pc = "last" THEN "complete" ELSE "split"
             none == <<>>
             more == w.wpending + 1
  <1>5. w' = [w EXCEPT !.wpending = more, !.err = "bson", !.wbuf = none, !.data = none, !.wait = "no",
                       !.pc = next]
    BY <1>1, <1>2, <1>4 DEF AfterChunk, Writers
  <1>6. none \in Seq(Nat) /\ next \in {"complete", "split"} /\ more \in Nat /\ Len(none) <= Size
    BY <1>3
  <1> HIDE DEF none, next, more
  <1>7. /\ w' \in Writers /\ w'.wbuf = none /\ w'.pc = next /\ w'.chunk = w.chunk
        /\ w'.mode = w.mode /\ w'.err = "bson" /\ w'.result = w.result /\ w'.length = w.length
    BY <1>2, <1>5, <1>6 DEF Writers, WPcs, WErrs
  <1>8. WriterMove
    BY <1>1, <1>2, <1>3, <1>7, WritingAlone DEF WriterMove, FaultMove, Works, IInv, TypeInv
  <1>9. BookInv'
    <2>1. ~InChunk' /\ w'.pc # "cleanup" /\ Size' = Size /\ C' = C /\ DOMAIN inserts' = {}
      BY <1>1, <1>4, <1>6, <1>7, Constants DEF InChunk
    <2>2. Counted'
      BY <2>1 DEF Counted
    <2> QED BY <1>1, <1>2, <1>3, <1>4, <1>6, <1>7, <2>1, <2>2 DEF BookInv, none
  <1>10. ShapeInv'
    BY <1>7 DEF ShapeInv
  <1> QED BY <1>8, <1>9, <1>10, WriterMoves

(* The goroutine of one chunk: stored or not, it is no longer on its way;  *)
(* that it is not stored is remembered.                                    *)
LEMMA InsertedKeeps ==
    ASSUME IInv, NEW n \in DOMAIN inserts, NEW stored \in BOOLEAN, NEW err \in {"nil", "net"},
           err = "nil" => stored, Inserted(n, stored, err), FaultMove
    PROVE  IInv'
  <1>1. /\ chunks' = IF stored THEN Put(chunks, n, inserts[n]) ELSE chunks
        /\ inserts' = [m \in DOMAIN inserts \ {n} |-> inserts[m]]
        /\ w' = [w EXCEPT !.wpending = @ - 1, !.err = IF @ = "nil" THEN err ELSE @,
                          !.wait = IF @ = "waiting" THEN "woken" ELSE @]
        /\ UNCHANGED <<config, files, r, cache, remover>>
    BY DEF Inserted
  <1>2. w \in Writers /\ w.mode = "writing" /\ w.pc # "cleanup"
    BY DEF IInv, TypeInv, BookInv, Writers
  <1>3. /\ w.chunk \in Nat /\ w.wpending \in Nat /\ IsStore(chunks) /\ IsStore(inserts)
        /\ Total = w.length /\ w.result = "none" /\ C.length = 0 /\ w.err \in WErrs
    BY <1>2, TypeFacts, WritingAlone
  <1>4. /\ IsFiniteSet(DOMAIN inserts) /\ w.wpending = Cardinality(DOMAIN inserts) /\ ~C.badId
    BY DEF IInv, BookInv, Counted
  <1> DEFINE left == w.wpending - 1
             e == IF w.err = "nil" THEN err ELSE w.err
             wt == IF w.wait = "waiting" THEN "woken" ELSE w.wait
  <1>5. IsFiniteSet(DOMAIN inserts \ {n}) /\ Cardinality(DOMAIN inserts \ {n}) = left /\ left \in Nat
    <2> DEFINE D == DOMAIN inserts
    <2>1. IsFiniteSet(D) /\ n \in D /\ w.wpending = Cardinality(D)
      BY <1>4
    <2> HIDE DEF D
    <2>2. IsFiniteSet(D \ {n}) /\ Cardinality(D \ {n}) = Cardinality(D) - 1
      BY <2>1, FS_RemoveElement
    <2>3. Cardinality(D \ {n}) \in Nat
      BY <2>2, FS_CardinalityType
    <2> QED BY <2>1, <2>2, <2>3 DEF D
  <1>6. w' = [w EXCEPT !.wpending = left, !.err = e, !.wait = wt]
    BY <1>1
  <1>7. e \in WErrs /\ wt \in {"no", "waiting", "woken"} /\ (e = "nil" => w.err = "nil" /\ stored)
    BY <1>2 DEF WErrs, Writers
  <1> HIDE DEF left, e, wt
  <1>8. /\ w' \in Writers /\ w'.wpending = left /\ w'.wbuf = w.wbuf /\ w'.pc = w.pc /\ w'.chunk = w.chunk
        /\ w'.mode = w.mode /\ w'.err = e /\ w'.result = w.result /\ w'.length = w.length
        /\ w'.wsum = w.wsum /\ w'.rest = w.rest /\ w'.data = w.data
    BY <1>2, <1>5, <1>6, <1>7 DEF Writers
  <1>9. IsStore(inserts') /\ DOMAIN inserts' = DOMAIN inserts \ {n} /\ \A m \in DOMAIN inserts' : inserts'[m] = inserts[m]
    BY <1>1, <1>3, TakenAway
  <1>10. /\ IsStore(chunks')
         /\ (stored => /\ DOMAIN chunks' = DOMAIN chunks \cup {n} /\ chunks'[n] = inserts[n]
                       /\ \A m \in DOMAIN chunks : m # n => chunks'[m] = chunks[m])
    <2> DEFINE put == Put(chunks, n, inserts[n])
    <2>1. n \in Nat /\ inserts[n] \in Seq(Nat)
      BY <1>3 DEF IsStore
    <2>2. PutRight(chunks, n, inserts[n], put)
      BY <1>3, <2>1, Stored
    <2>3. chunks' = IF stored THEN put ELSE chunks
      BY <1>1
    <2> HIDE DEF put
    <2> QED BY <1>3, <2>2, <2>3 DEF PutRight
  <1>11. WriterMove
    BY <1>1, <1>2, <1>8, <1>9, <1>10, WritingAlone DEF WriterMove
  <1>12. BookInv'
    <2>1. InChunk' = InChunk /\ Size' = Size /\ C' = C
      BY <1>1, <1>8, Constants DEF InChunk
    <2>2. /\ IsFiniteSet(DOMAIN inserts') /\ w'.wpending = Cardinality(DOMAIN inserts')
          /\ DOMAIN inserts' \subseteq DOMAIN inserts
      BY <1>5, <1>8, <1>9
    <2>3. Counted'
      BY <1>4, <2>1, <2>2 DEF Counted
    <2> QED BY <1>2, <1>3, <1>8, <2>1, <2>2, <2>3 DEF IInv, BookInv
  <1>13. ShapeInv'
    <2> SUFFICES ASSUME e = "nil" PROVE ShapeInv'
      BY <1>8 DEF ShapeInv
    <2>1. w.err = "nil" /\ stored
      BY <1>7
    <2>2. \A k : Piece(k)' = Piece(k) /\ At(k)' = At(k)
      BY <1>1, <1>8, Constants
    <2>3. ASSUME NEW k, Kept(k) PROVE Kept(k)'
      <3>1. DOMAIN chunks' \cup DOMAIN inserts' = 0..(k - 1)
        BY <1>9, <1>10, <2>1, <2>3 DEF Kept
      <3>2. \A m \in DOMAIN chunks' : chunks'[m] = Piece(m)
        BY <1>10, <2>1, <2>3 DEF Kept
      <3>3. \A m \in DOMAIN inserts' : inserts'[m] = Piece(m)
        BY <1>9, <2>3 DEF Kept
      <3> QED BY <2>2, <3>1, <3>2, <3>3 DEF Kept
    <2>4. (Kept(w.chunk) => Kept(w.chunk)') /\ (Kept(w.chunk - 1) => Kept(w.chunk - 1)')
      <3>1. PICK c \in Nat : c = w.chunk
        BY <1>3
      <3>2. (Kept(c) => Kept(c)') /\ (Kept(c - 1) => Kept(c - 1)')
        BY <2>3
      <3>3. (Kept(c)' => Kept(w.chunk)') /\ (Kept(c - 1)' => Kept(w.chunk - 1)')
        BY <1>8, <3>1 DEF Kept, Piece
      <3> QED BY <3>1, <3>2, <3>3
    <2>5. At(w.chunk)' = At(w.chunk) /\ At(w.chunk - 1)' = At(w.chunk - 1)
      <3>1. Size' = Size
        BY <1>1, Constants
      <3> QED BY <1>8, <3>1 DEF At
    <2> QED BY <1>2, <1>8, <2>1, <2>4, <2>5 DEF IInv, ShapeInv, InChunk
  <1> QED BY <1>11, <1>12, <1>13, WriterMoves

(* Create.                                                                 *)
LEMMA CreateKeeps == ASSUME IInv, Create PROVE IInv'
  <1>1. /\ w.mode = "closed" /\ w.result = "none" /\ C.total > 0
        /\ w' = [w EXCEPT !.mode = "writing"]
        /\ UNCHANGED <<config, chunks, files, inserts, r, cache, remover, faults>>
    BY DEF Create
  <1>2. w = Closed /\ w \in Writers /\ DOMAIN inserts = {} /\ Counted
    BY <1>1 DEF IInv, TypeInv, BookInv
  <1>3. C.length = 0 /\ Size \in Nat \ {0} /\ C.total \in Nat
    BY <1>1, ScenarioFacts DEF IInv, TypeInv
  <1>4. ~Settled
    BY <1>1, <1>3 DEF Settled
  <1>5. DOMAIN chunks = {}
    BY <1>1, <1>3, NoChunksFacts DEF IInv, OutcomeInv
  <1>6. /\ w' \in Writers /\ w'.mode = "writing" /\ w'.pc = "idle" /\ w'.wbuf = <<>> /\ w'.wsum = <<>>
        /\ w'.chunk = 0 /\ w'.length = 0 /\ w'.result = "none" /\ w'.wpending = w.wpending
    <2>1. /\ w.pc = "idle" /\ w.wbuf = <<>> /\ w.wsum = <<>> /\ w.chunk = 0 /\ w.length = 0 /\ w.result = "none"
      BY <1>2 DEF Closed
    <2> QED BY <1>1, <1>2, <2>1 DEF Writers
  <1>7. WriterMove
    BY <1>1, <1>4, <1>6, TypeFacts DEF WriterMove, FaultMove, Works
  <1>8. Size' = Size /\ C' = C
    BY <1>1, Constants
  <1>9. BookInv'
    <2>1. Len(w'.wbuf) <= Size'
      BY <1>3, <1>6, <1>8
    <2>2. IsFiniteSet(DOMAIN inserts') /\ Counted' /\ DOMAIN inserts' = {}
      BY <1>1, <1>2, <1>6, <1>8, FS_EmptySet DEF Counted
    <2>3. ~InChunk'
      BY <1>6 DEF InChunk
    <2> QED BY <1>3, <1>6, <1>8, <2>1, <2>2, <2>3 DEF BookInv
  <1>10. ShapeInv'
    <2>1. At(0) = 0
      BY <1>3, AtFacts
    <2>2. At(w.chunk)' = 0
      <3>1. w'.chunk * Size' = 0 * Size
        BY <1>6, <1>8
      <3> QED BY <2>1, <3>1 DEF At
    <2>3. Bytes(1, 0) = <<>>
      BY BytesFacts
    <2>4. Kept(w.chunk)'
      BY <1>1, <1>2, <1>5, <1>6 DEF Kept
    <2> QED BY <1>6, <2>2, <2>3, <2>4 DEF ShapeInv, InChunk
  <1> QED BY <1>7, <1>9, <1>10, WriterMoves

(* The reader does not see what becomes of the writer.                     *)
LEMMA ReaderStays ==
    ASSUME IInv, UNCHANGED <<config, r, cache>>, w'.length = w.length
    PROVE  ReaderInv' /\ CacheInv'
  <1>1. /\ Total' = Total /\ \A k : Piece(k)' = Piece(k) /\ At(k)' = At(k)
    BY Constants
  <1>2. ReaderInv'
    BY <1>1 DEF IInv, ReaderInv, ReaderOk
  <1>3. CacheInv'
    BY <1>1 DEF IInv, CacheInv
  <1> QED BY <1>2, <1>3

(* Once nothing is pending and nothing failed, all of the file is there.   *)
LEMMA AllIsThere ==
    ASSUME IInv, w.mode = "writing", w.pc = "complete", w.wpending = 0, w.err = "nil"
    PROVE  /\ chunks = ChunksOf(Total, Size) /\ Document = TheDocument
           /\ \A n \in DOMAIN chunks : chunks[n] = Piece(n)
  <1>1. /\ w.chunk \in Nat /\ w.length \in Nat /\ Size \in Nat \ {0} /\ Total = w.length /\ IsStore(chunks)
    BY TypeFacts, WritingAlone DEF IInv, BookInv
  <1>2. DOMAIN inserts = {}
    BY NoneCounted
  <1>3. /\ Kept(w.chunk) /\ w.wsum = Bytes(1, w.length) /\ w.length <= At(w.chunk)
        /\ (w.chunk = 0 \/ At(w.chunk - 1) < w.length)
    BY DEF IInv, ShapeInv
  <1>4. (Total + Size - 1) \div Size = w.chunk
    BY <1>1, <1>3, CountOfChunks
  <1>5. DOMAIN chunks = 0..(w.chunk - 1) /\ \A n \in DOMAIN chunks : chunks[n] = Piece(n)
    BY <1>2, <1>3 DEF Kept
  <1>6. chunks = [n \in 0..(w.chunk - 1) |-> Piece(n)]
    BY <1>1, <1>5 DEF IsStore
  <1>7. ChunksOf(Total, Size) = [n \in 0..(w.chunk - 1) |-> Piece(n)]
    <2> DEFINE last == (Total + Size - 1) \div Size
    <2>1. ChunksOf(Total, Size) = [n \in 0..(last - 1) |-> Piece(n)]
      BY DEF ChunksOf, Piece, At
    <2> QED BY <1>4, <2>1
  <1>8. Document = TheDocument
    BY <1>1, <1>3 DEF Document, TheDocument
  <1> QED BY <1>5, <1>6, <1>7, <1>8

(* completeWrite inserts the document.                                     *)
Completed ==
    /\ w.mode = "writing" /\ w.pc = "complete" /\ w.wpending = 0 /\ w.err = "nil"
    /\ files' = files \cup {Document} /\ FaultMove
    /\ \/ w' = Ended(w)
       \/ w' = [w EXCEPT !.err = "net", !.pc = "cleanup"] /\ Happened("document")'
    /\ UNCHANGED <<config, chunks, inserts, r, cache, remover>>

(* The document is inserted once all of the chunks are there.              *)
LEMMA CompletedKeeps == ASSUME IInv, Completed PROVE IInv'
  <1>1. /\ w.mode = "writing" /\ w.pc = "complete" /\ w.wpending = 0 /\ w.err = "nil"
        /\ files' = files \cup {Document} /\ FaultMove
        /\ UNCHANGED <<config, chunks, inserts, r, cache, remover>>
    BY DEF Completed
  <1>2. /\ files = {} /\ r.mode = "closed" /\ cache.state = "none" /\ remover = "idle"
        /\ C.length = 0 /\ Total = w.length /\ w.result = "none"
    BY <1>1, WritingAlone
  <1>3. /\ chunks = ChunksOf(Total, Size) /\ Document = TheDocument
        /\ \A n \in DOMAIN chunks : chunks[n] = Piece(n)
    BY <1>1, AllIsThere
  <1>4. /\ w \in Writers /\ IsFiniteSet(DOMAIN inserts) /\ Counted
        /\ DOMAIN inserts = {}
    BY <1>1, NoneCounted DEF IInv, TypeInv, BookInv
  <1>5. /\ w' \in Writers /\ w'.length = w.length /\ w'.wsum = w.wsum /\ w'.chunk = w.chunk
        /\ w'.wpending = w.wpending /\ w'.wbuf = w.wbuf
        /\ \/ w'.mode = "closed" /\ w'.pc = "idle" /\ w'.result = "nil" /\ w'.err = "nil"
           \/ /\ w'.mode = "writing" /\ w'.pc = "cleanup" /\ w'.result = "none" /\ w'.err = "net"
              /\ Happened("document")'
    <2>1. CASE w' = Ended(w)
      BY <1>1, <1>4, <2>1 DEF Ended, Writers, WPcs, WErrs
    <2>2. CASE w' = [w EXCEPT !.err = "net", !.pc = "cleanup"] /\ Happened("document")'
      BY <1>1, <1>2, <1>4, <2>2 DEF Writers, WPcs, WErrs
    <2> QED BY <2>1, <2>2 DEF Completed
  <1>6. /\ C' = C /\ Size' = Size /\ Total' = Total /\ \A n : Piece(n)' = Piece(n)
    BY <1>1, <1>5, Constants
  <1>7. TheDocument' = TheDocument /\ Document' = TheDocument /\ files' = {TheDocument}
    BY <1>1, <1>2, <1>3, <1>5, <1>6 DEF TheDocument, Document
  <1>8. faults' \in Seq(Kinds) /\ Len(faults') <= C'.faults
    BY <1>1, FaultFacts DEF IInv
  <1>9. TypeInv'
    BY <1>1, <1>5, <1>7, <1>8 DEF IInv, TypeInv
  <1>10. BookInv'
    <2>1. ~InChunk'
      BY <1>5 DEF InChunk
    <2>2. w'.pc \notin {"chunk", "split"} /\ DOMAIN inserts' = {}
      BY <1>1, <1>4, <1>5
    <2>3. Counted'
      BY <1>1, <1>4, <1>5, <1>6 DEF Counted
    <2> QED BY <1>1, <1>2, <1>4, <1>5, <1>6, <2>1, <2>2, <2>3 DEF IInv, BookInv
  <1>11. ShapeInv'
    BY <1>5 DEF ShapeInv
  <1>12. Settled'
    BY <1>1, <1>3, <1>5, <1>6 DEF Settled
  <1>13. OutcomeInv'
    BY <1>1, <1>2, <1>3, <1>5, <1>6, <1>7 DEF OutcomeInv
  <1>14. ReaderInv' /\ CacheInv'
    BY <1>1, <1>5, ReaderStays
  <1> QED BY <1>9, <1>10, <1>11, <1>12, <1>13, <1>14 DEF IInv, SettledInv

(* completeWrite.                                                          *)
LEMMA CompleteWriteKeeps == ASSUME IInv, completeWrite PROVE IInv'
  <1>1. /\ w.pc = "complete" /\ w.wpending = 0
        /\ UNCHANGED <<config, chunks, inserts, r, cache, remover>>
    BY DEF completeWrite
  <1>2. w.mode = "writing" /\ w \in Writers
    BY <1>1 DEF IInv, BookInv, TypeInv, Writers
  <1>3. ASSUME FaultMove, UNCHANGED files, NEW e \in WErrs \ {"nil"}, w' = [w EXCEPT !.err = e, !.pc = "cleanup"]
        PROVE  IInv'
    <2>1. /\ w' \in Writers /\ w'.mode = w.mode /\ w'.result = w.result /\ w'.wpending = w.wpending
          /\ w'.wbuf = w.wbuf /\ w'.pc = "cleanup" /\ w'.err = e /\ w'.chunk = w.chunk
      BY <1>2, <1>3 DEF Writers, WPcs
    <2>2. WriterStep
      BY <1>1, <1>2, <1>3, <2>1 DEF WriterStep, IInv, BookInv
    <2>3. ShapeInv'
      BY <1>3, <2>1 DEF ShapeInv
    <2> QED BY <1>1, <1>3, <2>1, <2>2, <2>3, WriterSteps
  <1>4. CASE w.err = "nil" /\ Works /\ files' = files \cup {Document} /\ w' = Ended(w)
    BY <1>1, <1>2, <1>4, CompletedKeeps DEF Completed, FaultMove
  <1>5. CASE w.err = "nil" /\ (Works \/ Fails("file")) /\ w' = [w EXCEPT !.err = "net", !.pc = "cleanup"]
             /\ UNCHANGED files
    BY <1>3, <1>5, KindsFacts DEF WErrs, FaultMove
  <1>6. CASE w.err = "nil" /\ Loses("document") /\ files' = files \cup {Document}
             /\ w' = [w EXCEPT !.err = "net", !.pc = "cleanup"]
    <2>1. FaultMove /\ Happened("document")'
      BY <1>6, KindsFacts, FailureIsKnown DEF Loses, IInv
    <2> QED BY <1>1, <1>2, <1>6, <2>1, CompletedKeeps DEF Completed
  <1>7. CASE w.err # "nil" /\ Works /\ w' = [w EXCEPT !.pc = "cleanup"] /\ UNCHANGED files
    <2>1. w' = [w EXCEPT !.err = w.err, !.pc = "cleanup"] /\ w.err \in WErrs \ {"nil"}
      BY <1>2, <1>7 DEF Writers
    <2> QED BY <1>3, <1>7, <2>1 DEF FaultMove
  <1> QED BY <1>4, <1>5, <1>6, <1>7 DEF completeWrite

(* The chunks of a file that failed are removed.                           *)
LEMMA CleanupKeeps == ASSUME IInv, cleanup PROVE IInv'
  <1>1. /\ w.pc = "cleanup" /\ w' = Ended(w)
        /\ UNCHANGED <<config, files, inserts, r, cache, remover>>
    BY DEF cleanup
  <1>2. /\ FaultMove
        /\ (chunks' = NoChunks \/ (chunks' = chunks /\ Happened("cleanup")'))
    BY KindsFacts, FailureIsKnown DEF cleanup, IInv, FaultMove
  <1>3. w \in Writers /\ w.mode = "writing" /\ w.err # "nil" /\ DOMAIN inserts = {} /\ C.length = 0
    BY <1>1 DEF IInv, TypeInv, BookInv, Writers
  <1>4. /\ w' \in Writers /\ w'.length = w.length /\ w'.wsum = w.wsum /\ w'.chunk = w.chunk
        /\ w'.wpending = w.wpending /\ w'.wbuf = w.wbuf
        /\ w'.mode = "closed" /\ w'.pc = "idle" /\ w'.result = w.err /\ w'.err = w.err
    BY <1>1, <1>3 DEF Ended, Writers, WPcs
  <1>5. /\ C' = C /\ Size' = Size /\ Total' = Total /\ \A n : Piece(n)' = Piece(n)
    BY <1>1, <1>4, Constants
  <1>6. TheDocument' = TheDocument
    BY <1>5 DEF TheDocument
  <1>7. faults' \in Seq(Kinds) /\ Len(faults') <= C'.faults /\ \A k : Happened(k) => Happened(k)'
    BY <1>1, <1>2, FaultFacts DEF IInv
  <1>8. w.err \in WErrs \ {"nil"}
    BY <1>3 DEF Writers
  <1>9. TypeInv'
    BY <1>1, <1>2, <1>4, <1>6, <1>7, NoChunksFacts DEF IInv, TypeInv
  <1>10. BookInv'
    <2>1. ~InChunk'
      BY <1>4 DEF InChunk
    <2>2. w'.result # "none"
      BY <1>4, <1>8 DEF WErrs
    <2>3. Counted'
      BY <1>1, <1>4, <1>5 DEF IInv, BookInv, Counted
    <2> QED BY <1>1, <1>3, <1>4, <1>5, <2>1, <2>2, <2>3 DEF IInv, BookInv
  <1>11. ShapeInv'
    BY <1>4 DEF ShapeInv
  <1>12. SettledInv'
    <2>1. (\A n \in DOMAIN chunks : chunks[n] = Piece(n)) => \A n \in DOMAIN chunks' : chunks'[n] = Piece(n)
      BY <1>2, NoChunksFacts
    <2>2. Settled => Settled'
      BY <1>4, <1>5, <1>8, <2>1 DEF Settled, WErrs
    <2> QED BY <1>1, <2>2 DEF IInv, SettledInv
  <1>13. OutcomeInv'
    <2>1. w'.mode = "closed" /\ w'.result # "nil" /\ w'.result # "none"
      BY <1>4, <1>8 DEF WErrs
    <2>2. ~Happened("document")' => files' = {}
      BY <1>1, <1>3, <1>7 DEF IInv, OutcomeInv
    <2>3. remover' = "chunks" => files' = {}
      BY <1>1 DEF IInv, OutcomeInv
    <2>4. ~Happened("cleanup")' => chunks' = NoChunks
      BY <1>2
    <2> QED BY <2>1, <2>2, <2>3, <2>4 DEF OutcomeInv
  <1>14. ReaderInv' /\ CacheInv'
    BY <1>1, <1>4, ReaderStays
  <1> QED BY <1>9, <1>10, <1>11, <1>12, <1>13, <1>14 DEF IInv

(* A removal of a file touches nothing of the one that is written.         *)
Removal ==
    /\ Settled /\ FaultMove /\ remover' \in {"chunks", "done"}
    /\ files' \in {files, {}} /\ chunks' \in {chunks, NoChunks}
    /\ (chunks' # chunks => files' = {})
    /\ (remover' = "chunks" => files' = {})
    /\ (files' = {} => \/ chunks' = NoChunks \/ remover' = "chunks"
                       \/ Happened("cleanup")' \/ Happened("remove")')
    /\ UNCHANGED <<config, w, inserts, r, cache>>

(* Only the document and the chunks of a file that is written go.          *)
LEMMA RemovalKeeps == ASSUME IInv, Removal PROVE IInv'
  <1>1. /\ Settled /\ FaultMove /\ remover' \in {"chunks", "done"}
        /\ files' \in {files, {}} /\ chunks' \in {chunks, NoChunks}
        /\ (chunks' # chunks => files' = {})
        /\ w' = w /\ UNCHANGED <<config, inserts, r, cache>>
    BY DEF Removal
  <1>2. /\ C' = C /\ Size' = Size /\ Total' = Total /\ \A n : Piece(n)' = Piece(n)
    BY <1>1, Constants
  <1>3. TheDocument' = TheDocument /\ Document' = Document
    BY <1>1, <1>2 DEF TheDocument, Document
  <1>4. faults' \in Seq(Kinds) /\ Len(faults') <= C'.faults /\ \A k : Happened(k) => Happened(k)'
    BY <1>1, FaultFacts DEF IInv
  <1>5. TypeInv'
    BY <1>1, <1>3, <1>4, NoChunksFacts DEF IInv, TypeInv
  <1>6. BookInv'
    BY <1>1, <1>2 DEF IInv, BookInv, InChunk, Counted
  <1>7. ShapeInv'
    BY <1>1 DEF IInv, BookInv, Settled, ShapeInv
  <1>8. Settled'
    BY <1>1, <1>2, NoChunksFacts DEF Settled
  <1>9. OutcomeInv'
    <2>1. files' # {} => files' = files /\ chunks' = chunks
      BY <1>1
    <2>2. remover' # "idle" /\ (remover' = "chunks" => files' = {})
      BY <1>1 DEF Removal
    <2>3. w'.mode = "closed" /\ w'.result = "none" => C'.length # 0
      BY <1>1, <1>2, TypeFacts DEF Settled
    <2>4. files' = {} /\ ~Happened("cleanup")' /\ ~Happened("remove")' =>
            chunks' = NoChunks \/ remover' = "chunks"
      BY DEF Removal
    <2> QED BY <1>1, <1>2, <1>3, <1>4, <2>1, <2>2, <2>3, <2>4 DEF IInv, OutcomeInv
  <1>10. ReaderInv' /\ CacheInv'
    BY <1>1, ReaderStays
  <1> QED BY <1>5, <1>6, <1>7, <1>8, <1>9, <1>10 DEF IInv, SettledInv

(* RemoveId, which removes the document first.                             *)
LEMMA RemoveIdKeeps == ASSUME IInv, RemoveId PROVE IInv'
  <1>1. remover = "idle" /\ files # {} /\ UNCHANGED <<config, chunks, w, inserts, r, cache>>
    BY DEF RemoveId
  <1>2. Settled
    BY <1>1 DEF IInv, SettledInv
  <1>3. /\ FaultMove
        /\ \/ files' = {} /\ remover' = "chunks"
           \/ files' = files /\ remover' = "done"
           \/ files' = {} /\ remover' = "done" /\ Happened("remove")'
    BY KindsFacts, FailureIsKnown DEF RemoveId, IInv, FaultMove, Loses
  <1> QED BY <1>1, <1>2, <1>3, RemovalKeeps DEF Removal

(* RemoveId, which removes the chunks then.                                *)
LEMMA RemoveChunksKeeps == ASSUME IInv, RemoveChunks PROVE IInv'
  <1>1. remover = "chunks" /\ remover' = "done" /\ UNCHANGED <<config, files, w, inserts, r, cache>>
    BY DEF RemoveChunks
  <1>2. Settled /\ files = {}
    BY <1>1 DEF IInv, SettledInv, OutcomeInv
  <1>3. FaultMove /\ (chunks' = NoChunks \/ (chunks' = chunks /\ Happened("cleanup")'))
    BY KindsFacts, FailureIsKnown DEF RemoveChunks, IInv, FaultMove
  <1> QED BY <1>1, <1>2, <1>3, RemovalKeeps DEF Removal

-----------------------------------------------------------------------------
(* The steps of the reader.                                                *)

(* A handle that may copy what it holds.                                   *)
CanCopy(f) ==
    /\ f.length = Total /\ f.offset < f.length /\ f.want > 0
    /\ f.rbuf = Bytes(f.offset + 1, Smaller(At(f.chunk), f.length)) /\ f.offset <= At(f.chunk)
    /\ f.from <= f.offset /\ f.got = Bytes(f.from + 1, f.offset)
    /\ f.want + (f.offset - f.from) = f.asked

(* What Copy makes of it.                                                  *)
Copied(f, h) ==
    /\ h \in Readers /\ h.mode = f.mode /\ h.result = f.result /\ h.length = f.length
    /\ h.offset <= h.length /\ h.from <= h.offset /\ h.got = Bytes(h.from + 1, h.offset)
    /\ h.want + (h.offset - h.from) = h.asked
    /\ h.pc \in {"idle", "read"}
    /\ (h.pc = "idle" => h.want = 0 \/ h.offset = h.length)
    /\ (h.pc = "idle" /\ h.offset < h.length =>
          h.rbuf = Bytes(h.offset + 1, Smaller(At(h.chunk), h.length)) /\ h.offset <= At(h.chunk))
    /\ (h.pc = "read" => h.offset < h.length /\ h.offset = At(h.chunk) /\ h.want > 0)

(* One turn of the loop in Read copies the bytes that come next.           *)
LEMMA CopyIsRight ==
    ASSUME Size \in Nat \ {0}, NEW f \in Readers, CanCopy(f)
    PROVE  Copied(f, Copy(f))
  <1> DEFINE off == f.offset
             top == At(f.chunk)
             e == Smaller(top, f.length)
             len == Len(f.rbuf)
             i == Smaller(f.want, len)
             o == off + i
             o1 == off + 1
             o2 == o + 1
             i1 == i + 1
             f1 == f.from + 1
             got == f.got \o SubSeq(f.rbuf, 1, i)
             rbuf == SubSeq(f.rbuf, i1, len)
             want == f.want - i
             pc == IF want = 0 \/ o = f.length THEN "idle" ELSE "read"
             h == [f EXCEPT !.got = got, !.offset = o, !.want = want, !.rbuf = rbuf, !.pc = pc]
  <1>1. /\ off \in Nat /\ f.chunk \in Nat /\ f.length \in Nat /\ f.want \in Nat /\ f.from \in Nat /\ f.asked \in Nat
        /\ f.rbuf \in Seq(Nat) /\ f.got \in Seq(Nat)
    BY DEF Readers
  <1>2. top \in Nat
    BY <1>1, AtFacts
  <1>3. /\ off < f.length /\ f.want > 0 /\ f.rbuf = Bytes(o1, e) /\ off <= top
        /\ f.from <= off /\ f.got = Bytes(f1, off) /\ f.want + (off - f.from) = f.asked
    BY DEF CanCopy
  <1>4. Copy(f) = h
    BY DEF Copy, Readers
  <1> HIDE DEF top, h
  <1>5. e \in Nat /\ off <= e /\ e <= f.length /\ e <= top /\ (e = top \/ e = f.length)
    BY <1>1, <1>2, <1>3 DEF Smaller
  <1>6. len = e - off
    <2>1. o1 \in Nat
      BY <1>1
    <2> HIDE DEF e, o1
    <2>2. Len(Bytes(o1, e)) = IF e >= o1 THEN e - o1 + 1 ELSE 0
      BY <1>5, <2>1, BytesFacts
    <2>3. Len(Bytes(o1, e)) = e - off
      BY <1>1, <1>5, <2>2 DEF o1
    <2> QED BY <1>3, <2>3
  <1> HIDE DEF e, len
  <1>7. /\ i \in Nat /\ i <= len /\ i <= f.want /\ (i = len \/ i = f.want)
    BY SMTT(40), <1>1, <1>5, <1>6 DEF Smaller
  <1> HIDE DEF i
  <1>8. /\ o \in Nat /\ off <= o /\ o <= e /\ want \in Nat /\ want + (o - f.from) = f.asked
        /\ o1 \in Nat /\ o2 \in Nat /\ f1 \in Nat /\ len \in Nat /\ (want # 0 => o = e)
    <2> DEFINE fw == f.want
               ff == f.from
               fa == f.asked
    <2>1. /\ off \in Nat /\ fw \in Nat /\ ff \in Nat /\ fa \in Nat /\ fw > 0 /\ ff <= off /\ fw + (off - ff) = fa
      BY <1>1, <1>3
    <2>2. e \in Nat /\ off <= e /\ len = e - off /\ i \in Nat /\ i <= len /\ i <= fw /\ (i = len \/ i = fw)
      BY <1>5, <1>6, <1>7
    <2> HIDE DEF off, fw, ff, fa
    <2>3. o \in Nat /\ off <= o /\ o <= e /\ o1 \in Nat /\ o2 \in Nat /\ len \in Nat
      BY <2>1, <2>2
    <2>4. fw - i \in Nat /\ (fw - i) + (o - ff) = fa /\ (fw - i # 0 => o = e) /\ ff + 1 \in Nat
      BY <2>1, <2>2
    <2> QED BY <2>3, <2>4 DEF fw, ff, fa
  <1>9. IsPart(o1, e, 1, i, o1, o) /\ IsPart(o1, e, i1, len, o2, e) /\ Follows(f1, off, o, o1)
    <2>1. IsPart(o1, e, 1, i, o1, o)
      <3>1. i <= Len(Bytes(o1, e))
        BY <1>3, <1>7 DEF len
      <3>2. o1 # 0 /\ o1 = o1 + 1 - 1 /\ o = o1 + i - 1
        BY <1>1, <1>7
      <3> HIDE DEF o, o1
      <3> QED BY <1>5, <1>7, <1>8, <3>1, <3>2 DEF IsPart
    <2>2. IsPart(o1, e, i1, len, o2, e)
      <3>1. len <= Len(Bytes(o1, e))
        BY <1>3, <1>6, <1>1, <1>5 DEF len
      <3>2. len \in Nat /\ e = o1 + len - 1
        BY <1>1, <1>5, <1>6
      <3>3. o1 # 0 /\ i1 \in Nat \ {0} /\ o2 = o1 + i1 - 1
        BY <1>1, <1>7
      <3> HIDE DEF o1, o2, i1
      <3> QED BY <1>5, <1>8, <3>1, <3>2, <3>3 DEF IsPart
    <2>3. Follows(f1, off, o, o1)
      BY <1>1, <1>3, <1>8 DEF Follows
    <2> QED BY <2>1, <2>2, <2>3
  <1> HIDE DEF o, o1, o2, i1, f1
  <1>10. SubSeq(Bytes(o1, e), 1, i) = Bytes(o1, o)
    BY <1>9, BytesSub
  <1>11. SubSeq(Bytes(o1, e), i1, len) = Bytes(o2, e)
    BY <1>9, BytesSub
  <1>12. Bytes(f1, off) \o Bytes(o1, o) = Bytes(f1, o)
    BY <1>9, BytesConcat
  <1>13. rbuf = Bytes(o2, e)
    <2> DEFINE b == Bytes(o1, e)
    <2>1. SubSeq(b, i1, len) = Bytes(o2, e) /\ f.rbuf = b
      BY <1>3, <1>11, Zenon
    <2> HIDE DEF b
    <2> QED BY <2>1, Zenon
  <1>14. got = Bytes(f1, o)
    <2> DEFINE b == Bytes(o1, e)
               p == Bytes(o1, o)
    <2>1. SubSeq(b, 1, i) = p /\ f.rbuf = b /\ f.got = Bytes(f1, off) /\ Bytes(f1, off) \o p = Bytes(f1, o)
      BY <1>3, <1>10, <1>12, Zenon
    <2> HIDE DEF b, p
    <2> QED BY <2>1, Zenon
  <1>15. got \in Seq(Nat) /\ rbuf \in Seq(Nat)
    <2> HIDE DEF got, rbuf
    <2> QED BY <1>5, <1>8, <1>13, <1>14, BytesFacts
  <1>16. pc \in {"idle", "read"}
    OBVIOUS
  <1>17. (want = 0 \/ o = f.length => pc = "idle") /\ (~(want = 0 \/ o = f.length) => pc = "read")
    OBVIOUS
  <1>18. want # 0 => o = e
    BY <1>8
  <1> HIDE DEF got, rbuf, want, pc
  <1>19. /\ h \in Readers /\ h.mode = f.mode /\ h.result = f.result /\ h.length = f.length /\ h.chunk = f.chunk
         /\ h.from = f.from /\ h.asked = f.asked /\ h.got = got /\ h.offset = o /\ h.want = want
         /\ h.rbuf = rbuf /\ h.pc = pc
    BY <1>8, <1>15, <1>16 DEF Readers, h
  <1>20. Copied(f, h)
    <2>1. h.offset <= h.length /\ h.from <= h.offset /\ h.got = Bytes(h.from + 1, h.offset)
          /\ h.want + (h.offset - h.from) = h.asked
      BY SMTT(40), <1>1, <1>3, <1>5, <1>8, <1>14, <1>19 DEF f1
    <2>2. h.pc = "idle" => h.want = 0 \/ h.offset = h.length
      BY <1>17, <1>19
    <2>3. h.rbuf = Bytes(h.offset + 1, Smaller(At(h.chunk), h.length)) /\ h.offset <= At(h.chunk)
      BY <1>2, <1>5, <1>8, <1>13, <1>19 DEF o2, e, top
    <2>4. h.pc = "read" => h.offset < h.length /\ h.offset = At(h.chunk) /\ h.want > 0
      BY <1>1, <1>2, <1>5, <1>8, <1>17, <1>18, <1>19 DEF top
    <2> QED BY <1>16, <1>19, <2>1, <2>2, <2>3, <2>4 DEF Copied
  <1> QED BY <1>4, <1>20

(* The types of the parts of the reader.                                   *)
LEMMA ReaderFacts ==
    IInv =>
      /\ Size \in Nat \ {0} /\ C.chunkSize = Size /\ Total \in Nat
      /\ r \in Readers /\ cache \in Caches
      /\ r.offset \in Nat /\ r.chunk \in Nat /\ r.length \in Nat /\ r.want \in Nat /\ r.from \in Nat /\ r.asked \in Nat
      /\ r.ops \in Nat /\ r.rbuf \in Seq(Nat) /\ r.got \in Seq(Nat)
      /\ r.mode \in {"closed", "reading"} /\ r.pc \in {"idle", "read", "seek"}
      /\ (r.pc \in {"read", "seek"} => r.mode = "reading")
      /\ (r.mode = "reading" => Settled)
  <1> SUFFICES ASSUME IInv
               PROVE  /\ Size \in Nat \ {0} /\ C.chunkSize = Size /\ Total \in Nat
      /\ r \in Readers /\ cache \in Caches
      /\ r.offset \in Nat /\ r.chunk \in Nat /\ r.length \in Nat /\ r.want \in Nat /\ r.from \in Nat /\ r.asked \in Nat
      /\ r.ops \in Nat /\ r.rbuf \in Seq(Nat) /\ r.got \in Seq(Nat)
      /\ r.mode \in {"closed", "reading"} /\ r.pc \in {"idle", "read", "seek"}
      /\ (r.pc \in {"read", "seek"} => r.mode = "reading")
      /\ (r.mode = "reading" => Settled)
    OBVIOUS
  <1>1. r \in Readers /\ cache \in Caches
    BY DEF IInv, TypeInv
  <1>2. /\ r.offset \in Nat /\ r.chunk \in Nat /\ r.length \in Nat /\ r.want \in Nat /\ r.from \in Nat /\ r.asked \in Nat
        /\ r.ops \in Nat /\ r.rbuf \in Seq(Nat) /\ r.got \in Seq(Nat)
        /\ r.mode \in {"closed", "reading"} /\ r.pc \in {"idle", "read", "seek"}
    BY <1>1 DEF Readers
  <1>3. r.pc \in {"read", "seek"} => r.mode = "reading"
    BY <1>2 DEF IInv, ReaderInv, ReaderOk
  <1>4. r.mode = "reading" => Settled
    BY DEF IInv, SettledInv
  <1> QED BY <1>1, <1>2, <1>3, <1>4, TypeFacts

(* What a step of the reader need not touch.                               *)
LEMMA ReaderSteps ==
    ASSUME IInv, Settled, FaultMove, UNCHANGED <<config, chunks, files, w, inserts, remover>>,
           r' \in Readers, ReaderOk(r'),
           cache' = cache \/ (cache' \in Caches /\ cache'.state # "filled")
    PROVE  IInv'
  <1>1. /\ Total' = Total /\ \A k : Piece(k)' = Piece(k) /\ At(k)' = At(k)
    BY Constants
  <1>2. ReaderInv'
    BY <1>1 DEF ReaderInv, ReaderOk
  <1>3. CacheInv'
    BY <1>1 DEF IInv, CacheInv
  <1>4. ReaderMove
    BY ReaderFacts DEF ReaderMove
  <1> QED BY <1>2, <1>3, <1>4, ReaderMoves

(* Open.                                                                   *)
LEMMA OpenKeeps == ASSUME IInv, Open PROVE IInv'
  <1>1. /\ r.mode = "closed" /\ r.result = "none"
        /\ UNCHANGED <<config, chunks, files, w, inserts, cache, remover, faults>>
    BY DEF Open
  <1>2. PICK d \in files : r' = [r EXCEPT !.mode = "reading", !.length = d.length]
    BY DEF Open
  <1>3. Settled /\ d = TheDocument /\ d.length = Total
    BY DEF IInv, SettledInv, TypeInv, TheDocument
  <1>4. r = Closed /\ r \in Readers /\ Total \in Nat /\ Size \in Nat \ {0}
    BY <1>1, ReaderFacts DEF IInv, ReaderInv, ReaderOk
  <1>5. r' = [r EXCEPT !.mode = "reading", !.length = Total]
    BY <1>2, <1>3
  <1>6. r' \in Readers
    BY <1>4, <1>5 DEF Readers
  <1>7. /\ r'.mode = "reading" /\ r'.length = Total /\ r'.offset = 0 /\ r'.got = <<>> /\ r'.from = 0
        /\ r'.pc = "idle" /\ r'.result = "none" /\ r'.chunk = 0 /\ r'.rbuf = <<>>
    BY <1>4, <1>5 DEF Closed
  <1>8. Bytes(1, 0) = <<>>
    BY BytesFacts
  <1>9. At(0) = 0 /\ Smaller(0, Total) = 0
    BY <1>4, AtFacts DEF Smaller
  <1>10. ReaderOk(r')
    <2>1. r'.got = Bytes(r'.from + 1, r'.from + Len(r'.got))
      BY <1>7, <1>8
    <2>2. r'.rbuf = Bytes(r'.offset + 1, Smaller(At(r'.chunk), r'.length)) /\ r'.offset <= At(r'.chunk)
      BY <1>7, <1>8, <1>9
    <2> QED BY <1>4, <1>7, <2>1, <2>2 DEF ReaderOk
  <1> QED BY <1>1, <1>3, <1>6, <1>10, ReaderSteps DEF FaultMove, Works

(* Close of a reader.                                                      *)
LEMMA CloseReaderKeeps == ASSUME IInv, CloseReader PROVE IInv'
  <1>1. /\ r.mode = "reading" /\ r.pc = "idle" /\ cache' = NoCache
        /\ r' = [r EXCEPT !.mode = "closed", !.result = "closed"]
        /\ UNCHANGED <<config, chunks, files, w, inserts, remover, faults>>
    BY DEF CloseReader
  <1>2. r \in Readers /\ Settled
    BY <1>1, ReaderFacts
  <1>3. /\ r' \in Readers /\ r'.mode = "closed" /\ r'.result = "closed" /\ r'.pc = "idle"
        /\ r'.offset = r.offset /\ r'.length = r.length /\ r'.got = r.got /\ r'.from = r.from
    BY <1>1, <1>2 DEF Readers
  <1>4. ReaderOk(r')
    BY <1>3 DEF IInv, ReaderInv, ReaderOk
  <1>5. cache' \in Caches /\ cache'.state # "filled"
    BY <1>1 DEF NoCache, Caches
  <1> QED BY <1>1, <1>2, <1>3, <1>4, <1>5, ReaderSteps DEF FaultMove, Works

(* What was copied is right, once the result is that of a Read.            *)
LEMMA CopiedIsRight ==
    ASSUME NEW f, NEW h, NEW g, Copied(f, h), f.mode = "reading", f.length = Total,
           g = h \/ g = [h EXCEPT !.result = "read"], g.result = "read"
    PROVE  g \in Readers /\ ReaderOk(g)
  <1>1. /\ h \in Readers /\ h.mode = "reading" /\ h.length = Total
    BY DEF Copied
  <1>2. /\ g \in Readers /\ g.mode = h.mode /\ g.length = h.length /\ g.offset = h.offset /\ g.from = h.from
        /\ g.got = h.got /\ g.want = h.want /\ g.asked = h.asked /\ g.pc = h.pc /\ g.rbuf = h.rbuf /\ g.chunk = h.chunk
    BY <1>1 DEF Readers
  <1>3. g.from \in Nat /\ g.offset \in Nat /\ g.from <= g.offset /\ g.got = Bytes(g.from + 1, g.offset)
    BY <1>1, <1>2 DEF Copied, Readers
  <1>4. g.offset = g.from + Len(g.got)
    <2> DEFINE a == g.from + 1
               b == g.offset
    <2>1. a \in Nat /\ b \in Nat /\ b >= a - 1 /\ g.got = Bytes(a, b)
      BY <1>3
    <2> HIDE DEF a, b
    <2>2. Len(Bytes(a, b)) = IF b >= a THEN b - a + 1 ELSE 0
      BY <2>1, BytesFacts
    <2>3. Len(g.got) = b - a + 1
      BY <2>1, <2>2
    <2> QED BY <1>3, <2>3 DEF a, b
  <1>5. g.got = Bytes(g.from + 1, g.from + Len(g.got))
    BY <1>3, <1>4
  <1> QED BY <1>1, <1>2, <1>3, <1>5 DEF Copied, ReaderOk

(* Read, up to the first chunk that is not there.                          *)
LEMMA ReadKeeps == ASSUME IInv, NEW k \in C.reads, Read(k) PROVE IInv'
  <1>1. /\ CanUse /\ UNCHANGED <<config, chunks, files, w, inserts, cache, remover, faults>>
    BY DEF Read
  <1>2. r.mode = "reading" /\ r.pc = "idle" /\ r.result # "failed"
    BY <1>1 DEF CanUse
  <1>3. /\ r \in Readers /\ Settled /\ Size \in Nat \ {0} /\ r.offset \in Nat /\ r.length \in Nat /\ r.ops \in Nat
        /\ r.chunk \in Nat
    BY <1>2, ReaderFacts
  <1>4. k \in Nat \ {0}
    BY ScenarioFacts DEF IInv, TypeInv
  <1> DEFINE none == <<>>
             n == r.ops + 1
             o == r.offset
             f == [r EXCEPT !.ops = n, !.want = k, !.asked = k, !.got = none, !.from = o]
  <1>5. r' = IF r.offset = r.length THEN [f EXCEPT !.result = "EOF"] ELSE [Copy(f) EXCEPT !.result = "read"]
    BY DEF Read
  <1>6. n \in Nat /\ none \in Seq(Nat) /\ o \in Nat /\ Len(none) = 0
    BY <1>3
  <1> HIDE DEF n, none, o
  <1>7. /\ f \in Readers /\ f.want = k /\ f.asked = k /\ f.got = none /\ f.from = o /\ f.mode = r.mode
        /\ f.offset = r.offset /\ f.length = r.length /\ f.rbuf = r.rbuf /\ f.chunk = r.chunk /\ f.pc = r.pc
        /\ f.result = r.result
    BY <1>3, <1>4, <1>6 DEF Readers
  <1> HIDE DEF f
  <1>8. none = Bytes(o + 1, o)
    <2> DEFINE a == o + 1
    <2>1. a \in Nat /\ o < a
      BY <1>6
    <2> HIDE DEF a
    <2>2. Bytes(a, o) = <<>>
      BY <1>6, <2>1, BytesFacts
    <2> QED BY <2>2 DEF a, none
  <1>9. r.length = Total /\ r.offset <= r.length
    BY <1>2 DEF IInv, ReaderInv, ReaderOk
  <1>10. r' \in Readers /\ ReaderOk(r')
    <2>1. CASE r.offset = r.length
      <3>1. r' = [f EXCEPT !.result = "EOF"]
        BY <1>5, <2>1
      <3>2. /\ r' \in Readers /\ r'.got = none /\ r'.from = o /\ r'.mode = "reading" /\ r'.result = "EOF"
            /\ r'.offset = r.length /\ r'.length = r.length /\ r'.pc = "idle"
        BY <1>2, <1>7, <2>1, <3>1 DEF Readers
      <3>3. r'.got = Bytes(r'.from + 1, r'.from + Len(r'.got))
        BY <1>6, <1>8, <3>2
      <3> QED BY <1>3, <1>9, <3>2, <3>3 DEF ReaderOk
    <2>2. CASE r.offset # r.length
      <3>1. r.offset < r.length
        BY <1>3, <1>9, <2>2
      <3>2. r.rbuf = Bytes(r.offset + 1, Smaller(At(r.chunk), r.length)) /\ r.offset <= At(r.chunk)
        BY <1>2, <3>1 DEF IInv, ReaderInv, ReaderOk
      <3>3. CanCopy(f)
        BY <1>3, <1>4, <1>6, <1>7, <1>8, <1>9, <3>1, <3>2 DEF CanCopy, o
      <3>4. Copied(f, Copy(f))
        BY <1>3, <1>7, <3>3, CopyIsRight
      <3>5. r' = [Copy(f) EXCEPT !.result = "read"]
        BY <1>5, <2>2
      <3>6. r'.result = "read"
        BY <3>4, <3>5 DEF Copied, Readers
      <3> QED BY <1>2, <1>7, <1>9, <3>4, <3>5, <3>6, CopiedIsRight
    <2> QED BY <2>1, <2>2
  <1> QED BY <1>1, <1>3, <1>10, ReaderSteps DEF FaultMove, Works

(* What follows a place in a run of bytes.                                 *)
TailOf(o, e, p) == {o, e, p} \subseteq Nat /\ o <= p /\ p <= e

(* It is what Seek keeps of the chunk at hand.                             *)
LEMMA BytesTail ==
    \A o, e, p : TailOf(o, e, p) =>
      SubSeq(Bytes(o + 1, e), p - o + 1, Len(Bytes(o + 1, e))) = Bytes(p + 1, e)
  <1> SUFFICES ASSUME NEW o, NEW e, NEW p, TailOf(o, e, p)
               PROVE  SubSeq(Bytes(o + 1, e), p - o + 1, Len(Bytes(o + 1, e))) = Bytes(p + 1, e)
    OBVIOUS
  <1>1. o \in Nat /\ e \in Nat /\ p \in Nat /\ o <= p /\ p <= e
    BY DEF TailOf
  <1> DEFINE a == o + 1
             m == p - o + 1
             c == p + 1
             n == Len(Bytes(a, e))
  <1>2. a \in Nat \ {0} /\ m \in Nat \ {0} /\ c \in Nat /\ c = a + m - 1 /\ e + 1 >= a
    BY <1>1
  <1> HIDE DEF a, m, c
  <1>3. n = IF e >= a THEN e - a + 1 ELSE 0
    BY <1>1, <1>2, BytesFacts
  <1>4. n \in Nat /\ e = a + n - 1
    BY <1>1, <1>2, <1>3
  <1>5. IsPart(a, e, m, n, c, e)
    BY <1>1, <1>2, <1>4 DEF IsPart
  <1>6. SubSeq(Bytes(a, e), m, n) = Bytes(c, e)
    BY <1>5, BytesSub
  <1> QED BY <1>6 DEF a, m, c

(* The chunk in which a byte is.                                           *)
LEMMA ChunkOf ==
    ASSUME Size \in Nat \ {0}, NEW p \in Nat
    PROVE  /\ p \div Size \in Nat
           /\ At(p \div Size) <= p /\ p < At((p \div Size) + 1)
  <1> DEFINE s == Size
             q == p \div s
             m == p % s
  <1>1. s \in Nat \ {0}
    OBVIOUS
  <1> HIDE DEF s
  <1>2. p = s * q + m /\ m \in 0..(s - 1) /\ q \in Nat
    BY <1>1, DivMod
  <1> HIDE DEF q, m
  <1>3. q * s = s * q /\ q * s \in Nat
    <2>1. q * s \in Nat
      BY <1>1, <1>2, Multiples
    <2>2. q * s = s * q
      BY <1>1, <1>2, Z3
    <2> QED BY <2>1, <2>2
  <1>4. At(q) = q * s /\ At(q + 1) = At(q) + s
    BY <1>1, <1>2, AtFacts DEF At, s
  <1>5. At(q) <= p /\ p < At(q + 1)
    BY <1>1, <1>2, <1>3, <1>4
  <1> QED BY <1>2, <1>5 DEF q, s

(* Seek.                                                                   *)
LEMMA SeekKeeps == ASSUME IInv, NEW p \in 0..(r.length + 1), Seek(p) PROVE IInv'
  <1>1. /\ CanUse /\ UNCHANGED <<config, chunks, files, w, inserts, cache, remover, faults>>
    BY DEF Seek
  <1>2. r.mode = "reading" /\ r.pc = "idle" /\ r.result # "failed"
    BY <1>1 DEF CanUse
  <1>3. /\ r \in Readers /\ Settled /\ Size \in Nat \ {0} /\ C.chunkSize = Size /\ r.offset \in Nat /\ r.length \in Nat
        /\ r.ops \in Nat /\ r.chunk \in Nat /\ r.rbuf \in Seq(Nat)
    BY <1>2, ReaderFacts
  <1>4. p \in Nat
    BY <1>3
  <1> DEFINE n == r.ops + 1
             none == <<>>
             k == p \div C.chunkSize
             j == p - r.offset + 1
             tail == SubSeq(r.rbuf, j, Len(r.rbuf))
             f == [r EXCEPT !.ops = n, !.result = "seek"]
  <1>5. r' = IF p > r.length THEN f
             ELSE IF p = r.length THEN [f EXCEPT !.offset = p]
             ELSE IF k + 1 = r.chunk /\ p >= r.offset
             THEN [f EXCEPT !.offset = p, !.rbuf = tail]
             ELSE [f EXCEPT !.offset = p, !.chunk = k, !.rbuf = none, !.pc = "seek"]
    BY DEF Seek, Readers
  <1>6. n \in Nat /\ none \in Seq(Nat) /\ k \in Nat /\ At(k) <= p /\ p < At(k + 1)
    <2>1. k = p \div Size
      BY <1>3
    <2> HIDE DEF k
    <2>2. k \in Nat /\ At(k) <= p /\ p < At(k + 1)
      BY <1>3, <1>4, <2>1, ChunkOf
    <2> QED BY <1>3, <2>2
  <1> HIDE DEF n, none, k, tail
  <1>7. /\ r.length = Total /\ r.offset <= r.length
        /\ r.got = Bytes(r.from + 1, r.from + Len(r.got))
        /\ (r.offset < r.length =>
              r.rbuf = Bytes(r.offset + 1, Smaller(At(r.chunk), r.length)) /\ r.offset <= At(r.chunk))
    BY <1>2 DEF IInv, ReaderInv, ReaderOk
  <1>8. r' \in Readers /\ ReaderOk(r')
    <2>1. CASE p > r.length
      <3>1. r' = [r EXCEPT !.ops = n, !.result = "seek"]
        BY <1>5, <2>1
      <3>2. /\ r' \in Readers /\ r'.mode = "reading" /\ r'.pc = "idle" /\ r'.result = "seek" /\ r'.offset = r.offset
            /\ r'.length = r.length /\ r'.got = r.got /\ r'.from = r.from /\ r'.rbuf = r.rbuf /\ r'.chunk = r.chunk
        BY <1>2, <1>3, <1>6, <3>1 DEF Readers
      <3> QED BY <1>7, <3>2 DEF ReaderOk
    <2>2. CASE p = r.length
      <3>1. r' = [r EXCEPT !.ops = n, !.result = "seek", !.offset = p]
        BY <1>3, <1>4, <1>5, <2>2
      <3>2. /\ r' \in Readers /\ r'.mode = "reading" /\ r'.pc = "idle" /\ r'.result = "seek" /\ r'.offset = p
            /\ r'.length = r.length /\ r'.got = r.got /\ r'.from = r.from
        BY <1>2, <1>3, <1>4, <1>6, <3>1 DEF Readers
      <3>3. r'.offset <= r'.length /\ ~(r'.offset < r'.length)
        BY <1>3, <2>2, <3>2
      <3> QED BY <1>7, <3>2, <3>3 DEF ReaderOk
    <2>3. CASE p < r.length /\ k + 1 = r.chunk /\ p >= r.offset
      <3> DEFINE o == r.offset
                 e == Smaller(At(r.chunk), r.length)
      <3>1. r' = [r EXCEPT !.ops = n, !.result = "seek", !.offset = p, !.rbuf = tail]
        BY <1>3, <1>4, <1>5, <2>3
      <3>2. o < r.length /\ r.rbuf = Bytes(o + 1, e)
        BY <1>3, <1>4, <1>7, <2>3
      <3>3. TailOf(o, e, p)
        <4>1. At(r.chunk) \in Nat /\ p < At(r.chunk)
          BY <1>3, <1>6, <2>3, AtFacts
        <4>2. e \in Nat /\ p <= e
          BY <1>3, <1>4, <2>3, <4>1 DEF Smaller
        <4> QED BY <1>3, <1>4, <2>3, <4>2 DEF TailOf
      <3> HIDE DEF o, e
      <3>4. SubSeq(Bytes(o + 1, e), p - o + 1, Len(Bytes(o + 1, e))) = Bytes(p + 1, e)
        BY <3>3, BytesTail
      <3>5. tail = Bytes(p + 1, e)
        BY <3>2, <3>4 DEF tail, o
      <3>6. tail \in Seq(Nat)
        <4>1. p + 1 \in Nat /\ e \in Nat
          BY <3>3 DEF TailOf
        <4> QED BY <3>5, <4>1, BytesFacts
      <3>7. /\ r' \in Readers /\ r'.mode = "reading" /\ r'.pc = "idle" /\ r'.result = "seek" /\ r'.offset = p
            /\ r'.length = r.length /\ r'.got = r.got /\ r'.from = r.from /\ r'.rbuf = tail /\ r'.chunk = r.chunk
        BY <1>2, <1>3, <1>4, <1>6, <3>1, <3>6 DEF Readers
      <3>8. r'.rbuf = Bytes(r'.offset + 1, Smaller(At(r'.chunk), r'.length)) /\ r'.offset <= At(r'.chunk)
        <4>1. At(r.chunk) \in Nat /\ p < At(r.chunk)
          BY <1>3, <1>6, <2>3, AtFacts
        <4>2. p <= At(r.chunk)
          BY <1>4, <4>1
        <4> QED BY <3>5, <3>7, <4>2 DEF e
      <3>9. r'.offset <= r'.length
        BY <1>3, <1>4, <2>3, <3>7
      <3> QED BY <1>7, <3>7, <3>8, <3>9 DEF ReaderOk
    <2>4. CASE p < r.length /\ ~(k + 1 = r.chunk /\ p >= r.offset)
      <3>1. r' = [r EXCEPT !.ops = n, !.result = "seek", !.offset = p, !.chunk = k, !.rbuf = none, !.pc = "seek"]
        BY <1>3, <1>4, <1>5, <2>4
      <3>2. /\ r' \in Readers /\ r'.mode = "reading" /\ r'.pc = "seek" /\ r'.result = "seek" /\ r'.offset = p
            /\ r'.length = r.length /\ r'.got = r.got /\ r'.from = r.from /\ r'.chunk = k
        BY <1>2, <1>3, <1>4, <1>6, <3>1 DEF Readers
      <3>3. r'.offset <= r'.length /\ r'.offset < r'.length
        BY <1>3, <1>4, <2>4, <3>2
      <3> QED BY <1>6, <1>7, <3>2, <3>3 DEF ReaderOk
    <2> QED BY <1>3, <1>4, <2>1, <2>2, <2>3, <2>4
  <1> QED BY <1>1, <1>3, <1>8, ReaderSteps DEF FaultMove, Works

(* The chunk the reader waits for makes it right, as does an error.        *)
LEMMA GotIsRight ==
    ASSUME IInv, r.pc \in {"read", "seek"}
    PROVE  LET g == Got(r, Piece(r.chunk), FALSE) IN g \in Readers /\ ReaderOk(g)
  <1>1. /\ r \in Readers /\ Size \in Nat \ {0} /\ C.chunkSize = Size /\ Total \in Nat /\ r.mode = "reading"
        /\ r.offset \in Nat /\ r.length \in Nat /\ r.chunk \in Nat
    BY ReaderFacts
  <1> DEFINE n == r.chunk
             n1 == n + 1
             top == At(n1)
             e == Smaller(top, r.length)
             o == At(n)
             d == Bytes(o + 1, e)
             f == [r EXCEPT !.chunk = n1, !.rbuf = d]
  <1>2. n \in Nat /\ n1 \in Nat /\ top \in Nat /\ o \in Nat /\ top = o + Size /\ n1 = n + 1
    BY <1>1, AtFacts
  <1>3. r.length = Total /\ r.offset <= r.length /\ r.got = Bytes(r.from + 1, r.from + Len(r.got))
    BY <1>1 DEF IInv, ReaderInv, ReaderOk
  <1>4. d = Piece(r.chunk)
    BY <1>3 DEF Piece
  <1> HIDE DEF n1, top
  <1>5. e \in Nat /\ (e = top \/ e = r.length) /\ e <= top /\ e <= r.length
    BY <1>1, <1>2 DEF Smaller
  <1>6. d \in Seq(Nat)
    <2> DEFINE a == o + 1
    <2>1. a \in Nat /\ d = Bytes(a, e)
      BY <1>2
    <2> HIDE DEF a, d, e
    <2> QED BY <1>5, <2>1, BytesFacts
  <1> HIDE DEF o, d
  <1>7. /\ f \in Readers /\ f.mode = "reading" /\ f.result = r.result /\ f.length = r.length /\ f.chunk = n1
        /\ f.rbuf = d /\ f.pc = r.pc /\ f.want = r.want /\ f.asked = r.asked /\ f.got = r.got /\ f.from = r.from
        /\ f.offset = r.offset
    BY <1>1, <1>2, <1>6 DEF Readers
  <1>8. CASE r.pc = "read"
    <2>1. /\ r.result = "read" /\ r.offset < r.length /\ r.offset = o /\ r.want > 0
          /\ r.from <= r.offset /\ r.got = Bytes(r.from + 1, r.offset)
          /\ r.want + (r.offset - r.from) = r.asked
      BY <1>1, <1>8 DEF IInv, ReaderInv, ReaderOk, o
    <2>2. Got(r, d, FALSE) = Copy(f)
      BY <1>2, <1>8 DEF Got, n1
    <2> HIDE DEF f
    <2>3. CanCopy(f)
      <3>1. f.rbuf = Bytes(f.offset + 1, Smaller(At(f.chunk), f.length))
        BY <1>7, <2>1 DEF d, top
      <3>2. f.offset <= At(f.chunk)
        BY <1>1, <1>2, <1>7, <2>1 DEF top
      <3> QED BY <1>3, <1>7, <2>1, <3>1, <3>2 DEF CanCopy
    <2>4. Copied(f, Copy(f))
      BY <1>1, <1>7, <2>3, CopyIsRight
    <2>5. Copy(f).result = "read"
      BY <1>7, <2>1, <2>4 DEF Copied
    <2>6. Copy(f) \in Readers /\ ReaderOk(Copy(f))
      BY <1>3, <1>7, <2>4, <2>5, CopiedIsRight
    <2> QED BY <1>4, <2>2, <2>6
  <1>9. CASE r.pc = "seek"
    <2> DEFINE p == r.offset
               tail == SubSeq(d, p - o + 1, Len(d))
               g == [r EXCEPT !.chunk = n1, !.rbuf = tail, !.pc = "idle"]
    <2>1. r.result = "seek" /\ p < r.length /\ o <= p /\ p < top
      BY <1>1, <1>9 DEF IInv, ReaderInv, ReaderOk, o, top, n1
    <2>2. Got(r, d, FALSE) = g
      <3>1. r.chunk * C.chunkSize = o
        BY <1>1 DEF o, At
      <3> QED BY <1>1, <1>9, <3>1 DEF Got, Readers, n1
    <2>3. TailOf(o, e, p)
      BY <1>1, <1>2, <1>5, <2>1 DEF TailOf
    <2> HIDE DEF e
    <2>4. SubSeq(Bytes(o + 1, e), p - o + 1, Len(Bytes(o + 1, e))) = Bytes(p + 1, e)
      BY <2>3, BytesTail
    <2>5. tail = Bytes(p + 1, e)
      BY <2>4 DEF d
    <2>6. tail \in Seq(Nat)
      <3>1. p + 1 \in Nat
        BY <1>1
      <3> HIDE DEF tail
      <3> QED BY <1>5, <2>5, <3>1, BytesFacts
    <2> HIDE DEF tail
    <2>7. /\ g \in Readers /\ g.mode = "reading" /\ g.result = "seek" /\ g.length = r.length /\ g.chunk = n1
          /\ g.rbuf = tail /\ g.pc = "idle" /\ g.got = r.got /\ g.from = r.from /\ g.offset = p
      BY <1>1, <1>2, <2>1, <2>6 DEF Readers
    <2> HIDE DEF g
    <2>8. g.rbuf = Bytes(g.offset + 1, Smaller(At(g.chunk), g.length)) /\ g.offset <= At(g.chunk)
      <3>1. p <= top
        BY <1>1, <1>2, <2>1
      <3> QED BY <2>5, <2>7, <3>1 DEF e, top
    <2>9. ReaderOk(g)
      BY <1>3, <2>1, <2>7, <2>8 DEF ReaderOk
    <2> QED BY <1>4, <2>2, <2>7, <2>9
  <1> QED BY <1>8, <1>9

(* After an error the reader keeps what it has read.                       *)
LEMMA ErrorIsRight ==
    ASSUME IInv, r.pc \in {"read", "seek"}
    PROVE  LET g == Got(r, <<>>, TRUE) IN g \in Readers /\ ReaderOk(g)
  <1>1. r \in Readers /\ r.mode = "reading" /\ r.chunk \in Nat
    BY ReaderFacts
  <1> DEFINE n1 == r.chunk + 1
             none == <<>>
             g == [r EXCEPT !.chunk = n1, !.rbuf = none, !.result = "failed", !.pc = "idle"]
  <1>2. n1 \in Nat /\ none \in Seq(Nat)
    BY <1>1
  <1>3. Got(r, <<>>, TRUE) = g
    BY DEF Got
  <1> HIDE DEF n1, none
  <1>4. /\ g \in Readers /\ g.mode = "reading" /\ g.result = "failed" /\ g.pc = "idle" /\ g.length = r.length
        /\ g.offset = r.offset /\ g.got = r.got /\ g.from = r.from
    BY <1>1, <1>2 DEF Readers
  <1> HIDE DEF g
  <1>5. ReaderOk(g)
    BY <1>1, <1>4 DEF IInv, ReaderInv, ReaderOk
  <1> QED BY <1>3, <1>4, <1>5

(* getChunk.                                                               *)
LEMMA GetChunkKeeps == ASSUME IInv, getChunk PROVE IInv'
  <1>1. /\ r.pc \in {"read", "seek"} /\ UNCHANGED <<config, chunks, files, w, inserts, remover>>
        /\ cache' = IF (r.chunk + 1) * C.chunkSize < r.length
                    THEN [n |-> r.chunk + 1, state |-> "pending", data |-> <<>>] ELSE NoCache
    BY DEF getChunk
  <1>2. /\ Settled /\ Size \in Nat \ {0} /\ Total \in Nat /\ r.chunk \in Nat
    BY <1>1, ReaderFacts
  <1>3. cache' \in Caches /\ cache'.state # "filled"
    BY <1>1, <1>2 DEF NoCache, Caches
  <1>4. FaultMove
    BY KindsFacts DEF getChunk, FaultMove
  <1>5. r' = Got(r, Piece(r.chunk), FALSE) \/ r' = Got(r, <<>>, TRUE)
    <2>1. CASE cache.n = r.chunk /\ cache.state = "filled" /\ r' = Got(r, cache.data, FALSE)
      <3>1. cache.data = Piece(r.chunk)
        BY <2>1 DEF IInv, CacheInv
      <3> QED BY <2>1, <3>1
    <2>2. CASE r.chunk \in DOMAIN chunks /\ r' = Got(r, chunks[r.chunk], FALSE)
      <3>1. chunks[r.chunk] = Piece(r.chunk)
        BY <1>2, <2>2 DEF Settled
      <3> QED BY <2>2, <3>1
    <2> QED BY <2>1, <2>2 DEF getChunk
  <1>6. r' \in Readers /\ ReaderOk(r')
    BY <1>1, <1>5, GotIsRight, ErrorIsRight
  <1> QED BY <1>1, <1>2, <1>3, <1>4, <1>6, ReaderSteps

(* The goroutine of getChunk.                                              *)
LEMMA CacheChunkKeeps == ASSUME IInv, cacheChunk PROVE IInv'
  <1>1. cache.state = "pending" /\ UNCHANGED <<config, chunks, files, w, inserts, r, remover>>
    BY DEF cacheChunk
  <1>2. Settled /\ cache \in Caches /\ r \in Readers /\ IsStore(chunks)
    BY <1>1 DEF IInv, SettledInv, TypeInv
  <1>3. FaultMove
    BY KindsFacts DEF cacheChunk, FaultMove
  <1>4. Total' = Total /\ \A k : Piece(k)' = Piece(k) /\ At(k)' = At(k)
    BY <1>1, Constants
  <1>5. cache' \in Caches /\ CacheInv'
    <2>1. CASE cache.n \in DOMAIN chunks /\ cache' = [cache EXCEPT !.state = "filled", !.data = chunks[cache.n]]
      <3> DEFINE d == chunks[cache.n]
      <3>1. d \in Seq(Nat) /\ d = Piece(cache.n) /\ cache.n \in Nat
        BY <1>2, <2>1 DEF Settled, IsStore
      <3> HIDE DEF d
      <3>2. cache' = [cache EXCEPT !.state = "filled", !.data = d]
        BY <2>1 DEF d
      <3>3. cache' \in Caches /\ cache'.n = cache.n /\ cache'.data = d
        BY <1>2, <3>1, <3>2 DEF Caches
      <3>4. PICK n \in Nat : n = cache.n
        BY <3>1
      <3> QED BY <1>4, <3>1, <3>3, <3>4 DEF CacheInv
    <2>2. CASE cache' = [cache EXCEPT !.state = "failed"]
      <3>1. cache' \in Caches /\ cache'.state = "failed"
        BY <1>2, <2>2 DEF Caches
      <3> QED BY <3>1 DEF CacheInv
    <2> QED BY <2>1, <2>2 DEF cacheChunk
  <1>6. ReaderInv'
    BY <1>1, <1>4 DEF IInv, ReaderInv, ReaderOk
  <1>7. ReaderMove
    BY <1>1, <1>2, <1>3, <1>5 DEF ReaderMove
  <1> QED BY <1>5, <1>6, <1>7, ReaderMoves

-----------------------------------------------------------------------------
(* The theorems.                                                           *)

(* What is there at first is whole.                                        *)
LEMMA InitIsRight == ASSUME Init PROVE IInv
  <1>1. /\ config \in DOMAIN Scenarios /\ chunks = ChunksOf(C.length, C.chunkSize)
        /\ files = (IF C.length > 0 THEN {[length |-> C.length, md5 |-> Bytes(1, C.length)]} ELSE {})
        /\ w = Closed /\ r = Closed /\ inserts = NoChunks /\ cache = NoCache /\ remover = "idle"
        /\ faults = <<>>
    BY DEF Init
  <1>2. Size \in Nat \ {0} /\ C.chunkSize = Size /\ C.length \in Nat /\ C.faults \in Nat
    BY <1>1, ScenarioFacts
  <1>3. /\ Closed.mode = "closed" /\ Closed.err = "nil" /\ Closed.chunk = 0 /\ Closed.offset = 0
        /\ Closed.wpending = 0 /\ Closed.wbuf = <<>> /\ Closed.rbuf = <<>> /\ Closed.length = 0
        /\ Closed.pc = "idle" /\ Closed.result = "none" /\ Closed.got = <<>> /\ Closed.from = 0
        /\ Closed.wsum = <<>>
    BY DEF Closed
  <1>4. Closed \in Writers /\ Closed \in Readers
    <2> DEFINE none == <<>>
    <2>1. none \in Seq(Nat)
      OBVIOUS
    <2>2. Closed =
            [mode |-> "closed", err |-> "nil", chunk |-> 0, offset |-> 0, wpending |-> 0, wbuf |-> none,
             wsum |-> none, rbuf |-> none, length |-> 0, pc |-> "idle", wait |-> "no", data |-> none, rest |-> none,
             result |-> "none", ops |-> 0, want |-> 0, asked |-> 0, got |-> none, from |-> 0]
      BY DEF Closed
    <2> HIDE DEF none
    <2>3. Closed \in Writers
      BY <2>1, <2>2 DEF Writers, WErrs, WPcs
    <2>4. Closed \in Readers
      BY <2>1, <2>2 DEF Readers, WErrs
    <2> QED BY <2>3, <2>4
  <1>5. Total = C.length
    BY <1>1, <1>2, <1>3 DEF Total
  <1>6. files = (IF C.length > 0 THEN {TheDocument} ELSE {})
    BY <1>1, <1>5 DEF TheDocument
  <1>7. /\ IsStore(chunks) /\ \A n \in DOMAIN chunks : chunks[n] = Piece(n)
    <2> DEFINE n0 == (C.length + Size - 1) \div Size
    <2>1. chunks = [n \in 0..(n0 - 1) |-> Piece(n)]
      BY <1>1, <1>2, <1>5 DEF ChunksOf, Piece, At
    <2>2. \A n \in Nat : Piece(n) \in Seq(Nat)
      BY <1>2, <1>5, PieceFacts
    <2> HIDE DEF n0
    <2>3. DOMAIN chunks = 0..(n0 - 1) /\ \A n \in DOMAIN chunks : n \in Nat /\ chunks[n] = Piece(n)
      BY <2>1
    <2>4. chunks = [n \in DOMAIN chunks |-> chunks[n]]
      BY <2>1
    <2> QED BY <2>2, <2>3, <2>4 DEF IsStore
  <1>8. C.length = 0 => chunks = NoChunks
    <2> SUFFICES ASSUME C.length = 0 PROVE chunks = NoChunks
      OBVIOUS
    <2>1. At(0) = 0
      BY <1>2, AtFacts
    <2>2. (0 + Size - 1) \div Size = 0
      BY <1>2, <2>1, CountOfChunks
    <2>3. DOMAIN chunks = 0..(0 - 1)
      BY <1>1, <1>2, <2>2 DEF ChunksOf
    <2>4. DOMAIN chunks = {}
      BY <2>3
    <2> QED BY <1>7, <2>4, EmptyStore
  <1>9. DOMAIN inserts = {} /\ IsStore(inserts) /\ IsFiniteSet(DOMAIN inserts) /\ Cardinality(DOMAIN inserts) = 0
    BY <1>1, NoChunksFacts, FS_EmptySet
  <1>10. faults \in Seq(Kinds) /\ Len(faults) <= C.faults /\ \A k : ~Happened(k)
    BY <1>1, <1>2 DEF Happened
  <1>11. TypeInv
    <2>1. cache \in Caches
      <3> DEFINE none == <<>>
      <3>1. none \in Seq(Nat) /\ -1 \in Int
        OBVIOUS
      <3>2. cache = [n |-> -1, state |-> "none", data |-> none]
        BY <1>1 DEF NoCache
      <3> HIDE DEF none
      <3> QED BY <3>1, <3>2 DEF Caches
    <2>2. files \subseteq {TheDocument}
      BY <1>6
    <2> QED BY <1>1, <1>4, <1>7, <1>9, <1>10, <2>1, <2>2 DEF TypeInv
  <1>12. BookInv
    <2>1. ~InChunk
      BY <1>1, <1>3 DEF InChunk
    <2>2. Len(w.wbuf) = 0 /\ 0 <= Size /\ w.wbuf = <<>>
      BY <1>1, <1>2, <1>3
    <2>3. w.mode = "closed" /\ w.pc = "idle" /\ w.result = "none" /\ w.wpending = 0 /\ w = Closed
      BY <1>1, <1>3
    <2>4. Counted
      BY <1>9, <2>3 DEF Counted
    <2> QED BY <1>9, <2>1, <2>2, <2>3, <2>4 DEF BookInv
  <1>13. ShapeInv
    BY <1>1, <1>3 DEF ShapeInv
  <1>14. SettledInv
    <2>1. r.mode # "reading" /\ cache.state = "none" /\ remover = "idle"
      BY <1>1, <1>3 DEF NoCache
    <2>2. files # {} => C.length > 0
      BY <1>6
    <2> QED BY <1>1, <1>3, <1>7, <2>1, <2>2 DEF SettledInv, Settled
  <1>15. OutcomeInv
    <2>1. files # {} => C.length > 0
      BY <1>6
    <2>2. files = {} => C.length = 0
      BY <1>2, <1>6
    <2>3. w.mode = "closed" /\ w.result = "none" /\ remover = "idle"
      BY <1>1, <1>3
    <2> QED BY <1>1, <1>2, <1>5, <1>8, <2>1, <2>2, <2>3 DEF OutcomeInv
  <1>16. ReaderInv
    <2>1. r.offset = 0 /\ r.length = 0 /\ r.mode = "closed" /\ r.result = "none" /\ r = Closed /\ r.pc = "idle"
      BY <1>1, <1>3
    <2>2. r.got = Bytes(r.from + 1, r.from + Len(r.got))
      <3>1. r.got = <<>> /\ r.from = 0 /\ Len(r.got) = 0
        BY <1>1, <1>3
      <3>2. Bytes(1, 0) = <<>>
        BY BytesFacts
      <3> QED BY <3>1, <3>2
    <2> QED BY <2>1, <2>2 DEF ReaderInv, ReaderOk
  <1>17. CacheInv
    BY <1>1 DEF CacheInv, NoCache
  <1> QED BY <1>11, <1>12, <1>13, <1>14, <1>15, <1>16, <1>17 DEF IInv

(* Each step of the callers, the goroutines and the server keeps it.       *)
LEMMA StepKeeps == ASSUME IInv, [Next]_vars PROVE IInv'
  <1>1. CASE Callers
    <2>1. CASE \E k \in C.writes : Write(k)
      BY <2>1, WriteKeeps
    <2>2. CASE \E k \in C.reads : Read(k)
      BY <2>2, ReadKeeps
    <2>3. CASE \E offset \in 0..(r.length + 1) : Seek(offset)
      BY <2>3, SeekKeeps
    <2> QED
      BY <1>1, <2>1, <2>2, <2>3, CreateKeeps, AbortKeeps, CloseWriterKeeps, OpenKeeps, CloseReaderKeeps, RemoveIdKeeps
      DEF Callers
  <1>2. CASE Writer
    BY <1>2, SplitKeeps, WaitsKeeps, InsertKeeps, MarshalFailsKeeps, GivesUpKeeps, CompleteWriteKeeps,
       CleanupKeeps DEF Writer
  <1>3. ASSUME NEW n \in Numbers, Inserter(n) PROVE IInv'
    <2>1. n \in DOMAIN inserts
      BY <1>3 DEF Inserter, chunkStored, chunkFails, chunkUnknown
    <2>2. CASE chunkStored(n)
      <3>1. Inserted(n, TRUE, "nil") /\ FaultMove
        BY <2>2 DEF chunkStored, FaultMove
      <3> QED BY <2>1, <3>1, InsertedKeeps
    <2>3. CASE chunkFails(n)
      <3>1. Inserted(n, FALSE, "net") /\ FaultMove
        BY <2>3, KindsFacts DEF chunkFails
      <3> QED BY <2>1, <3>1, InsertedKeeps
    <2>4. CASE chunkUnknown(n)
      <3>1. Inserted(n, TRUE, "net") /\ FaultMove
        BY <2>4, KindsFacts DEF chunkUnknown
      <3> QED BY <2>1, <3>1, InsertedKeeps
    <2> QED BY <1>3, <2>2, <2>3, <2>4 DEF Inserter
  <1>4. CASE UNCHANGED vars
    <2>1. /\ UNCHANGED <<config, chunks, files, w, inserts, r, cache, remover, faults>>
      BY <1>4 DEF vars
    <2>2. /\ C' = C /\ Size' = Size /\ Total' = Total /\ (\A k : Piece(k)' = Piece(k)) /\ \A k : At(k)' = At(k)
      BY <2>1, Constants
    <2>3. /\ TheDocument' = TheDocument /\ Document' = Document /\ (InChunk' <=> InChunk)
          /\ \A k : Happened(k)' <=> Happened(k)
      BY <2>1, <2>2 DEF TheDocument, Document, InChunk, Happened
    <2>4. TypeInv' /\ BookInv'
      BY <2>1, <2>2, <2>3 DEF IInv, TypeInv, BookInv, Counted
    <2>5. ShapeInv'
      BY <2>1, <2>2, <2>3 DEF IInv, ShapeInv, Kept
    <2>6. Settled' <=> Settled
      BY <2>1, <2>2 DEF Settled
    <2>7. OutcomeInv'
      BY <2>1, <2>2, <2>3 DEF IInv, OutcomeInv
    <2>8. ReaderInv' /\ CacheInv'
      BY <2>1, ReaderStays
    <2> QED BY <2>1, <2>4, <2>5, <2>6, <2>7, <2>8 DEF IInv, SettledInv
  <1> QED BY <1>1, <1>2, <1>3, <1>4, GetChunkKeeps, CacheChunkKeeps, RemoveChunksKeeps DEF Next, Done

(* Whatever is written, read, sought, aborted and removed, however the     *)
(* insertions of chunks and the fetching of the next one are interleaved   *)
(* with it and whichever requests fail, the state of GridFile and of the   *)
(* collections stays as described above.                                   *)
THEOREM InvariantHolds == Spec => []IInv
  <1>1. Init => IInv
    BY InitIsRight
  <1>2. IInv /\ [Next]_vars => IInv'
    BY StepKeeps
  <1> QED BY <1>1, <1>2, PTL DEF Spec

(* The parts of FilesAreWhole.                                             *)
LEMMA WholeFiles == IInv => FilesAreWhole
  <1> SUFFICES ASSUME IInv PROVE FilesAreWhole
    OBVIOUS
  <1>1. TypeOK
    <2>1. w \in Writers /\ r \in Readers /\ cache \in Caches
      BY DEF IInv, TypeInv
    <2>2. w.pc \in WPcs /\ w.wait \in {"no", "waiting", "woken"} /\ r.pc \in {"idle", "read", "seek"}
          /\ cache.state \in {"none", "pending", "filled", "failed"}
      BY <2>1 DEF Writers, Readers, Caches
    <2>3. r.offset \in 0..r.length
      <3>1. r.offset \in Nat /\ r.length \in Nat
        BY ReaderFacts
      <3>2. r.offset <= r.length
        BY DEF IInv, ReaderInv, ReaderOk
      <3> QED BY <3>1, <3>2
    <2>4. Len(w.wbuf) <= C.chunkSize /\ Counted /\ DOMAIN inserts \subseteq 0..(w.chunk - 1)
      BY TypeFacts DEF IInv, BookInv
    <2>6. IF C.badId THEN inserts = NoChunks ELSE w.wpending = Cardinality(DOMAIN inserts)
      BY <2>4 DEF Counted, IInv, TypeInv, IsStore, NoChunks
    <2>5. DOMAIN chunks \subseteq Nat
      BY DEF IInv, TypeInv, IsStore
    <2> QED BY <2>2, <2>3, <2>4, <2>5, <2>6 DEF IInv, TypeInv, TypeOK, WPcs
  <1>2. FileIsComplete
    <2> SUFFICES ASSUME ~Happened("document"), NEW d \in files
                 PROVE  chunks = ChunksOf(d.length, C.chunkSize) /\ d.md5 = Bytes(1, d.length)
      BY DEF FileIsComplete
    <2>1. d = TheDocument /\ d.length = Total /\ d.md5 = Bytes(1, Total)
      BY DEF IInv, TypeInv, TheDocument
    <2>2. chunks = ChunksOf(Total, Size) /\ C.chunkSize = Size
      BY TypeFacts DEF IInv, OutcomeInv
    <2> QED BY <2>1, <2>2
  <1>3. CloseTellsTheTruth
    <2> SUFFICES ASSUME w.mode = "closed", w.result # "none", remover = "idle", ~Happened("document")
                 PROVE  IF w.result = "nil" THEN files = {Document} ELSE files = {}
      BY DEF CloseTellsTheTruth
    <2>1. C.length = 0 /\ OutcomeInv
      BY DEF IInv, BookInv
    <2>2. w.result = "nil" => files = {TheDocument} /\ Document = TheDocument
      BY <2>1 DEF OutcomeInv
    <2>3. w.result # "nil" => files = {}
      BY <2>1 DEF OutcomeInv
    <2> QED BY <2>2, <2>3
  <1>4. NoOrphans
    BY DEF IInv, OutcomeInv, NoOrphans, AllClosed
  <1> QED BY <1>1, <1>2, <1>3, <1>4 DEF FilesAreWhole

(* Whoever finds the document that completeWrite inserted finds every      *)
(* chunk, whole and under its number, and the checksum of the bytes in     *)
(* their order; Close returns no error only if the document is there, and  *)
(* an error only if it is not, and a write that failed or was aborted      *)
(* leaves no chunk behind: for every chunk size, any number of pending     *)
(* insertChunk goroutines, and any failures.                               *)
THEOREM FilesAreWholeHolds == Spec => []FilesAreWhole
  BY InvariantHolds, WholeFiles, PTL

(* What the invariant says of a Read that has returned.                    *)
LEMMA RightBytes == IInv => ReadsRightBytes
  <1> SUFFICES ASSUME IInv, r.mode = "reading", r.pc = "idle", r.result \in {"read", "failed"}
               PROVE  /\ r.got = Bytes(r.from + 1, r.from + Len(r.got))
                      /\ r.result = "read" => Len(r.got) = Smaller(r.asked, r.length - r.from)
    BY DEF ReadsRightBytes
  <1>1. /\ r.offset \in Nat /\ r.length \in Nat /\ r.want \in Nat /\ r.from \in Nat /\ r.asked \in Nat
    BY ReaderFacts
  <1>2. r.got = Bytes(r.from + 1, r.from + Len(r.got)) /\ r.offset <= r.length
    BY DEF IInv, ReaderInv, ReaderOk
  <1>3. ASSUME r.result = "read" PROVE Len(r.got) = Smaller(r.asked, r.length - r.from)
    <2> DEFINE a == r.from + 1
               b == r.offset
    <2>1. /\ r.from <= b /\ r.got = Bytes(a, b) /\ r.want + (b - r.from) = r.asked
          /\ (r.want = 0 \/ b = r.length)
      BY <1>3 DEF IInv, ReaderInv, ReaderOk
    <2>2. a \in Nat /\ b \in Nat
      BY <1>1
    <2>3. Len(Bytes(a, b)) = IF b >= a THEN b - a + 1 ELSE 0
      BY <2>2, BytesFacts
    <2>4. Len(r.got) = b - r.from
      BY <1>1, <2>1, <2>3
    <2> QED BY <1>1, <1>2, <2>1, <2>4 DEF Smaller
  <1> QED BY <1>2, <1>3

(* Read returns the bytes from where it began, in order, none skipped and  *)
(* none twice, whatever was sought before and whatever getChunk had        *)
(* cached; without an error it fills the buffer or reaches the end.        *)
THEOREM ReadsRightBytesHolds == Spec => []ReadsRightBytes
  BY InvariantHolds, RightBytes, PTL
=============================================================================
