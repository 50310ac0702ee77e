----------------------------- MODULE PoolProofs -----------------------------
(***************************************************************************)
(* Proofs about Pool for any number of sessions, sockets and credentials,  *)
(* any pool limit and any operations: the count of references of a socket  *)
(* is that of its holders, the cache holds no socket that somebody uses,   *)
(* a closed server leaves none open, and nobody waits for a reply that     *)
(* will not come.                                                          *)
(***************************************************************************)
EXTENDS Pool, FiniteSetTheorems, SequenceTheorems, TLAPS

-----------------------------------------------------------------------------
(* The inductive invariant.                                                *)

Sources == {Creds[c] : c \in DOMAIN Creds}
Requests ==
    [kind : {"logout"}, dbs : SUBSET Sources]
      \cup [kind : {"query", "nonce", "login"}, by : Sessions, cred : DOMAIN Creds \cup {"none"},
            last : BOOLEAN]

SockRecs ==
    [references : Nat, dead : BOOLEAN, attached : BOOLEAN, abending : BOOLEAN, broken : BOOLEAN,
     nonce : BOOLEAN, master : BOOLEAN, creds : SUBSET DOMAIN Creds, logout : SUBSET DOMAIN Creds,
     replyFuncs : SUBSET Sessions, wire : Seq(Requests), auth : SUBSET DOMAIN Creds,
     lost : SUBSET Sources]
SesRecs ==
    [open : BOOLEAN, masterSocket : Sockets \cup {None}, slaveSocket : Sockets \cup {None},
     slaveOk : BOOLEAN, mode : Modes, creds : Seq(DOMAIN Creds), halfOut : SUBSET Sources]
HasSocket == {"initial", "append", "login", "loginNew", "flush", "write", "wait", "getNonce", "release"}
NoSocketYet == {"idle", "acquire", "connect", "releasing"}
Pcs == HasSocket \cup NoSocketYet \cup {"failed"}
GoRecs ==
    [pc : Pcs, op : {"none", "read", "write", "login"}, slaveOk : BOOLEAN, sock : Sockets \cup {None},
     master : BOOLEAN, pend : Seq(DOMAIN Creds), arg : DOMAIN Creds \cup {"none"},
     cred : DOMAIN Creds \cup {"none"}, req : {"query", "nonce", "login"}, round : Nat,
     ret : {"login", "loginNew"}, flushed : SUBSET Sources, cut : BOOLEAN, todo : Seq(Sockets),
     back : Sockets \cup {None}]
ServerRecs ==
    [closed : BOOLEAN, master : BOOLEAN, unused : Seq(Sockets), live : SUBSET Sockets,
     closing : SUBSET Sockets]

TypeInv ==
    /\ config \in DOMAIN Scenarios
    /\ server \in ServerRecs
    /\ sock \in [Sockets -> SockRecs]
    /\ ses \in [Sessions -> SesRecs]
    /\ go \in [Sessions -> GoRecs]
    /\ faults \in 0..C.faults

(* A request of the goroutine g is under way, or about to be.              *)
Talking(g) == g.pc \in {"flush", "write", "wait", "getNonce"}

(* The socket that a goroutine has just got from the pool logs in: nobody  *)
(* else can know of it yet.                                                *)
LoginPhase(g) ==
    \/ g.pc \in {"append", "login"}
    \/ Talking(g) /\ g.req # "query" /\ g.ret = "login"

(* What the fields of a goroutine say at each place of its code.           *)
GoOk(g) ==
    /\ g.pc \in HasSocket => g.sock \in Sockets
    /\ g.pc \in NoSocketYet => g.sock = None
    /\ g.pc # "releasing" => g.todo = <<>> /\ g.back = None
    /\ Len(g.todo) <= 2
    /\ Talking(g) /\ g.req # "query" => g.cred \in DOMAIN Creds
    /\ g.op = "login" => g.arg \in DOMAIN Creds
    /\ g.pc = "loginNew" \/ (Talking(g) /\ g.req # "query" /\ g.ret = "loginNew") => g.op = "login"
    /\ g.pc = "getNonce" => g.req = "nonce"
    /\ g.pc = "wait" => g.req # "nonce"

GoInv == \A s \in Sessions : GoOk(go[s])

SesInv ==
    \A s \in Sessions :
      /\ ~ses[s].open => ses[s].masterSocket = None /\ ses[s].slaveSocket = None
      /\ ses[s].masterSocket # None => ses[s].masterSocket # ses[s].slaveSocket
      /\ go[s].pc \in {"idle", "releasing"} \/ ses[s].open

(* A socket that nobody references is parked in one place: the cache, the  *)
(* hands of the goroutine that just took it out, or of the one that is     *)
(* about to put it back.                                                   *)
ParkInv ==
    /\ \A i, j \in DOMAIN server.unused : server.unused[i] = server.unused[j] => i = j
    /\ \A i \in DOMAIN server.unused :
         /\ sock[server.unused[i]].references = 0
         /\ \A s \in Sessions : go[s].sock # server.unused[i] /\ go[s].back # server.unused[i]
    /\ \A s \in Sessions :
         go[s].pc = "initial" =>
           /\ sock[go[s].sock].references = 0
           /\ \A t \in Sessions : (t # s => go[t].sock # go[s].sock) /\ go[t].back # go[s].sock
    /\ \A s \in Sessions :
         go[s].back # None =>
           /\ sock[go[s].back].references = 0
           /\ \A t \in Sessions : t # s => go[t].back # go[s].back

LoginInv == \A s \in Sessions : LoginPhase(go[s]) => sock[go[s].sock].references = 1

SameWaiter(m, n) == m.kind \in {"query", "login"} /\ n.kind \in {"query", "login"} /\ m.by = n.by

(* A dead socket has nothing under way; a request under way is one of the  *)
(* goroutine that waits for it, its only one.                              *)
WireInv ==
    \A k \in Sockets :
      /\ sock[k].dead => sock[k].wire = <<>> /\ sock[k].replyFuncs = {}
      /\ sock[k].abending => sock[k].dead
      /\ \A s \in sock[k].replyFuncs : go[s].pc = "wait" /\ go[s].sock = k
      /\ \A i \in DOMAIN sock[k].wire :
           LET m == sock[k].wire[i] IN
             /\ m.kind \in {"query", "login"} => m.by \in sock[k].replyFuncs /\ m.kind = go[m.by].req
             /\ m.kind = "login" => m.cred \in DOMAIN Creds
      /\ \A i, j \in DOMAIN sock[k].wire : SameWaiter(sock[k].wire[i], sock[k].wire[j]) => i = j

(* An open socket is on the list that Close goes through, or will be.      *)
LiveInv ==
    \A k \in Sockets :
      \/ sock[k].dead
      \/ k \in IF server.closed THEN server.closing ELSE server.live
      \/ \E s \in Sessions : go[s].pc = "append" /\ go[s].sock = k

PanicInv == panic \in {"none", "nonce already cached", "setSocket with existing socket reserved"}

IInv ==
    /\ TypeInv /\ GoInv /\ SesInv /\ ReferencesAreHeld /\ ParkInv /\ LoginInv /\ WireInv /\ NoForgottenWaiter
    /\ LiveInv /\ PanicInv

-----------------------------------------------------------------------------
(* Counting holders.                                                       *)

One(b) == IF b THEN 1 ELSE 0

(* How often a session and its goroutine hold the socket k.                *)
Weight(g, r, k) ==
    One(g.sock = k /\ g.pc # "initial") + One(r.masterSocket = k) + One(r.slaveSocket = k)
      + One(1 \in DOMAIN g.todo /\ g.todo[1] = k) + One(2 \in DOMAIN g.todo /\ g.todo[2] = k)

(* Holders in any state.                                                   *)
HoldersOf(G, R, k) ==
    Cardinality({s \in Sessions : G[s].sock = k /\ G[s].pc # "initial"})
      + Cardinality({s \in Sessions : R[s].masterSocket = k})
      + Cardinality({s \in Sessions : R[s].slaveSocket = k})
      + Cardinality({x \in Sessions \X (1..2) : x[2] \in DOMAIN G[x[1]].todo /\ G[x[1]].todo[x[2]] = k})

Alike(g, h) == g.sock = h.sock /\ (g.pc = "initial" <=> h.pc = "initial") /\ g.todo = h.todo
AlikeSes(r, q) == r.masterSocket = q.masterSocket /\ r.slaveSocket = q.slaveSocket

(* Nobody but s, or nobody at all, holds anything else than before.        *)
OnlyBy(s, G, H, R, Q) ==
    \A t \in Sessions : t # s => Alike(G[t], H[t]) /\ AlikeSes(R[t], Q[t])
ByNobody(G, H, R, Q) == \A t \in Sessions : Alike(G[t], H[t]) /\ AlikeSes(R[t], Q[t])

(* Two sets of sessions that differ in one session at most.                *)
LEMMA CountOne ==
    ASSUME NEW A \in SUBSET Sessions, NEW B \in SUBSET Sessions, NEW s, A \ {s} = B \ {s}
    PROVE  \E n \in Nat : Cardinality(A) = n + One(s \in A) /\ Cardinality(B) = n + One(s \in B)
<1>1. IsFiniteSet(A) /\ IsFiniteSet(B)
  BY FS_Subset, SessionsAssumption
<1>2. \A S \in {A, B} : /\ Cardinality(S \ {s}) \in Nat /\ Cardinality(S) \in Nat
                        /\ Cardinality(S) = Cardinality(S \ {s}) + One(s \in S)
  <2>1. \A S \in {A, B} : IsFiniteSet(S \ {s}) /\ Cardinality(S \ {s}) = IF s \in S THEN Cardinality(S) - 1 ELSE Cardinality(S)
    BY <1>1, FS_RemoveElement, ZenonT(60)
  <2>2. \A S \in {A, B} : Cardinality(S) \in Nat /\ Cardinality(S \ {s}) \in Nat
    BY <1>1, <2>1, FS_CardinalityType
  <2> QED BY <2>1, <2>2 DEF One
<1> QED BY <1>2

(* Two sets of pairs that differ in the pairs of one session at most.      *)
LEMMA CountPairs ==
    ASSUME NEW A \in SUBSET (Sessions \X (1..2)), NEW B \in SUBSET (Sessions \X (1..2)), NEW s,
           \A x \in Sessions \X (1..2) : x[1] # s => (x \in A <=> x \in B)
    PROVE  \E n \in Nat : /\ Cardinality(A) = n + One(<<s, 1>> \in A) + One(<<s, 2>> \in A)
                          /\ Cardinality(B) = n + One(<<s, 1>> \in B) + One(<<s, 2>> \in B)
<1> DEFINE p == <<s, 1>>
           q == <<s, 2>>
           Outside(S) == (S \ {p}) \ {q}
<1>1. IsFiniteSet(A) /\ IsFiniteSet(B)
  <2>1. IsFiniteSet(1..2)
    <3>1. \A a, b \in Int : IsFiniteSet(a..b)
      BY FS_Interval
    <3>2. 1 \in Int /\ 2 \in Int
      OBVIOUS
    <3> QED BY <3>1, <3>2, Zenon
  <2>2. IsFiniteSet(Sessions \X (1..2))
    BY <2>1, FS_Product, SessionsAssumption
  <2> QED BY <2>2, FS_Subset
<1>2. \A S \in {A, B} : Cardinality(Outside(S)) \in Nat
                        /\ Cardinality(S) = Cardinality(Outside(S)) + One(p \in S) + One(q \in S)
  <2> SUFFICES ASSUME NEW S \in {A, B}
               PROVE  Cardinality(Outside(S)) \in Nat
                      /\ Cardinality(S) = Cardinality(Outside(S)) + One(p \in S) + One(q \in S)
    OBVIOUS
  <2> HIDE DEF p, q
  <2>1. IsFiniteSet(S \ {p}) /\ Cardinality(S \ {p}) = IF p \in S THEN Cardinality(S) - 1 ELSE Cardinality(S)
    BY <1>1, FS_RemoveElement, Zenon
  <2>2. /\ IsFiniteSet(Outside(S))
        /\ Cardinality(Outside(S)) = IF q \in S \ {p} THEN Cardinality(S \ {p}) - 1 ELSE Cardinality(S \ {p})
    BY <2>1, FS_RemoveElement, Zenon
  <2>3. Cardinality(S) \in Nat /\ Cardinality(S \ {p}) \in Nat /\ Cardinality(Outside(S)) \in Nat
    BY <1>1, <2>1, <2>2, FS_CardinalityType
  <2>4. p # q
    BY DEF p, q
  <2>5. q \in S \ {p} <=> q \in S
    BY <2>4
  <2> HIDE DEF Outside
  <2> QED BY <2>1, <2>2, <2>3, <2>5 DEF One
<1>3. Outside(A) = Outside(B)
  OBVIOUS
<1> HIDE DEF Outside
<1> QED BY <1>2, <1>3

(* What one session does changes the holders by the difference of what it  *)
(* holds before and after.                                                 *)
LEMMA HoldersChange ==
    ASSUME NEW G, NEW H, NEW R, NEW Q, NEW s \in Sessions, NEW k,
           OnlyBy(s, G, H, R, Q)
    PROVE  /\ HoldersOf(G, R, k) - Weight(G[s], R[s], k) \in Nat
           /\ HoldersOf(H, Q, k) = (HoldersOf(G, R, k) - Weight(G[s], R[s], k)) + Weight(H[s], Q[s], k)
<1> DEFINE U(F) == {t \in Sessions : F[t].sock = k /\ F[t].pc # "initial"}
           M(F) == {t \in Sessions : F[t].masterSocket = k}
           L(F) == {t \in Sessions : F[t].slaveSocket = k}
           T(F) == {x \in Sessions \X (1..2) : x[2] \in DOMAIN F[x[1]].todo /\ F[x[1]].todo[x[2]] = k}
<1>1. PICK u \in Nat : Cardinality(U(G)) = u + One(s \in U(G)) /\ Cardinality(U(H)) = u + One(s \in U(H))
  <2>1. U(G) \in SUBSET Sessions /\ U(H) \in SUBSET Sessions
    OBVIOUS
  <2>2. U(G) \ {s} = U(H) \ {s}
    BY DEF Alike, OnlyBy, ByNobody
  <2> HIDE DEF U
  <2> QED BY <2>1, <2>2, CountOne
<1>2. PICK m \in Nat : Cardinality(M(R)) = m + One(s \in M(R)) /\ Cardinality(M(Q)) = m + One(s \in M(Q))
  <2>1. M(R) \in SUBSET Sessions /\ M(Q) \in SUBSET Sessions
    OBVIOUS
  <2>2. M(R) \ {s} = M(Q) \ {s}
    BY DEF AlikeSes, OnlyBy, ByNobody
  <2> HIDE DEF M
  <2> QED BY <2>1, <2>2, CountOne
<1>3. PICK l \in Nat : Cardinality(L(R)) = l + One(s \in L(R)) /\ Cardinality(L(Q)) = l + One(s \in L(Q))
  <2>1. L(R) \in SUBSET Sessions /\ L(Q) \in SUBSET Sessions
    OBVIOUS
  <2>2. L(R) \ {s} = L(Q) \ {s}
    BY DEF AlikeSes, OnlyBy, ByNobody
  <2> HIDE DEF L
  <2> QED BY <2>1, <2>2, CountOne
<1>4. PICK w \in Nat : /\ Cardinality(T(G)) = w + One(<<s, 1>> \in T(G)) + One(<<s, 2>> \in T(G))
                       /\ Cardinality(T(H)) = w + One(<<s, 1>> \in T(H)) + One(<<s, 2>> \in T(H))
  <2>1. T(G) \in SUBSET (Sessions \X (1..2)) /\ T(H) \in SUBSET (Sessions \X (1..2))
    OBVIOUS
  <2>2. \A x \in Sessions \X (1..2) : x[1] # s => (x \in T(G) <=> x \in T(H))
    BY DEF Alike, OnlyBy, ByNobody
  <2> HIDE DEF T
  <2> QED BY <2>1, <2>2, CountPairs
<1>5. /\ s \in U(G) <=> G[s].sock = k /\ G[s].pc # "initial"
      /\ s \in U(H) <=> H[s].sock = k /\ H[s].pc # "initial"
      /\ s \in M(R) <=> R[s].masterSocket = k
      /\ s \in M(Q) <=> Q[s].masterSocket = k
      /\ s \in L(R) <=> R[s].slaveSocket = k
      /\ s \in L(Q) <=> Q[s].slaveSocket = k
  OBVIOUS
<1>6. /\ <<s, 1>> \in T(G) <=> 1 \in DOMAIN G[s].todo /\ G[s].todo[1] = k
      /\ <<s, 2>> \in T(G) <=> 2 \in DOMAIN G[s].todo /\ G[s].todo[2] = k
      /\ <<s, 1>> \in T(H) <=> 1 \in DOMAIN H[s].todo /\ H[s].todo[1] = k
      /\ <<s, 2>> \in T(H) <=> 2 \in DOMAIN H[s].todo /\ H[s].todo[2] = k
  OBVIOUS
<1>7. /\ HoldersOf(G, R, k) = Cardinality(U(G)) + Cardinality(M(R)) + Cardinality(L(R)) + Cardinality(T(G))
      /\ HoldersOf(H, Q, k) = Cardinality(U(H)) + Cardinality(M(Q)) + Cardinality(L(Q)) + Cardinality(T(H))
  BY DEF HoldersOf
<1>8. /\ Weight(G[s], R[s], k) = One(s \in U(G)) + One(s \in M(R)) + One(s \in L(R)) + One(<<s, 1>> \in T(G)) + One(<<s, 2>> \in T(G))
      /\ Weight(H[s], Q[s], k) = One(s \in U(H)) + One(s \in M(Q)) + One(s \in L(Q)) + One(<<s, 1>> \in T(H)) + One(<<s, 2>> \in T(H))
  <2> HIDE DEF U, M, L, T
  <2> QED BY <1>5, <1>6 DEF Weight, One
<1>9. \A b : One(b) \in {0, 1}
  BY DEF One
<1> HIDE DEF U, M, L, T
<1> QED BY <1>1, <1>2, <1>3, <1>4, <1>7, <1>8, <1>9

(* Nobody holds anything else than before.                                 *)
LEMMA HoldersSame ==
    ASSUME NEW G, NEW H, NEW R, NEW Q, NEW k,
           ByNobody(G, H, R, Q)
    PROVE  HoldersOf(G, R, k) = HoldersOf(H, Q, k)
<1>1. {s \in Sessions : G[s].sock = k /\ G[s].pc # "initial"} = {s \in Sessions : H[s].sock = k /\ H[s].pc # "initial"}
  BY DEF Alike, OnlyBy, ByNobody
<1>2. /\ {s \in Sessions : R[s].masterSocket = k} = {s \in Sessions : Q[s].masterSocket = k}
      /\ {s \in Sessions : R[s].slaveSocket = k} = {s \in Sessions : Q[s].slaveSocket = k}
  BY DEF AlikeSes, OnlyBy, ByNobody
<1>3. {x \in Sessions \X (1..2) : x[2] \in DOMAIN G[x[1]].todo /\ G[x[1]].todo[x[2]] = k}
        = {x \in Sessions \X (1..2) : x[2] \in DOMAIN H[x[1]].todo /\ H[x[1]].todo[x[2]] = k}
  BY DEF Alike, OnlyBy, ByNobody
<1> QED BY <1>1, <1>2, <1>3 DEF HoldersOf

(* What a session holds is part of the count of a socket.                  *)
LEMMA HoldersOfOne ==
    ASSUME NEW G, NEW R, NEW s \in Sessions, NEW k
    PROVE  /\ HoldersOf(G, R, k) \in Nat
           /\ Weight(G[s], R[s], k) \in Nat
           /\ Weight(G[s], R[s], k) <= HoldersOf(G, R, k)
<1>1. Weight(G[s], R[s], k) \in Nat
  BY DEF Weight, One
<1>2. HoldersOf(G, R, k) - Weight(G[s], R[s], k) \in Nat
      /\ HoldersOf(G, R, k) = (HoldersOf(G, R, k) - Weight(G[s], R[s], k)) + Weight(G[s], R[s], k)
  <2>1. OnlyBy(s, G, G, R, R)
    BY DEF OnlyBy, Alike, AlikeSes
  <2> QED BY <2>1, HoldersChange
<1> QED BY <1>1, <1>2

(* What two sessions hold counts twice.                                    *)
LEMMA HoldersBeside ==
    ASSUME NEW G, NEW H, NEW R, NEW Q, NEW s \in Sessions, NEW t \in Sessions, s # t, NEW k,
           OnlyBy(t, G, H, R, Q),
           G[s] = H[s], R[s] = Q[s], Weight(H[t], Q[t], k) = 0
    PROVE  Weight(G[s], R[s], k) + Weight(G[t], R[t], k) <= HoldersOf(G, R, k)
<1>1. HoldersOf(H, Q, k) = (HoldersOf(G, R, k) - Weight(G[t], R[t], k)) + Weight(H[t], Q[t], k)
  BY HoldersChange
<1>2. /\ HoldersOf(H, Q, k) \in Nat
      /\ Weight(H[s], Q[s], k) <= HoldersOf(H, Q, k)
      /\ HoldersOf(G, R, k) \in Nat
  BY HoldersOfOne
<1>3. Weight(G[s], R[s], k) \in Nat /\ Weight(G[t], R[t], k) \in Nat
  BY HoldersOfOne
<1> QED BY <1>1, <1>2, <1>3

LEMMA HoldersOfTwo ==
    ASSUME NEW V, NEW W, NEW G \in [Sessions -> V], NEW R \in [Sessions -> W],
           NEW s \in Sessions, NEW t \in Sessions, s # t, NEW k, k # None
    PROVE  Weight(G[s], R[s], k) + Weight(G[t], R[t], k) <= HoldersOf(G, R, k)
<1>1. Weight(Idle, NewSession, k) = 0
  BY DEF Weight, One, Idle, NewSession
<1> SUFFICES ASSUME NEW H, NEW Q, H = [G EXCEPT ![t] = Idle], Q = [R EXCEPT ![t] = NewSession]
             PROVE  Weight(G[s], R[s], k) + Weight(G[t], R[t], k) <= HoldersOf(G, R, k)
  OBVIOUS
<1>2. \A x \in Sessions : x # t => H[x] = G[x] /\ Q[x] = R[x]
  OBVIOUS
<1>3. H[t] = Idle /\ Q[t] = NewSession
  OBVIOUS
<1>4. OnlyBy(t, G, H, R, Q)
  BY <1>2 DEF OnlyBy, Alike, AlikeSes
<1>5. G[s] = H[s] /\ R[s] = Q[s] /\ Weight(H[t], Q[t], k) = 0
  BY <1>1, <1>2, <1>3
<1> HIDE DEF Idle, NewSession
<1> QED BY <1>4, <1>5, HoldersBeside

-----------------------------------------------------------------------------
(* What the methods of a socket do to it.                                  *)

LEMMA AcquireFacts ==
    ASSUME NEW k \in SockRecs
    PROVE  /\ Acquire(k) \in SockRecs
           /\ Acquire(k).references = k.references + 1
           /\ Acquire(k).dead = k.dead /\ Acquire(k).abending = k.abending
           /\ Acquire(k).wire = k.wire /\ Acquire(k).replyFuncs = k.replyFuncs
BY DEF Acquire, SockRecs

SameSocket(k, x) ==
    /\ x.references = k.references /\ x.dead = k.dead /\ x.abending = k.abending
    /\ x.wire = k.wire /\ x.replyFuncs = k.replyFuncs

WithCreds(k, L, D) == [k EXCEPT !.logout = L, !.creds = D]
LEMMA CredsFacts ==
    ASSUME NEW k \in SockRecs, NEW L \in SUBSET DOMAIN Creds, NEW D \in SUBSET DOMAIN Creds
    PROVE  LET x == WithCreds(k, L, D)
           IN  x \in SockRecs /\ SameSocket(k, x)
<1>1. WithCreds(k, L, D) \in SockRecs
  BY DEF SockRecs, WithCreds
<1> QED BY <1>1 DEF SockRecs, WithCreds, SameSocket

LEMMA NoSocketType == NoSocket \in SockRecs
BY DEF NoSocket, SockRecs

LEMMA ReleaseFacts ==
    ASSUME NEW k \in SockRecs, k.references # 0
    PROVE  /\ Release(k) \in SockRecs
           /\ Release(k).references = k.references - 1
           /\ Release(k).dead = k.dead /\ Release(k).abending = k.abending
           /\ \/ Release(k).wire = k.wire /\ Release(k).replyFuncs = k.replyFuncs
              \/ k.dead /\ Release(k).wire = <<>> /\ Release(k).replyFuncs = {}
<1> DEFINE r == [k EXCEPT !.references = @ - 1]
<1>1. r \in SockRecs /\ r.references = k.references - 1 /\ r.dead = k.dead /\ r.abending = k.abending
      /\ r.wire = k.wire /\ r.replyFuncs = k.replyFuncs
  <2>1. k.references - 1 \in Nat
    BY DEF SockRecs
  <2> DEFINE n == k.references - 1
  <2> HIDE DEF n
  <2>2. r = [k EXCEPT !.references = n]
    BY DEF n
  <2> HIDE DEF r
  <2>3. n \in Nat /\ n = k.references - 1
    BY <2>1 DEF n
  <2> QED BY <2>2, <2>3 DEF SockRecs
<1>2. Release(k) = IF r.references > 0 THEN r ELSE IF r.dead THEN [NoSocket EXCEPT !.abending = r.abending] ELSE LogoutAll(r)
  BY DEF Release
<1> HIDE DEF r
<1>3. CASE r.references > 0
  BY <1>1, <1>2, <1>3
<1>4. CASE ~(r.references > 0) /\ r.dead
  <2>1. r.references = 0 /\ r.abending \in BOOLEAN
    BY <1>1, <1>4 DEF SockRecs
  <2>2. [NoSocket EXCEPT !.abending = r.abending] \in SockRecs
    BY <2>1, NoSocketType DEF SockRecs
  <2> QED BY <1>1, <1>2, <1>4, <2>1, <2>2 DEF NoSocket
<1>5. CASE ~(r.references > 0) /\ ~r.dead
  BY ZenonT(60), <1>1, <1>2, <1>5 DEF LogoutAll, SockRecs
<1> QED BY <1>3, <1>4, <1>5

LEMMA KillFacts ==
    ASSUME NEW k \in SockRecs, NEW abend \in BOOLEAN
    PROVE  /\ kill(k, abend) \in SockRecs
           /\ kill(k, abend).references = k.references
           /\ kill(k, abend).dead
           /\ k.dead => kill(k, abend) = k
           /\ ~k.dead => kill(k, abend).wire = <<>> /\ kill(k, abend).replyFuncs = {}
<1>1. CASE k.dead
  BY <1>1 DEF kill
<1>2. CASE ~k.dead
  <2>1. <<>> \in Seq(Requests)
    OBVIOUS
  <2> HIDE DEF Requests
  <2>2. kill(k, abend) = [k EXCEPT !.dead = TRUE, !.attached = FALSE, !.replyFuncs = {}, !.wire = <<>>,
                                   !.auth = {}, !.lost = {}, !.broken = FALSE, !.abending = abend]
    BY <1>2 DEF kill
  <2> QED BY <1>2, <2>1, <2>2 DEF SockRecs
<1> QED BY <1>1, <1>2

-----------------------------------------------------------------------------
(* Kinds of steps.                                                         *)

(* A step after which everybody holds what they held, and the cache is as  *)
(* it was.                                                                 *)
Quiet ==
    /\ \A s \in Sessions : Alike(go[s], go'[s]) /\ go'[s].back = go[s].back
                             /\ (go[s].pc \in {"idle", "releasing"} => go'[s].pc \in {"idle", "releasing"})
    /\ \A s \in Sessions : AlikeSes(ses[s], ses'[s]) /\ ses'[s].open = ses[s].open
    /\ \A k \in Sockets : sock'[k].references = sock[k].references
    /\ server'.unused = server.unused

(* A step that sends nothing, answers nothing and kills nothing.           *)
Silent ==
    /\ \A k \in Sockets :
         /\ sock'[k].dead = sock[k].dead /\ (sock'[k].abending => sock[k].abending)
         /\ \/ sock'[k].wire = sock[k].wire /\ sock'[k].replyFuncs = sock[k].replyFuncs
            \/ sock[k].dead /\ sock'[k].wire = <<>> /\ sock'[k].replyFuncs = {}
    /\ \A s \in Sessions : go[s].pc = "wait" \/ go'[s].pc = "wait" => go'[s] = go[s]

(* A step that opens no socket and does not change the server's lists.     *)
Closing ==
    /\ \A k \in Sockets : sock[k].dead => sock'[k].dead
    /\ \A s \in Sessions : go[s].pc = "append" => go'[s].pc = "append" /\ go'[s].sock = go[s].sock
    /\ server'.closed = server.closed /\ server'.live = server.live /\ server'.closing = server.closing

(* A step that lets no other goroutine into its login.                     *)
NoLogin == \A s \in Sessions : LoginPhase(go'[s]) => LoginPhase(go[s]) /\ go'[s].sock = go[s].sock

LEMMA HoldingKeeps ==
    IInv /\ ByNobody(go, go', ses, ses') /\ (\A k \in Sockets : sock'[k].references = sock[k].references)
      => ReferencesAreHeld'
<1> SUFFICES ASSUME IInv, ByNobody(go, go', ses, ses'),
                    \A k \in Sockets : sock'[k].references = sock[k].references
             PROVE  ReferencesAreHeld'
  OBVIOUS
<1>1. \A k \in Sockets : sock[k].references = HoldersOf(go, ses, k)
  BY DEF IInv, ReferencesAreHeld, Holders, HoldersOf
<1>2. \A k \in Sockets : sock'[k].references = HoldersOf(go', ses', k)
  BY <1>1, HoldersSame
<1> QED BY <1>2 DEF ReferencesAreHeld, Holders, HoldersOf

LEMMA QuietKeeps == IInv /\ Quiet => ReferencesAreHeld' /\ SesInv' /\ ParkInv'
<1> SUFFICES ASSUME IInv, Quiet PROVE ReferencesAreHeld' /\ SesInv' /\ ParkInv'
  OBVIOUS
<1>1. ReferencesAreHeld'
  <2>1. ByNobody(go, go', ses, ses')
    BY DEF Quiet, ByNobody
  <2> QED BY <2>1, HoldingKeeps DEF Quiet
<1>2. SesInv'
  BY DEF IInv, SesInv, Quiet, AlikeSes
<1>3. ParkInv'
  <2>1. server.unused \in Seq(Sockets)
    BY DEF IInv, TypeInv, ServerRecs
  <2>2. \A s \in Sessions : go[s].pc = "initial" => go[s].sock \in Sockets
    BY DEF IInv, GoInv, GoOk, HasSocket
  <2>3. \A s \in Sessions : go[s].back \in Sockets \cup {None}
    BY DEF IInv, TypeInv, GoRecs
  <2>4. ParkInv
    BY DEF IInv
  <2> QED BY <2>1, <2>2, <2>3, <2>4 DEF ParkInv, Quiet, Alike
<1> QED BY <1>1, <1>2, <1>3

LEMMA SilentKeeps == IInv /\ Silent => WireInv' /\ NoForgottenWaiter'
<1> SUFFICES ASSUME IInv, Silent PROVE WireInv' /\ NoForgottenWaiter'
  OBVIOUS
<1>0. sock \in [Sockets -> SockRecs] /\ WireInv /\ NoForgottenWaiter /\ GoInv
  BY DEF IInv, TypeInv
<1>1. WireInv'
  <2> SUFFICES ASSUME NEW k \in Sockets
               PROVE  /\ sock'[k].dead => sock'[k].wire = <<>> /\ sock'[k].replyFuncs = {}
                      /\ sock'[k].abending => sock'[k].dead
                      /\ \A s \in sock'[k].replyFuncs : go'[s].pc = "wait" /\ go'[s].sock = k
                      /\ \A i \in DOMAIN sock'[k].wire :
                           LET m == sock'[k].wire[i] IN
                             /\ m.kind \in {"query", "login"} => m.by \in sock'[k].replyFuncs /\ m.kind = go'[m.by].req
                             /\ m.kind = "login" => m.cred \in DOMAIN Creds
                      /\ \A i, j \in DOMAIN sock'[k].wire : SameWaiter(sock'[k].wire[i], sock'[k].wire[j]) => i = j
    BY DEF WireInv
  <2>1. sock'[k].wire = sock[k].wire /\ sock'[k].replyFuncs = sock[k].replyFuncs
    <3>1. sock[k].dead => sock[k].wire = <<>> /\ sock[k].replyFuncs = {}
      BY <1>0 DEF WireInv
    <3> QED BY <3>1 DEF Silent
  <2>2. \A s \in sock[k].replyFuncs : s \in Sessions /\ go[s].pc = "wait" /\ go[s].sock = k /\ go'[s] = go[s]
    BY <1>0 DEF WireInv, Silent, SockRecs
  <2>3. sock'[k].dead = sock[k].dead /\ (sock'[k].abending => sock[k].abending)
    BY DEF Silent
  <2>4. /\ sock[k].dead => sock[k].wire = <<>> /\ sock[k].replyFuncs = {}
        /\ sock[k].abending => sock[k].dead
    BY <1>0 DEF WireInv
  <2>5. /\ \A i \in DOMAIN sock[k].wire :
             LET m == sock[k].wire[i] IN
               /\ m.kind \in {"query", "login"} => m.by \in sock[k].replyFuncs /\ m.kind = go[m.by].req
               /\ m.kind = "login" => m.cred \in DOMAIN Creds
        /\ \A i, j \in DOMAIN sock[k].wire : SameWaiter(sock[k].wire[i], sock[k].wire[j]) => i = j
    BY <1>0 DEF WireInv
  <2>6. \A i \in DOMAIN sock[k].wire :
             LET m == sock[k].wire[i] IN
               /\ m.kind \in {"query", "login"} => m.by \in sock[k].replyFuncs /\ m.kind = go'[m.by].req
               /\ m.kind = "login" => m.cred \in DOMAIN Creds
    BY <2>2, <2>5
  <2> QED BY <2>1, <2>2, <2>3, <2>4, <2>5, <2>6
<1>2. NoForgottenWaiter'
  <2> SUFFICES ASSUME NEW s \in Sessions, go'[s].pc = "wait"
               PROVE  go'[s].cut \/ (~sock'[go'[s].sock].dead /\ s \in sock'[go'[s].sock].replyFuncs)
    BY DEF NoForgottenWaiter
  <2>1. go'[s] = go[s] /\ go[s].pc = "wait"
    BY DEF Silent
  <2>2. go[s].sock \in Sockets
    BY <1>0, <2>1 DEF GoInv, GoOk, HasSocket
  <2>3. go[s].cut \/ (~sock[go[s].sock].dead /\ s \in sock[go[s].sock].replyFuncs)
    BY <1>0, <2>1 DEF NoForgottenWaiter
  <2>4. CASE go[s].cut
    BY <2>1, <2>4
  <2>5. CASE ~sock[go[s].sock].dead /\ s \in sock[go[s].sock].replyFuncs
    <3> DEFINE k == go[s].sock
    <3>1. sock'[k].dead = sock[k].dead
      BY <2>2 DEF Silent
    <3>2. sock'[k].replyFuncs = sock[k].replyFuncs
      BY <2>2, <2>5 DEF Silent
    <3> QED BY <2>1, <2>5, <3>1, <3>2
  <2> QED BY <2>3, <2>4, <2>5
<1> QED BY <1>1, <1>2

LEMMA ClosingKeeps == IInv /\ Closing => LiveInv'
BY DEF IInv, Closing, LiveInv

LEMMA NoLoginKeeps ==
    IInv /\ NoLogin /\ (\A k \in Sockets : sock'[k].references = sock[k].references) => LoginInv'
<1> SUFFICES ASSUME IInv, NoLogin, \A k \in Sockets : sock'[k].references = sock[k].references,
                    NEW s \in Sessions, LoginPhase(go'[s])
             PROVE  sock'[go'[s].sock].references = 1
  BY DEF LoginInv
<1>1. LoginPhase(go[s]) /\ go'[s].sock = go[s].sock
  BY DEF NoLogin
<1>2. go[s].sock \in Sockets
  BY <1>1 DEF IInv, GoInv, GoOk, LoginPhase, Talking, HasSocket
<1> QED BY <1>1, <1>2 DEF IInv, LoginInv

-----------------------------------------------------------------------------
(* Steps that leave references and the cache alone.                        *)

(* The invariant of a goroutine is kept if it holds of the one that moved. *)
LEMMA OneGoes ==
    ASSUME NEW s \in Sessions, NEW g \in GoRecs, GoOk(g)
    PROVE  IInv /\ go' = [go EXCEPT ![s] = g] =>
             /\ go' \in [Sessions -> GoRecs] /\ GoInv'
             /\ go'[s] = g /\ \A t \in Sessions : t # s => go'[t] = go[t]
BY DEF IInv, TypeInv, GoInv

(* The bulk of a step of a goroutine that holds what it held, sends        *)
(* nothing and waits for no reply.                                         *)
LEMMA QuietMove ==
    ASSUME NEW s \in Sessions, NEW h \in GoRecs, GoOk(h), h.pc # "wait"
    PROVE  /\ IInv
           /\ go' = [go EXCEPT ![s] = h]
           /\ Alike(go[s], h) /\ h.back = go[s].back /\ go[s].pc \notin {"wait", "append"}
           /\ go[s].pc \in {"idle", "releasing"} => h.pc \in {"idle", "releasing"}
           /\ LoginPhase(h) => LoginPhase(go[s])
           /\ sock' \in [Sockets -> SockRecs] /\ \A j \in Sockets : SameSocket(sock[j], sock'[j])
           /\ ses' \in [Sessions -> SesRecs]
           /\ \A t \in Sessions : AlikeSes(ses[t], ses'[t]) /\ ses'[t].open = ses[t].open
           /\ UNCHANGED <<config, server>> /\ faults' \in 0..C.faults /\ PanicInv'
           => IInv'
<1> SUFFICES ASSUME IInv, go' = [go EXCEPT ![s] = h], Alike(go[s], h), h.back = go[s].back,
                    go[s].pc \notin {"wait", "append"}, LoginPhase(h) => LoginPhase(go[s]),
                    go[s].pc \in {"idle", "releasing"} => h.pc \in {"idle", "releasing"},
                    sock' \in [Sockets -> SockRecs], \A j \in Sockets : SameSocket(sock[j], sock'[j]),
                    ses' \in [Sessions -> SesRecs],
                    \A t \in Sessions : AlikeSes(ses[t], ses'[t]) /\ ses'[t].open = ses[t].open,
                    UNCHANGED <<config, server>>, faults' \in 0..C.faults, PanicInv'
             PROVE  IInv'
  BY Zenon
<1>1. go' \in [Sessions -> GoRecs] /\ GoInv' /\ go'[s] = h /\ \A t \in Sessions : t # s => go'[t] = go[t]
  BY OneGoes
<1>2. TypeInv'
  BY <1>1 DEF IInv, TypeInv, C
<1>3. Quiet
  BY <1>1 DEF Quiet, Alike, SameSocket
<1>4. Silent /\ Closing
  BY <1>1 DEF Silent, Closing, SameSocket
<1>5. NoLogin
  BY <1>1 DEF NoLogin, Alike
<1>6. \A k \in Sockets : sock'[k].references = sock[k].references
  BY DEF SameSocket
<1> QED BY <1>1, <1>2, <1>3, <1>4, <1>5, <1>6, QuietKeeps, SilentKeeps, ClosingKeeps, NoLoginKeeps DEF IInv

(* What is known of a goroutine and its socket.                            *)
LEMMA GoFacts ==
    ASSUME NEW s \in Sessions
    PROVE  IInv => /\ go \in [Sessions -> GoRecs] /\ sock \in [Sockets -> SockRecs] /\ ses \in [Sessions -> SesRecs]
                   /\ go[s] \in GoRecs /\ GoOk(go[s]) /\ ses[s] \in SesRecs
                   /\ server \in ServerRecs /\ faults \in 0..C.faults
BY DEF IInv, TypeInv, GoInv

LEMMA LoginKeeps == ASSUME NEW s \in Sessions PROVE IInv /\ Login(s) => IInv'
<1> SUFFICES ASSUME IInv, Login(s) PROVE IInv'
  OBVIOUS
<1> DEFINE k == go[s].sock
           g == go[s]
<1>1. /\ g \in GoRecs /\ GoOk(g) /\ g.pc \in {"login", "loginNew"} /\ k \in Sockets
      /\ sock \in [Sockets -> SockRecs] /\ go \in [Sessions -> GoRecs]
      /\ g.todo = <<>> /\ g.back = None /\ g.pend \in Seq(DOMAIN Creds) /\ g.pend # <<>>
  BY SMTT(40) DEF IInv, TypeInv, Login, GoInv, GoOk, HasSocket, GoRecs
<1> DEFINE c == Head(g.pend)
           P == Tail(g.pend)
<1>2. IF c \in sock[k].creds \cup sock[k].logout
      THEN /\ go' = [go EXCEPT ![s].pend = P]
           /\ sock' = [sock EXCEPT ![k].logout = IF c \in sock[k].creds THEN @ ELSE @ \ {c},
                                   ![k].creds = @ \cup {c}]
      ELSE /\ go' = [go EXCEPT ![s].pc = "flush", ![s].ret = go[s].pc, ![s].cred = c, ![s].round = 1,
                               ![s].pend = P, ![s].req = IF C.classic THEN "nonce" ELSE "login"]
           /\ sock' = sock
  BY DEF Login
<1>p. c \in DOMAIN Creds /\ P \in Seq(DOMAIN Creds)
  <2> DEFINE q == g.pend
  <2>1. q \in Seq(DOMAIN Creds) /\ q # <<>>
    BY <1>1
  <2> HIDE DEF q
  <2>2. Head(q) \in DOMAIN Creds /\ Tail(q) \in Seq(DOMAIN Creds)
    BY <2>1
  <2> QED BY <2>2 DEF q
<1> HIDE DEF c, P
<1>3. UNCHANGED <<config, server, ses, faults, panic>>
  BY DEF Login
<1>4. PICK h \in GoRecs : /\ go' = [go EXCEPT ![s] = h] /\ GoOk(h) /\ h.pc # "wait"
                          /\ Alike(g, h) /\ h.back = g.back /\ (LoginPhase(h) => LoginPhase(g))
  <2>1. CASE c \in sock[k].creds \cup sock[k].logout
    <3> DEFINE h == [g EXCEPT !.pend = P]
    <3>1. go' = [go EXCEPT ![s] = h]
      BY <1>1, <1>2, <2>1
    <3>2. h \in GoRecs /\ h.pc = g.pc /\ Alike(g, h) /\ h.back = g.back
      BY <1>1, <1>p DEF GoRecs, Alike
    <3>3. GoOk(h) /\ (LoginPhase(h) => LoginPhase(g))
      BY <1>1 DEF GoOk, GoRecs, LoginPhase, Talking
    <3> HIDE DEF h
    <3> QED BY <1>1, <3>1, <3>2, <3>3
  <2>2. CASE c \notin sock[k].creds \cup sock[k].logout
    <3> DEFINE q == IF C.classic THEN "nonce" ELSE "login"
               h == [g EXCEPT !.pc = "flush", !.ret = g.pc, !.cred = c, !.round = 1, !.pend = P, !.req = q]
    <3>1. go' = [go EXCEPT ![s] = h]
      BY <1>1, <1>2, <2>2
    <3>2. q \in {"nonce", "login"} /\ c \in DOMAIN Creds
      BY <1>p
    <3> HIDE DEF q
    <3>3. h \in GoRecs
      <4>1. g \in GoRecs /\ g.pc \in {"login", "loginNew"}
        BY <1>1
      <4>2. "flush" \in Pcs
        BY DEF Pcs, HasSocket
      <4> QED BY <1>p, <3>2, <4>1, <4>2 DEF GoRecs
    <3>4. h.pc = "flush" /\ h.ret = g.pc /\ h.cred = c /\ h.req = q /\ h.sock = g.sock /\ h.todo = g.todo /\ h.back = g.back
          /\ h.op = g.op /\ h.arg = g.arg
      BY <1>1 DEF GoRecs
    <3> HIDE DEF h
    <3>5. GoOk(h) /\ (LoginPhase(h) => LoginPhase(g))
      BY <1>1, <3>2, <3>4 DEF GoOk, LoginPhase, Talking, HasSocket, NoSocketYet
    <3>6. Alike(g, h)
      BY <1>1, <3>4 DEF Alike
    <3> QED BY <3>1, <3>3, <3>4, <3>5, <3>6
  <2> QED BY <2>1, <2>2
<1>5. /\ sock' \in [Sockets -> SockRecs]
      /\ \A j \in Sockets : SameSocket(sock[j], sock'[j])
  <2>1. CASE c \in sock[k].creds \cup sock[k].logout
    <3> DEFINE L == IF c \in sock[k].creds THEN sock[k].logout ELSE sock[k].logout \ {c}
               D == sock[k].creds \cup {c}
               x == WithCreds(sock[k], L, D)
    <3>1. sock' = [sock EXCEPT ![k] = x]
      BY <1>1, <1>2, <2>1 DEF WithCreds
    <3>0. L \in SUBSET DOMAIN Creds /\ D \in SUBSET DOMAIN Creds
      BY <1>1, <1>p DEF SockRecs
    <3> HIDE DEF L, D
    <3>9. sock[k] \in SockRecs
      BY <1>1
    <3>2. x \in SockRecs /\ SameSocket(sock[k], x)
      BY <3>9, <3>0, CredsFacts
    <3> HIDE DEF x
    <3> QED BY <1>1, <3>1, <3>2 DEF SameSocket
  <2>2. CASE c \notin sock[k].creds \cup sock[k].logout
    BY <1>1, <1>2, <2>2 DEF SameSocket
  <2> QED BY <2>1, <2>2
<1>6. /\ \A t \in Sessions : AlikeSes(ses[t], ses'[t]) /\ ses'[t].open = ses[t].open
      /\ ses' \in [Sessions -> SesRecs] /\ faults' \in 0..C.faults /\ PanicInv'
  BY <1>3 DEF IInv, TypeInv, PanicInv, AlikeSes
<1>7. g.pc \notin {"wait", "append", "idle", "releasing"}
  BY <1>1
<1> QED BY <1>3, <1>4, <1>5, <1>6, <1>7, QuietMove

LEMMA GetNonceKeeps == ASSUME NEW s \in Sessions PROVE IInv /\ getNonce(s) => IInv'
<1> SUFFICES ASSUME IInv, getNonce(s) PROVE IInv'
  OBVIOUS
<1> DEFINE k == go[s].sock
           g == go[s]
           p == IF sock[k].dead THEN "failed" ELSE "flush"
           h == [g EXCEPT !.pc = p, !.req = "login"]
           x == [sock[k] EXCEPT !.nonce = FALSE]
<1>1. /\ g \in GoRecs /\ GoOk(g) /\ sock \in [Sockets -> SockRecs] /\ go \in [Sessions -> GoRecs]
      /\ ses \in [Sessions -> SesRecs] /\ faults \in 0..C.faults
  BY GoFacts
<1>2. g.pc = "getNonce" /\ go' = [go EXCEPT ![s].pc = p, ![s].req = "login"] /\ sock' = [sock EXCEPT ![k].nonce = FALSE]
      /\ UNCHANGED <<config, server, ses, faults, panic>>
  BY DEF getNonce
<1>3. k \in Sockets /\ g.todo = <<>> /\ g.back = None /\ g.req = "nonce" /\ p \in {"failed", "flush"}
  BY <1>1, <1>2 DEF GoOk, HasSocket
<1> HIDE DEF p
<1>4. go' = [go EXCEPT ![s] = h] /\ sock' = [sock EXCEPT ![k] = x]
  BY <1>1, <1>2, <1>3
<1>5. h \in GoRecs
  BY ZenonT(60), <1>1, <1>3 DEF GoRecs, Pcs, HasSocket
<1>6. h.pc = p /\ h.req = "login" /\ h.sock = g.sock /\ h.todo = g.todo /\ h.back = g.back /\ h.ret = g.ret
      /\ h.cred = g.cred /\ h.op = g.op /\ h.arg = g.arg
  BY <1>1 DEF GoRecs
<1> HIDE DEF h
<1>7. GoOk(h) /\ (LoginPhase(h) => LoginPhase(g))
  BY <1>1, <1>2, <1>3, <1>6 DEF GoOk, LoginPhase, Talking, HasSocket, NoSocketYet
<1>8. Alike(g, h) /\ h.pc # "wait" /\ g.pc \notin {"wait", "append"}
  BY <1>2, <1>3, <1>6 DEF Alike
<1>9. x \in SockRecs /\ SameSocket(sock[k], x)
  <2>1. sock[k] \in SockRecs
    BY <1>1, <1>3
  <2>2. x \in SockRecs
    BY <2>1 DEF SockRecs
  <2> QED BY <2>1, <2>2 DEF SockRecs, SameSocket
<1> HIDE DEF x
<1>10. sock' \in [Sockets -> SockRecs] /\ \A j \in Sockets : SameSocket(sock[j], sock'[j])
  BY <1>1, <1>3, <1>4, <1>9 DEF SameSocket
<1>11. /\ \A t \in Sessions : AlikeSes(ses[t], ses'[t]) /\ ses'[t].open = ses[t].open
       /\ ses' \in [Sessions -> SesRecs] /\ faults' \in 0..C.faults /\ PanicInv'
  BY <1>1, <1>2 DEF IInv, PanicInv, AlikeSes
<1> QED BY <1>2, <1>4, <1>5, <1>6, <1>7, <1>8, <1>10, <1>11, QuietMove

LEMMA LoggedInKeeps == ASSUME NEW s \in Sessions PROVE IInv /\ loggedIn(s) => IInv'
<1> SUFFICES ASSUME IInv, loggedIn(s) PROVE IInv'
  OBVIOUS
<1> DEFINE g == go[s]
           h == [g EXCEPT !.pc = "release"]
           q == Append(ses[s].creds, g.arg)
           r == [ses[s] EXCEPT !.creds = q]
<1>1. /\ g \in GoRecs /\ GoOk(g) /\ sock \in [Sockets -> SockRecs] /\ go \in [Sessions -> GoRecs]
      /\ ses \in [Sessions -> SesRecs] /\ ses[s] \in SesRecs /\ faults \in 0..C.faults
  BY GoFacts
<1>2. g.pc = "loginNew" /\ go' = [go EXCEPT ![s].pc = "release"] /\ ses' = [ses EXCEPT ![s].creds = Append(@, go[s].arg)]
      /\ UNCHANGED <<config, server, sock, faults, panic>>
  BY DEF loggedIn
<1>3. g.sock \in Sockets /\ g.todo = <<>> /\ g.back = None /\ g.arg \in DOMAIN Creds
  BY <1>1, <1>2 DEF GoOk, HasSocket
<1>4. go' = [go EXCEPT ![s] = h] /\ ses' = [ses EXCEPT ![s] = r]
  BY <1>1, <1>2
<1>5. h \in GoRecs
  BY <1>1 DEF GoRecs, Pcs, HasSocket
<1>6. h.pc = "release" /\ h.sock = g.sock /\ h.todo = g.todo /\ h.back = g.back /\ h.op = g.op /\ h.arg = g.arg
  BY <1>1 DEF GoRecs
<1> HIDE DEF h
<1>7. GoOk(h) /\ ~LoginPhase(h)
  BY <1>1, <1>2, <1>3, <1>6 DEF GoOk, LoginPhase, Talking, HasSocket, NoSocketYet
<1>8. Alike(g, h) /\ h.pc # "wait" /\ g.pc \notin {"wait", "append"}
  BY <1>2, <1>3, <1>6 DEF Alike
<1>9. r \in SesRecs /\ AlikeSes(ses[s], r) /\ r.open = ses[s].open
  <2>1. ses[s].creds \in Seq(DOMAIN Creds)
    BY <1>1 DEF SesRecs
  <2>2. q \in Seq(DOMAIN Creds)
    BY <1>3, <2>1
  <2> HIDE DEF q
  <2> QED BY <1>1, <2>2 DEF SesRecs, AlikeSes
<1> HIDE DEF r
<1>10. /\ \A t \in Sessions : AlikeSes(ses[t], ses'[t]) /\ ses'[t].open = ses[t].open
       /\ ses' \in [Sessions -> SesRecs]
  BY <1>1, <1>4, <1>9 DEF AlikeSes
<1>11. sock' \in [Sockets -> SockRecs] /\ \A j \in Sockets : SameSocket(sock[j], sock'[j])
  BY <1>1, <1>2 DEF SameSocket
<1>12. faults' \in 0..C.faults /\ PanicInv'
  BY <1>1, <1>2 DEF IInv, PanicInv
<1> QED BY <1>2, <1>4, <1>5, <1>6, <1>7, <1>8, <1>10, <1>11, <1>12, QuietMove

LEMMA FlushLogoutKeeps == ASSUME NEW s \in Sessions PROVE IInv /\ flushLogout(s) => IInv'
<1> SUFFICES ASSUME IInv, flushLogout(s) PROVE IInv'
  OBVIOUS
<1> DEFINE k == go[s].sock
           g == go[s]
           F == {Source(c) : c \in sock[k].logout}
           h == [g EXCEPT !.pc = "write", !.flushed = F]
           x == [sock[k] EXCEPT !.logout = {}]
<1>1. /\ g \in GoRecs /\ GoOk(g) /\ sock \in [Sockets -> SockRecs] /\ go \in [Sessions -> GoRecs]
      /\ ses \in [Sessions -> SesRecs] /\ faults \in 0..C.faults
  BY GoFacts
<1>2. g.pc = "flush" /\ go' = [go EXCEPT ![s].pc = "write", ![s].flushed = F] /\ sock' = [sock EXCEPT ![k].logout = {}]
      /\ UNCHANGED <<config, server, ses, faults, panic>>
  BY DEF flushLogout
<1>3. k \in Sockets /\ g.todo = <<>> /\ g.back = None
  BY <1>1, <1>2 DEF GoOk, HasSocket
<1>0. F \in SUBSET Sources
  BY <1>1, <1>3 DEF SockRecs, Source, Sources
<1> HIDE DEF F
<1>4. go' = [go EXCEPT ![s] = h] /\ sock' = [sock EXCEPT ![k] = x]
  BY <1>1, <1>2, <1>3
<1>5. h \in GoRecs
  BY <1>1, <1>0 DEF GoRecs, Pcs, HasSocket
<1>6. h.pc = "write" /\ h.req = g.req /\ h.sock = g.sock /\ h.todo = g.todo /\ h.back = g.back /\ h.ret = g.ret
      /\ h.cred = g.cred /\ h.op = g.op /\ h.arg = g.arg
  BY <1>1 DEF GoRecs
<1> HIDE DEF h
<1>7. GoOk(h) /\ (LoginPhase(h) => LoginPhase(g))
  BY <1>1, <1>2, <1>3, <1>6 DEF GoOk, LoginPhase, Talking, HasSocket, NoSocketYet
<1>8. Alike(g, h) /\ h.pc # "wait" /\ g.pc \notin {"wait", "append"}
  BY <1>2, <1>3, <1>6 DEF Alike
<1>9. x \in SockRecs /\ SameSocket(sock[k], x)
  <2>1. sock[k] \in SockRecs
    BY <1>1, <1>3
  <2>2. x \in SockRecs
    BY <2>1 DEF SockRecs
  <2> QED BY <2>1, <2>2 DEF SockRecs, SameSocket
<1> HIDE DEF x
<1>10. sock' \in [Sockets -> SockRecs] /\ \A j \in Sockets : SameSocket(sock[j], sock'[j])
  BY <1>1, <1>3, <1>4, <1>9 DEF SameSocket
<1>11. /\ \A t \in Sessions : AlikeSes(ses[t], ses'[t]) /\ ses'[t].open = ses[t].open
       /\ ses' \in [Sessions -> SesRecs] /\ faults' \in 0..C.faults /\ PanicInv'
  BY <1>1, <1>2 DEF IInv, PanicInv, AlikeSes
<1> QED BY <1>2, <1>4, <1>5, <1>6, <1>7, <1>8, <1>10, <1>11, QuietMove

(* SetMode and Logout do not move the goroutine at all.                    *)
LEMMA SetModeKeeps ==
    ASSUME NEW s \in Sessions, NEW mode \in Modes PROVE IInv /\ SetMode(s, mode) => IInv'
<1> SUFFICES ASSUME IInv, SetMode(s, mode) PROVE IInv'
  OBVIOUS
<1> DEFINE g == go[s]
           ok == mode # "Strong" /\ (ses[s].slaveOk \/ ses[s].masterSocket = None)
           r == [ses[s] EXCEPT !.mode = mode, !.slaveOk = ok]
<1>1. /\ g \in GoRecs /\ GoOk(g) /\ sock \in [Sockets -> SockRecs] /\ go \in [Sessions -> GoRecs]
      /\ ses \in [Sessions -> SesRecs] /\ ses[s] \in SesRecs /\ faults \in 0..C.faults
  BY GoFacts
<1>2. g.pc = "idle" /\ go' = go /\ UNCHANGED <<config, server, sock, faults, panic>>
      /\ ses' = [ses EXCEPT ![s].mode = mode, ![s].slaveOk = mode # "Strong" /\ (@ \/ ses[s].masterSocket = None)]
  BY DEF SetMode
<1>3. ses' = [ses EXCEPT ![s] = r] /\ go' = [go EXCEPT ![s] = g]
  BY <1>1, <1>2
<1>4. ok \in BOOLEAN
  OBVIOUS
<1> HIDE DEF ok
<1>5. r \in SesRecs /\ AlikeSes(ses[s], r) /\ r.open = ses[s].open
  BY <1>1, <1>4 DEF SesRecs, AlikeSes
<1> HIDE DEF r
<1>6. /\ \A t \in Sessions : AlikeSes(ses[t], ses'[t]) /\ ses'[t].open = ses[t].open
      /\ ses' \in [Sessions -> SesRecs]
  BY <1>1, <1>3, <1>5 DEF AlikeSes
<1>7. sock' \in [Sockets -> SockRecs] /\ \A j \in Sockets : SameSocket(sock[j], sock'[j])
  BY <1>1, <1>2 DEF SameSocket
<1>8. faults' \in 0..C.faults /\ PanicInv' /\ Alike(g, g) /\ g.pc \notin {"wait", "append"}
  BY <1>1, <1>2 DEF IInv, PanicInv, Alike
<1> QED BY <1>1, <1>2, <1>3, <1>6, <1>7, <1>8, QuietMove

LEMMA RemoveAtFacts ==
    ASSUME NEW S, NEW q \in Seq(S), NEW i \in DOMAIN q PROVE RemoveAt(q, i) \in Seq(S)
<1>1. SubSeq(q, 1, i - 1) \in Seq(S) /\ SubSeq(q, i + 1, Len(q)) \in Seq(S)
  OBVIOUS
<1> DEFINE a == SubSeq(q, 1, i - 1)
           b == SubSeq(q, i + 1, Len(q))
<1> HIDE DEF a, b
<1>2. a \o b \in Seq(S)
  BY <1>1 DEF a, b
<1> QED BY <1>2 DEF RemoveAt, a, b

LEMMA LoggedOutKeeps ==
    ASSUME NEW s \in Sessions, NEW dbs, NEW q \in Seq(DOMAIN Creds), NEW half \in SUBSET Sources,
           IInv, go[s].pc = "idle", LoggedOut(s, dbs, q, half), UNCHANGED <<config, server, go, faults, panic>>
    PROVE  IInv'
<1> DEFINE g == go[s]
<1>1. /\ g \in GoRecs /\ GoOk(g) /\ sock \in [Sockets -> SockRecs] /\ go \in [Sessions -> GoRecs]
      /\ ses \in [Sessions -> SesRecs] /\ ses[s] \in SesRecs /\ faults \in 0..C.faults
  BY GoFacts
<1>2. /\ g.pc = "idle" /\ go' = go /\ UNCHANGED <<config, server, faults, panic>>
      /\ ses' = [ses EXCEPT ![s].creds = q, ![s].halfOut = half]
      /\ sock' = [k \in Sockets |-> IF k \in Range(Reserved(s)) THEN Logout(sock[k], dbs) ELSE sock[k]]
  BY DEF LoggedOut
<1> DEFINE r == [ses[s] EXCEPT !.creds = q, !.halfOut = half]
<1>3. ses' = [ses EXCEPT ![s] = r] /\ go' = [go EXCEPT ![s] = g]
  BY <1>1, <1>2
<1>5. r \in SesRecs /\ AlikeSes(ses[s], r) /\ r.open = ses[s].open
  BY <1>1 DEF SesRecs, AlikeSes
<1> HIDE DEF r
<1>6. /\ \A t \in Sessions : AlikeSes(ses[t], ses'[t]) /\ ses'[t].open = ses[t].open
      /\ ses' \in [Sessions -> SesRecs]
  BY <1>1, <1>3, <1>5 DEF AlikeSes
<1>7. \A k \in Sockets : Logout(sock[k], dbs) \in SockRecs /\ SameSocket(sock[k], Logout(sock[k], dbs))
  <2> TAKE k \in Sockets
  <2> DEFINE L == sock[k].logout \cup {c \in sock[k].creds : Source(c) \in dbs}
             D == {c \in sock[k].creds : Source(c) \notin dbs}
  <2>1. sock[k] \in SockRecs
    BY <1>1
  <2>2. L \in SUBSET DOMAIN Creds /\ D \in SUBSET DOMAIN Creds
    BY <2>1 DEF SockRecs
  <2>3. Logout(sock[k], dbs) = WithCreds(sock[k], L, D)
    BY <2>1 DEF Logout, WithCreds
  <2> HIDE DEF L, D
  <2> QED BY <2>1, <2>2, <2>3, CredsFacts
<1>8. sock' \in [Sockets -> SockRecs] /\ \A j \in Sockets : SameSocket(sock[j], sock'[j])
  BY <1>1, <1>2, <1>7 DEF SameSocket
<1>9. faults' \in 0..C.faults /\ PanicInv' /\ Alike(g, g) /\ g.pc \notin {"wait", "append"}
  BY <1>1, <1>2 DEF IInv, PanicInv, Alike
<1> QED BY <1>1, <1>2, <1>3, <1>6, <1>8, <1>9, QuietMove

LEMMA LogoutKeeps == ASSUME NEW s \in Sessions PROVE IInv /\ LogoutSession(s) => IInv'
<1> SUFFICES ASSUME IInv, LogoutSession(s) PROVE IInv'
  OBVIOUS
<1> DEFINE a == ses[s].creds
<1>1. go[s].pc = "idle" /\ UNCHANGED <<config, server, go, faults, panic>>
  BY DEF LogoutSession
<1>2. a \in Seq(DOMAIN Creds) /\ ses[s].halfOut \in SUBSET Sources
  <2>1. ses[s] \in SesRecs
    BY GoFacts
  <2> QED BY <2>1 DEF SesRecs
<1>3. CASE \E i \in DOMAIN a : \E half :
             /\ half \in {ses[s].halfOut \ {Source(a[i])}, ses[s].halfOut \cup {Source(a[i])}}
             /\ LoggedOut(s, {Source(a[i])}, RemoveAt(a, i), half)
  <2>0. PICK i \in DOMAIN a : \E half :
             /\ half \in {ses[s].halfOut \ {Source(a[i])}, ses[s].halfOut \cup {Source(a[i])}}
             /\ LoggedOut(s, {Source(a[i])}, RemoveAt(a, i), half)
    BY <1>3
  <2>1. PICK half :
             /\ half \in {ses[s].halfOut \ {Source(a[i])}, ses[s].halfOut \cup {Source(a[i])}}
             /\ LoggedOut(s, {Source(a[i])}, RemoveAt(a, i), half)
    BY <2>0
  <2>2. RemoveAt(a, i) \in Seq(DOMAIN Creds)
    BY <1>2, RemoveAtFacts
  <2>3. half \in SUBSET Sources
    <3>1. a[i] \in DOMAIN Creds
      BY <1>2
    <3> QED BY <1>2, <2>1, <3>1 DEF Source, Sources
  <2> QED BY <1>1, <2>1, <2>2, <2>3, LoggedOutKeeps
<1>4. CASE LoggedOut(s, {Source(c) : c \in Range(a)}, <<>>, {})
  <2>1. <<>> \in Seq(DOMAIN Creds) /\ {} \in SUBSET Sources
    OBVIOUS
  <2> QED BY <1>1, <1>4, <2>1, LoggedOutKeeps
<1> QED BY <1>3, <1>4 DEF LogoutSession

LEMMA SetInfoKeeps == IInv /\ SetInfo => IInv'
<1> SUFFICES ASSUME IInv, SetInfo PROVE IInv'
  OBVIOUS
<1>1. /\ faults < C.faults /\ faults' = faults + 1
      /\ server' = [server EXCEPT !.master = ~@]
      /\ UNCHANGED <<config, sock, ses, go, panic>>
  BY DEF SetInfo
<1>2. server \in ServerRecs /\ faults \in 0..C.faults /\ C.faults \in Nat
  BY ScenariosAssumption DEF IInv, TypeInv, C
<1>3. /\ server' \in ServerRecs
      /\ server'.unused = server.unused /\ server'.closed = server.closed
      /\ server'.live = server.live /\ server'.closing = server.closing
  <2> DEFINE m == ~server.master
  <2>1. m \in BOOLEAN /\ server' = [server EXCEPT !.master = m]
    BY <1>1
  <2> HIDE DEF m
  <2>2. server' \in ServerRecs
    BY <1>2, <2>1 DEF ServerRecs
  <2> QED BY <1>2, <2>1, <2>2 DEF ServerRecs
<1>4. TypeInv'
  <2>1. faults' \in 0..C.faults
    BY <1>1, <1>2
  <2> QED BY <1>1, <1>3, <2>1 DEF IInv, TypeInv, C
<1>5. Quiet /\ Silent /\ Closing /\ NoLogin
  BY <1>1, <1>3 DEF Quiet, Silent, Closing, NoLogin, Alike, AlikeSes
<1>6. GoInv' /\ PanicInv' /\ \A k \in Sockets : sock'[k].references = sock[k].references
  BY <1>1 DEF IInv, GoInv, PanicInv
<1> QED BY <1>4, <1>5, <1>6, QuietKeeps, SilentKeeps, ClosingKeeps, NoLoginKeeps DEF IInv

(* Close drops the cache and takes over the list of the open sockets.      *)
LEMMA CloseKeeps == IInv /\ Close => IInv'
<1> SUFFICES ASSUME IInv, Close PROVE IInv'
  OBVIOUS
<1>1. /\ ~server.closed /\ UNCHANGED <<config, sock, ses, go, faults, panic>>
      /\ server' = [server EXCEPT !.closed = TRUE, !.live = {}, !.unused = <<>>, !.closing = server.live]
  BY DEF Close
<1>2. server \in ServerRecs /\ server.live \subseteq Sockets
  BY DEF IInv, TypeInv, ServerRecs
<1>3. server' \in ServerRecs /\ server'.unused = <<>> /\ server'.closed /\ server'.closing = server.live
  <2> DEFINE L == server.live
             e == <<>>
  <2>1. server' = [server EXCEPT !.closed = TRUE, !.live = {}, !.unused = e, !.closing = L]
    BY <1>1
  <2>2. e \in Seq(Sockets) /\ L \subseteq Sockets
    BY <1>2
  <2> HIDE DEF e, L
  <2>3. server' \in ServerRecs /\ server'.unused = e /\ server'.closed /\ server'.closing = L
    BY <1>2, <2>1, <2>2 DEF ServerRecs
  <2> QED BY <2>3 DEF e, L
<1>4. TypeInv'
  BY <1>1, <1>3 DEF IInv, TypeInv, C
<1>5. Silent /\ NoLogin /\ ByNobody(go, go', ses, ses')
  BY <1>1 DEF Silent, NoLogin, ByNobody, Alike, AlikeSes
<1>6. GoInv' /\ SesInv' /\ PanicInv' /\ \A k \in Sockets : sock'[k].references = sock[k].references
  BY <1>1 DEF IInv, GoInv, SesInv, PanicInv
<1>7. ParkInv'
  <2>1. DOMAIN server'.unused = {}
    BY <1>3
  <2> QED BY <1>1, <2>1 DEF IInv, ParkInv
<1>8. LiveInv'
  BY <1>1, <1>3 DEF IInv, LiveInv
<1> QED BY <1>4, <1>5, <1>6, <1>7, <1>8, HoldingKeeps, SilentKeeps, NoLoginKeeps DEF IInv

LEMMA RemoveFacts ==
    ASSUME NEW q \in Seq(Sockets), \A i, j \in DOMAIN q : q[i] = q[j] => i = j, NEW k
    PROVE  LET r == removeSocket(q, k) IN
           /\ r \in Seq(Sockets)
           /\ \A i, j \in DOMAIN r : r[i] = r[j] => i = j
           /\ \A i \in DOMAIN r : \E j \in DOMAIN q : r[i] = q[j]
<1>1. CASE k \notin Range(q)
  BY <1>1 DEF removeSocket
<1>2. CASE k \in Range(q)
  <2> DEFINE c == CHOOSE i \in DOMAIN q : q[i] = k
             r == RemoveAt(q, c)
             n == Len(q)
  <2>1. c \in DOMAIN q
    BY <1>2 DEF Range
  <2>2. removeSocket(q, k) = r
    BY <1>2 DEF removeSocket
  <2> HIDE DEF c
  <2>3. n \in Nat /\ DOMAIN q = 1..n /\ c \in 1..n
    BY <2>1
  <2>4. /\ r \in Seq(Sockets) /\ Len(r) = n - 1
        /\ \A i \in 1..(n - 1) : r[i] = IF i < c THEN q[i] ELSE q[i + 1]
    <3> DEFINE a == SubSeq(q, 1, c - 1)
               b == SubSeq(q, c + 1, n)
    <3>1. a \in Seq(Sockets) /\ Len(a) = c - 1 /\ \A i \in 1..(c - 1) : a[i] = q[i]
      BY <2>3
    <3>2. b \in Seq(Sockets) /\ Len(b) = n - c /\ \A i \in 1..(n - c) : b[i] = q[i + c]
      <4>1. c + 1 \in 1..(n + 1) /\ n - (c + 1) + 1 = n - c
        BY <2>3
      <4>2. b \in Seq(Sockets)
        BY <4>1
      <4>3. Len(b) = n - c
        <5>1. Len(SubSeq(q, c + 1, n)) = IF c + 1 <= n THEN n - (c + 1) + 1 ELSE 0
          <6> DEFINE d == c + 1
          <6>1. d \in Int /\ n \in Int /\ \A i \in d..n : q[i] \in Sockets
            BY <2>3, <4>1
          <6> HIDE DEF d, n
          <6>2. Len(SubSeq(q, d, n)) = IF d <= n THEN n - d + 1 ELSE 0
            BY <6>1, SubSeqProperties
          <6> QED BY <6>2 DEF d
        <5> HIDE DEF n
        <5> QED BY <2>3, <5>1
      <4>4. ASSUME NEW i \in 1..(n - c) PROVE b[i] = q[i + c]
        <5>1. i + (c + 1) - 1 = i + c /\ i \in 1..(n - (c + 1) + 1)
          BY <2>3
        <5> QED BY <2>3, <5>1
      <4> QED BY <4>2, <4>3, <4>4
    <3>3. r = a \o b
      BY DEF RemoveAt
    <3> HIDE DEF a, b, n, r
    <3>4. r \in Seq(Sockets) /\ Len(r) = n - 1
      <4>1. r \in Seq(Sockets)
        BY <3>1, <3>2, <3>3
      <4>2. Len(r) = Len(a) + Len(b)
        BY <3>1, <3>2, <3>3, ConcatProperties
      <4>3. (c - 1) + (n - c) = n - 1
        BY <2>3
      <4> QED BY <3>1, <3>2, <4>1, <4>2, <4>3
    <3>5. ASSUME NEW i \in 1..(n - 1) PROVE r[i] = IF i < c THEN q[i] ELSE q[i + 1]
      <4>1. CASE i < c
        BY <2>3, <3>1, <3>2, <3>3, <3>5, <4>1
      <4>2. CASE ~(i < c)
        <5>1. r[i] = b[i - (c - 1)]
          BY <2>3, <3>1, <3>2, <3>3, <3>5, <4>2
        <5>2. i - (c - 1) \in 1..(n - c) /\ (i - (c - 1)) + c = i + 1
          BY <2>3, <3>5, <4>2
        <5> QED BY <3>2, <4>2, <5>1, <5>2
      <4> QED BY <4>1, <4>2
    <3> QED BY <3>4, <3>5
  <2> HIDE DEF r, n
  <2>5. DOMAIN r = 1..(n - 1)
    BY <2>3, <2>4
  <2>6. \A i \in DOMAIN r : \E j \in DOMAIN q : r[i] = q[j]
    BY SMTT(40), <2>3, <2>4, <2>5
  <2>7. \A i, j \in DOMAIN r : r[i] = r[j] => i = j
    BY <2>3, <2>4, <2>5
  <2> QED BY <2>2, <2>4, <2>6, <2>7
<1> QED BY <1>1, <1>2

(* AbendSocket takes a dead socket off the lists.                          *)
LEMMA AbendKeeps == ASSUME NEW k \in Sockets PROVE IInv /\ AbendSocket(k) => IInv'
<1> SUFFICES ASSUME IInv, AbendSocket(k) PROVE IInv'
  OBVIOUS
<1> DEFINE x == [sock[k] EXCEPT !.abending = FALSE]
           r == removeSocket(server.unused, k)
<1>1. /\ sock[k].abending /\ UNCHANGED <<config, ses, go, faults, panic>>
      /\ sock' = [sock EXCEPT ![k].abending = FALSE]
      /\ server' = IF server.closed THEN server ELSE [server EXCEPT !.live = @ \ {k}, !.unused = r]
  BY DEF AbendSocket
<1>2. server \in ServerRecs /\ server.unused \in Seq(Sockets) /\ sock \in [Sockets -> SockRecs] /\ sock[k] \in SockRecs /\ sock[k].dead
  BY <1>1 DEF IInv, TypeInv, ServerRecs, WireInv
<1>3. /\ r \in Seq(Sockets)
      /\ \A i, j \in DOMAIN r : r[i] = r[j] => i = j
      /\ \A i \in DOMAIN r : \E j \in DOMAIN server.unused : r[i] = server.unused[j]
  <2>1. \A i, j \in DOMAIN server.unused : server.unused[i] = server.unused[j] => i = j
    BY DEF IInv, ParkInv
  <2> QED BY <1>2, <2>1, RemoveFacts
<1> HIDE DEF r
<1>4. x \in SockRecs /\ x.references = sock[k].references /\ x.dead = sock[k].dead /\ x.wire = sock[k].wire
      /\ x.replyFuncs = sock[k].replyFuncs /\ ~x.abending
  <2>1. x \in SockRecs
    BY <1>2 DEF SockRecs
  <2> QED BY <1>2, <2>1 DEF SockRecs
<1>5. sock' = [sock EXCEPT ![k] = x]
  BY <1>1, <1>2
<1> HIDE DEF x
<1>6. /\ server' \in ServerRecs /\ server'.closed = server.closed /\ server'.closing = server.closing
      /\ server'.unused \in {server.unused, r} /\ (~server.closed => server'.live = server.live \ {k})
  BY <1>1, <1>2, <1>3 DEF ServerRecs
<1>7. TypeInv'
  BY <1>1, <1>2, <1>4, <1>5, <1>6 DEF IInv, TypeInv, C
<1>8. Silent /\ NoLogin /\ ByNobody(go, go', ses, ses')
  BY <1>1, <1>2, <1>4, <1>5 DEF Silent, NoLogin, ByNobody, Alike, AlikeSes
<1>9. GoInv' /\ SesInv' /\ PanicInv'
  BY <1>1 DEF IInv, GoInv, SesInv, PanicInv
<1>10. \A j \in Sockets : sock'[j].references = sock[j].references /\ sock'[j].dead = sock[j].dead
  BY <1>2, <1>4, <1>5
<1>11. ParkInv'
  <2>1. /\ \A i, j \in DOMAIN server'.unused : server'.unused[i] = server'.unused[j] => i = j
        /\ \A i \in DOMAIN server'.unused : \E j \in DOMAIN server.unused : server'.unused[i] = server.unused[j]
    BY <1>3, <1>6 DEF IInv, ParkInv
  <2>2. /\ \A s \in Sessions : go[s].pc = "initial" => go[s].sock \in Sockets
        /\ \A s \in Sessions : go[s].back \in Sockets \cup {None}
        /\ \A j \in DOMAIN server.unused : server.unused[j] \in Sockets
    BY <1>2 DEF IInv, TypeInv, GoInv, GoOk, GoRecs, HasSocket
  <2>3. ParkInv
    BY DEF IInv
  <2> QED BY <1>1, <1>10, <2>1, <2>2, <2>3 DEF ParkInv
<1>12. LiveInv'
  BY <1>1, <1>2, <1>6, <1>10 DEF IInv, LiveInv
<1> QED BY <1>7, <1>8, <1>9, <1>10, <1>11, <1>12, HoldingKeeps, SilentKeeps, NoLoginKeeps DEF IInv


-----------------------------------------------------------------------------
(* The connection of a socket: requests, replies and failures.             *)

(* The socket k dies: those in its replyFuncs are told, or were cut off.   *)
Killed(k, x) ==
    /\ sock' = [sock EXCEPT ![k] = x]
    /\ x.references = sock[k].references /\ x.dead /\ x.wire = <<>> /\ x.replyFuncs = {}
    /\ \A s \in Sessions :
         \/ s \notin sock[k].replyFuncs /\ go'[s] = go[s]
         \/ s \in sock[k].replyFuncs /\ go'[s] = [go[s] EXCEPT !.pc = "failed"]
         \/ s \in sock[k].replyFuncs /\ go'[s] = [go[s] EXCEPT !.cut = TRUE]

LEMMA KillKeeps ==
    ASSUME NEW k \in Sockets, NEW x \in SockRecs
    PROVE  /\ IInv /\ Killed(k, x)
           /\ go' \in [Sessions -> GoRecs]
           /\ UNCHANGED <<config, ses, panic>> /\ faults' \in 0..C.faults /\ server' \in ServerRecs
           /\ server'.unused = server.unused /\ server'.closed = server.closed /\ server'.live = server.live
           /\ server'.closing \in {server.closing, server.closing \ {k}}
           => IInv'
<1> SUFFICES ASSUME IInv, Killed(k, x), go' \in [Sessions -> GoRecs], UNCHANGED <<config, ses, panic>>,
                    faults' \in 0..C.faults, server' \in ServerRecs,
                    server'.unused = server.unused, server'.closed = server.closed, server'.live = server.live,
                    server'.closing \in {server.closing, server.closing \ {k}}
             PROVE  IInv'
  BY Zenon
<1>0. /\ sock \in [Sockets -> SockRecs] /\ go \in [Sessions -> GoRecs] /\ WireInv /\ NoForgottenWaiter
      /\ GoInv /\ LiveInv
  BY DEF IInv, TypeInv
<1>1. /\ sock' \in [Sockets -> SockRecs] /\ sock'[k] = x /\ \A j \in Sockets : j # k => sock'[j] = sock[j]
      /\ x.references = sock[k].references /\ x.dead /\ x.wire = <<>> /\ x.replyFuncs = {}
  BY <1>0 DEF Killed
<1>2. ASSUME NEW s \in Sessions, s \in sock[k].replyFuncs
      PROVE  /\ go[s].pc = "wait" /\ go[s].sock = k
             /\ Alike(go[s], go'[s]) /\ go'[s].back = go[s].back /\ GoOk(go'[s])
             /\ LoginPhase(go'[s]) => LoginPhase(go[s])
             /\ go'[s].pc = "failed" \/ go'[s].cut
             /\ go'[s].pc # "append"
  <2>1. go[s].pc = "wait" /\ go[s].sock = k /\ go[s] \in GoRecs /\ GoOk(go[s])
    BY <1>0, <1>2 DEF WireInv, GoInv
  <2>2. CASE go'[s] = [go[s] EXCEPT !.pc = "failed"]
    <3> DEFINE h == [go[s] EXCEPT !.pc = "failed"]
    <3>1. h.pc = "failed" /\ h.sock = go[s].sock /\ h.todo = go[s].todo /\ h.back = go[s].back
          /\ h.op = go[s].op /\ h.arg = go[s].arg
      BY <2>1 DEF GoRecs
    <3>2. go'[s] = h
      BY <2>2
    <3> HIDE DEF h
    <3>3. GoOk(h) /\ ~LoginPhase(h)
      BY <2>1, <3>1 DEF GoOk, LoginPhase, Talking, HasSocket, NoSocketYet
    <3> QED BY <2>1, <3>1, <3>2, <3>3 DEF Alike
  <2>3. CASE go'[s] = [go[s] EXCEPT !.cut = TRUE]
    <3> DEFINE h == [go[s] EXCEPT !.cut = TRUE]
    <3>1. h.cut /\ h.pc = go[s].pc /\ h.sock = go[s].sock /\ h.todo = go[s].todo /\ h.back = go[s].back
          /\ h.op = go[s].op /\ h.arg = go[s].arg /\ h.req = go[s].req /\ h.ret = go[s].ret /\ h.cred = go[s].cred
      BY <2>1 DEF GoRecs
    <3>2. go'[s] = h
      BY <2>3
    <3> HIDE DEF h
    <3>3. GoOk(h) /\ (LoginPhase(h) => LoginPhase(go[s]))
      BY <2>1, <3>1 DEF GoOk, LoginPhase, Talking, HasSocket, NoSocketYet
    <3> QED BY <2>1, <3>1, <3>2, <3>3 DEF Alike
  <2> QED BY <1>2, <2>2, <2>3 DEF Killed
<1>3. \A s \in Sessions : s \notin sock[k].replyFuncs => go'[s] = go[s]
  BY DEF Killed
<1>4. TypeInv'
  BY <1>0, <1>1 DEF IInv, TypeInv, C
<1>5. GoInv'
  BY <1>0, <1>2, <1>3 DEF GoInv
<1>6. \A j \in Sockets : sock'[j].references = sock[j].references
  BY <1>1
<1>7. Quiet
  BY <1>2, <1>3, <1>6 DEF Quiet, Alike, AlikeSes
<1>8. NoLogin
  BY <1>2, <1>3 DEF NoLogin, Alike
<1>9. WireInv'
  <2> SUFFICES ASSUME NEW j \in Sockets
               PROVE  /\ sock'[j].dead => sock'[j].wire = <<>> /\ sock'[j].replyFuncs = {}
                      /\ sock'[j].abending => sock'[j].dead
                      /\ \A s \in sock'[j].replyFuncs : go'[s].pc = "wait" /\ go'[s].sock = j
                      /\ \A i \in DOMAIN sock'[j].wire :
                           LET m == sock'[j].wire[i] IN
                             /\ m.kind \in {"query", "login"} => m.by \in sock'[j].replyFuncs /\ m.kind = go'[m.by].req
                             /\ m.kind = "login" => m.cred \in DOMAIN Creds
                      /\ \A i, i2 \in DOMAIN sock'[j].wire : SameWaiter(sock'[j].wire[i], sock'[j].wire[i2]) => i = i2
    BY DEF WireInv
  <2>1. CASE j = k
    <3>1. DOMAIN sock'[j].wire = {}
      BY <1>1, <2>1
    <3> QED BY <1>1, <2>1, <3>1
  <2>2. CASE j # k
    <3>1. sock'[j] = sock[j]
      BY <1>1, <2>2
    <3>2. \A s \in sock[j].replyFuncs : s \in Sessions /\ go[s].pc = "wait" /\ go[s].sock = j
      BY <1>0 DEF WireInv, SockRecs
    <3>3. \A s \in sock[j].replyFuncs : go'[s] = go[s]
      BY <1>2, <1>3, <2>2, <3>2
    <3> QED BY <1>0, <3>1, <3>2, <3>3 DEF WireInv
  <2> QED BY <2>1, <2>2
<1>10. NoForgottenWaiter'
  <2> SUFFICES ASSUME NEW s \in Sessions, go'[s].pc = "wait", ~go'[s].cut
               PROVE  ~sock'[go'[s].sock].dead /\ s \in sock'[go'[s].sock].replyFuncs
    BY DEF NoForgottenWaiter
  <2>1. s \notin sock[k].replyFuncs /\ go'[s] = go[s]
    BY <1>2, <1>3
  <2>2. go[s].sock \in Sockets
    BY <1>0, <2>1 DEF GoInv, GoOk, HasSocket
  <2>3. ~sock[go[s].sock].dead /\ s \in sock[go[s].sock].replyFuncs
    BY <1>0, <2>1 DEF NoForgottenWaiter
  <2> QED BY <1>1, <2>1, <2>2, <2>3
<1>11. LiveInv'
  <2> SUFFICES ASSUME NEW j \in Sockets, j # k
               PROVE  \/ sock'[j].dead
                      \/ j \in IF server'.closed THEN server'.closing ELSE server'.live
                      \/ \E s \in Sessions : go'[s].pc = "append" /\ go'[s].sock = j
    BY <1>1 DEF LiveInv
  <2>1. \A s \in Sessions : go[s].pc = "append" => go'[s] = go[s]
    BY <1>2, <1>3
  <2>2. \/ sock[j].dead
        \/ j \in IF server.closed THEN server.closing ELSE server.live
        \/ \E s \in Sessions : go[s].pc = "append" /\ go[s].sock = j
    BY <1>0 DEF LiveInv
  <2> QED BY <1>1, <2>1, <2>2
<1>12. PanicInv'
  BY DEF IInv, PanicInv
<1> QED BY <1>4, <1>5, <1>6, <1>7, <1>8, <1>9, <1>10, <1>11, <1>12, QuietKeeps, NoLoginKeeps DEF IInv

(* What Told does to the goroutines.                                       *)
LEMMA ToldFacts ==
    ASSUME NEW k \in Sockets
    PROVE  IInv => /\ Told(sock[k].replyFuncs) \in [Sessions -> GoRecs]
                   /\ \A s \in Sessions : Told(sock[k].replyFuncs)[s] =
                        IF s \in sock[k].replyFuncs THEN [go[s] EXCEPT !.pc = "failed"] ELSE go[s]
<1> SUFFICES ASSUME IInv
             PROVE  /\ Told(sock[k].replyFuncs) \in [Sessions -> GoRecs]
                    /\ \A s \in Sessions : Told(sock[k].replyFuncs)[s] =
                         IF s \in sock[k].replyFuncs THEN [go[s] EXCEPT !.pc = "failed"] ELSE go[s]
  OBVIOUS
<1>1. \A s \in Sessions : go[s] \in GoRecs /\ [go[s] EXCEPT !.pc = "failed"] \in GoRecs
  <2>1. \A g \in GoRecs : [g EXCEPT !.pc = "failed"] \in GoRecs
    BY DEF GoRecs, Pcs
  <2> QED BY <2>1 DEF IInv, TypeInv
<1>2. \A s \in sock[k].replyFuncs : go[s].pc = "wait"
  BY DEF IInv, WireInv
<1> QED BY <1>1, <1>2 DEF Told

LEMMA CloseSocketKeeps == ASSUME NEW k \in Sockets PROVE IInv /\ closeSocket(k) => IInv'
<1> SUFFICES ASSUME IInv, closeSocket(k) PROVE IInv'
  OBVIOUS
<1> DEFINE x == kill(sock[k], FALSE)
           L == server.closing \ {k}
<1>1. /\ server' = [server EXCEPT !.closing = L] /\ sock' = [sock EXCEPT ![k] = x]
      /\ go' = Told(sock[k].replyFuncs) /\ UNCHANGED <<config, ses, faults, panic>>
  BY DEF closeSocket, IInv, TypeInv
<1>2. sock[k] \in SockRecs /\ server \in ServerRecs /\ faults \in 0..C.faults
      /\ (sock[k].dead => sock[k].wire = <<>> /\ sock[k].replyFuncs = {})
  BY DEF IInv, TypeInv, WireInv
<1>3. x \in SockRecs /\ x.references = sock[k].references /\ x.dead /\ x.wire = <<>> /\ x.replyFuncs = {}
  BY <1>2, KillFacts
<1>4. server' \in ServerRecs /\ server'.unused = server.unused /\ server'.closed = server.closed
      /\ server'.live = server.live /\ server'.closing \in {server.closing, server.closing \ {k}}
  BY <1>1, <1>2 DEF ServerRecs
<1> HIDE DEF x
<1>5. Killed(k, x) /\ go' \in [Sessions -> GoRecs]
  BY <1>1, <1>3, ToldFacts DEF Killed
<1> QED BY <1>1, <1>2, <1>3, <1>4, <1>5, KillKeeps DEF C

LEMMA ReadFailsKeeps == ASSUME NEW k \in Sockets PROVE IInv /\ readFails(k) => IInv'
<1> SUFFICES ASSUME IInv, readFails(k) PROVE IInv'
  OBVIOUS
<1> DEFINE x == kill(sock[k], TRUE)
<1>1. /\ ~sock[k].dead /\ sock' = [sock EXCEPT ![k] = x] /\ (faults' = faults \/ (faults < C.faults /\ faults' = faults + 1))
      /\ go' = Told(sock[k].replyFuncs) /\ UNCHANGED <<config, ses, server, panic>>
  BY DEF readFails, IInv, TypeInv
<1>2. sock[k] \in SockRecs /\ server \in ServerRecs /\ faults \in 0..C.faults /\ C.faults \in Nat
  BY ScenariosAssumption DEF IInv, TypeInv, C
<1>3. x \in SockRecs /\ x.references = sock[k].references /\ x.dead /\ x.wire = <<>> /\ x.replyFuncs = {}
  BY <1>1, <1>2, KillFacts
<1>4. faults' \in 0..C.faults
  BY <1>1, <1>2
<1> HIDE DEF x
<1>5. Killed(k, x) /\ go' \in [Sessions -> GoRecs]
  BY <1>1, <1>3, ToldFacts DEF Killed
<1> QED BY <1>1, <1>2, <1>3, <1>4, <1>5, KillKeeps

(* The head of what is on a connection.                                    *)
LEMMA HeadFacts ==
    ASSUME NEW k \in Sockets
    PROVE  IInv /\ sock[k].wire # <<>> =>
             LET m == Head(sock[k].wire) IN
             /\ m \in Requests /\ 1 \in DOMAIN sock[k].wire /\ m = sock[k].wire[1]
             /\ Tail(sock[k].wire) \in Seq(Requests) /\ Len(Tail(sock[k].wire)) = Len(sock[k].wire) - 1
             /\ \A i \in DOMAIN Tail(sock[k].wire) :
                  i + 1 \in DOMAIN sock[k].wire /\ Tail(sock[k].wire)[i] = sock[k].wire[i + 1]
             /\ m.kind \in {"query", "login"} => m.by \in sock[k].replyFuncs /\ m.kind = go[m.by].req
             /\ m.kind = "login" => m.cred \in DOMAIN Creds
<1> SUFFICES ASSUME IInv, sock[k].wire # <<>>
             PROVE  LET m == Head(sock[k].wire) IN
                    /\ m \in Requests /\ 1 \in DOMAIN sock[k].wire /\ m = sock[k].wire[1]
                    /\ Tail(sock[k].wire) \in Seq(Requests) /\ Len(Tail(sock[k].wire)) = Len(sock[k].wire) - 1
                    /\ \A i \in DOMAIN Tail(sock[k].wire) :
                         i + 1 \in DOMAIN sock[k].wire /\ Tail(sock[k].wire)[i] = sock[k].wire[i + 1]
                    /\ m.kind \in {"query", "login"} => m.by \in sock[k].replyFuncs /\ m.kind = go[m.by].req
                    /\ m.kind = "login" => m.cred \in DOMAIN Creds
  OBVIOUS
<1>1. sock[k].wire \in Seq(Requests) /\ WireInv
  BY DEF IInv, TypeInv, SockRecs
<1> DEFINE w == sock[k].wire
<1>2. \A S : \A q \in Seq(S) : q # <<>> => /\ 1 \in DOMAIN q /\ Head(q) = q[1] /\ Head(q) \in S
                                          /\ Tail(q) \in Seq(S) /\ Len(Tail(q)) = Len(q) - 1
                                          /\ \A i \in DOMAIN Tail(q) : i + 1 \in DOMAIN q /\ Tail(q)[i] = q[i + 1]
  <2> TAKE S
  <2> TAKE q \in Seq(S)
  <2> HAVE q # <<>>
  <2>1. Len(q) \in Nat /\ Len(q) # 0
    OBVIOUS
  <2> QED BY <2>1, HeadTailProperties
<1>3. /\ w[1].kind \in {"query", "login"} => w[1].by \in sock[k].replyFuncs /\ w[1].kind = go[w[1].by].req
      /\ w[1].kind = "login" => w[1].cred \in DOMAIN Creds
  <2>1. 1 \in DOMAIN w
    BY <1>1, <1>2
  <2> QED BY <1>1, <2>1 DEF WireInv
<1> HIDE DEF Requests
<1> QED BY <1>1, <1>2, <1>3

LEMMA ProcessedFacts ==
    ASSUME NEW k \in SockRecs, NEW m \in Requests, m.kind = "login" => m.cred \in DOMAIN Creds,
           Tail(k.wire) \in Seq(Requests)
    PROVE  LET r == Processed(k, m) IN
           /\ r \in SockRecs /\ r.wire = Tail(k.wire) /\ r.replyFuncs = k.replyFuncs
           /\ r.references = k.references /\ r.dead = k.dead /\ r.abending = k.abending
           /\ r.creds = k.creds
<1> DEFINE L == IF m.kind = "logout" THEN k.lost \ m.dbs
                ELSE IF m.kind \in {"query", "nonce"} \/ m.cred \in C.rejected \/ ~m.last THEN k.lost
                ELSE k.lost \ {Source(m.cred)}
           A == IF m.kind = "logout" THEN {c \in k.auth : Source(c) \notin m.dbs}
                ELSE IF m.kind \in {"query", "nonce"} \/ m.cred \in C.rejected \/ ~m.last THEN k.auth
                ELSE {c \in k.auth : Source(c) # Source(m.cred)} \cup {m.cred}
           w == Tail(k.wire)
<1>1. Processed(k, m) = [k EXCEPT !.wire = w, !.lost = L, !.auth = A]
  BY DEF Processed
<1>2. m.kind \in {"logout", "query", "nonce", "login"}
  BY DEF Requests
<1>3. A \in SUBSET DOMAIN Creds /\ L \in SUBSET Sources
  BY <1>2 DEF SockRecs
<1>4. w \in Seq(Requests)
  OBVIOUS
<1> HIDE DEF A, L, w
<1>5. [k EXCEPT !.wire = w, !.lost = L, !.auth = A] \in SockRecs
  BY <1>3, <1>4 DEF SockRecs
<1> HIDE DEF Requests
<1> QED BY <1>1, <1>5 DEF SockRecs, w

LEMMA ReadCutKeeps == ASSUME NEW k \in Sockets PROVE IInv /\ readCut(k) => IInv'
<1> SUFFICES ASSUME IInv, readCut(k) PROVE IInv'
  OBVIOUS
<1> DEFINE m == Head(sock[k].wire)
           gone == IF m.kind = "nonce" THEN {} ELSE {m.by}
           y == Processed(sock[k], m)
           x == kill(y, TRUE)
           T == Told(sock[k].replyFuncs)
<1>1. /\ ~sock[k].dead /\ sock[k].wire # <<>> /\ m.kind # "logout"
      /\ faults < C.faults /\ faults' = faults + 1
      /\ sock' = [sock EXCEPT ![k] = x]
      /\ go' = [s \in Sessions |-> IF s \in gone THEN [go[s] EXCEPT !.cut = TRUE] ELSE T[s]]
      /\ UNCHANGED <<config, server, ses, panic>>
  BY DEF readCut, IInv, TypeInv
<1>2. sock[k] \in SockRecs /\ server \in ServerRecs /\ faults \in 0..C.faults /\ C.faults \in Nat
  BY ScenariosAssumption DEF IInv, TypeInv, C
<1>3. /\ m \in Requests /\ Tail(sock[k].wire) \in Seq(Requests)
      /\ m.kind \in {"query", "login"} => m.by \in sock[k].replyFuncs
      /\ m.kind = "login" => m.cred \in DOMAIN Creds
  BY <1>1, HeadFacts
<1>4. m.kind \in {"logout", "query", "nonce", "login"}
  BY <1>3 DEF Requests
<1> HIDE DEF m
<1>5. gone \subseteq sock[k].replyFuncs
  BY <1>1, <1>3, <1>4
<1> HIDE DEF gone
<1>6. y \in SockRecs /\ y.references = sock[k].references /\ ~y.dead
  BY <1>1, <1>2, <1>3, ProcessedFacts
<1> HIDE DEF y
<1>7. x \in SockRecs /\ x.references = sock[k].references /\ x.dead /\ x.wire = <<>> /\ x.replyFuncs = {}
  BY <1>6, KillFacts
<1> HIDE DEF x
<1>8. /\ T \in [Sessions -> GoRecs]
      /\ \A s \in Sessions : T[s] = IF s \in sock[k].replyFuncs THEN [go[s] EXCEPT !.pc = "failed"] ELSE go[s]
  BY ToldFacts
<1> HIDE DEF T
<1>9. \A s \in Sessions : [go[s] EXCEPT !.cut = TRUE] \in GoRecs
  <2>1. \A g \in GoRecs : [g EXCEPT !.cut = TRUE] \in GoRecs
    BY DEF GoRecs
  <2> QED BY <2>1 DEF IInv, TypeInv
<1>10. Killed(k, x) /\ go' \in [Sessions -> GoRecs]
  BY <1>1, <1>5, <1>7, <1>8, <1>9 DEF Killed
<1>11. faults' \in 0..C.faults
  BY <1>1, <1>2
<1> QED BY <1>1, <1>2, <1>7, <1>10, <1>11, KillKeeps

(* The first of the replies that the socket k waits for is taken; h is the *)
(* goroutine it was for, if any.                                           *)
Answered(k, x, h) ==
    LET m == Head(sock[k].wire) IN
    /\ ~sock[k].dead /\ sock[k].wire # <<>>
    /\ sock' = [sock EXCEPT ![k] = x]
    /\ x.references = sock[k].references /\ ~x.dead /\ x.abending = sock[k].abending /\ x.wire = Tail(sock[k].wire)
    /\ \/ m.kind \in {"logout", "nonce"} /\ x.replyFuncs = sock[k].replyFuncs /\ go' = go
       \/ /\ m.kind \in {"query", "login"} /\ x.replyFuncs = sock[k].replyFuncs \ {m.by}
          /\ go' = [go EXCEPT ![m.by] = h]
          /\ h \in GoRecs /\ GoOk(h) /\ Alike(go[m.by], h) /\ h.back = go[m.by].back
          /\ h.pc \notin {"wait", "append"} /\ (LoginPhase(h) => LoginPhase(go[m.by]))

LEMMA AnswerKeeps ==
    ASSUME NEW k \in Sockets, NEW x \in SockRecs, NEW h
    PROVE  IInv /\ Answered(k, x, h) /\ UNCHANGED <<config, server, ses, faults>> /\ PanicInv' => IInv'
<1> SUFFICES ASSUME IInv, Answered(k, x, h), UNCHANGED <<config, server, ses, faults>>, PanicInv'
             PROVE  IInv'
  OBVIOUS
<1> DEFINE m == Head(sock[k].wire)
           n == sock[k].wire
<1>0. /\ sock \in [Sockets -> SockRecs] /\ go \in [Sessions -> GoRecs] /\ WireInv /\ NoForgottenWaiter
      /\ GoInv /\ LiveInv
  BY DEF IInv, TypeInv
<1>1. /\ sock' \in [Sockets -> SockRecs] /\ sock'[k] = x /\ \A j \in Sockets : j # k => sock'[j] = sock[j]
      /\ x.references = sock[k].references /\ ~x.dead /\ x.abending = sock[k].abending /\ x.wire = Tail(sock[k].wire)
      /\ ~sock[k].dead /\ sock[k].wire # <<>>
  BY <1>0 DEF Answered
<1>2. /\ 1 \in DOMAIN n /\ m = n[1] /\ Tail(n) \in Seq(Requests)
      /\ \A i \in DOMAIN Tail(n) : i \in Nat /\ i # 0 /\ i + 1 \in DOMAIN n /\ Tail(n)[i] = n[i + 1]
      /\ m.kind \in {"query", "login"} => m.by \in sock[k].replyFuncs
  <2>1. \A q \in Seq(Requests) : \A i \in DOMAIN q : i \in Nat /\ i # 0
    OBVIOUS
  <2> HIDE DEF Requests
  <2> QED BY <1>1, <2>1, HeadFacts
<1>3. \/ m.kind \in {"logout", "nonce"} /\ x.replyFuncs = sock[k].replyFuncs /\ go' = go
      \/ /\ m.kind \in {"query", "login"} /\ x.replyFuncs = sock[k].replyFuncs \ {m.by}
         /\ go' = [go EXCEPT ![m.by] = h]
         /\ h \in GoRecs /\ GoOk(h) /\ Alike(go[m.by], h) /\ h.back = go[m.by].back
         /\ h.pc \notin {"wait", "append"} /\ (LoginPhase(h) => LoginPhase(go[m.by]))
  BY DEF Answered
<1>4. \A s \in sock[k].replyFuncs : s \in Sessions /\ go[s].pc = "wait" /\ go[s].sock = k
  BY <1>0 DEF WireInv, SockRecs
<1> HIDE DEF m
<1>5. ASSUME NEW s \in Sessions
      PROVE  \/ go'[s] = go[s] /\ (s \in sock[k].replyFuncs => s \in x.replyFuncs)
             \/ /\ s = m.by /\ m.kind \in {"query", "login"}
                /\ go'[s] = h /\ h \in GoRecs /\ GoOk(h) /\ Alike(go[s], h) /\ h.back = go[s].back
                /\ h.pc \notin {"wait", "append"} /\ (LoginPhase(h) => LoginPhase(go[s]))
                /\ s \in sock[k].replyFuncs
  BY <1>0, <1>2, <1>3
<1>6. TypeInv'
  <2>1. go' \in [Sessions -> GoRecs]
    BY <1>0, <1>2, <1>3
  <2> QED BY <1>1, <2>1 DEF IInv, TypeInv, C
<1>7. GoInv'
  BY <1>0, <1>5 DEF GoInv
<1>8. \A j \in Sockets : sock'[j].references = sock[j].references
  BY <1>1
<1>9. Quiet
  BY <1>4, <1>5, <1>8 DEF Quiet, Alike, AlikeSes
<1>10. NoLogin
  BY <1>5 DEF NoLogin, Alike
<1>11. Closing
  <2>1. \A s \in Sessions : go[s].pc = "append" => go'[s] = go[s]
    BY <1>4, <1>5
  <2> QED BY <1>1, <2>1 DEF Closing
<1>12. WireInv'
  <2> SUFFICES ASSUME NEW j \in Sockets
               PROVE  /\ sock'[j].dead => sock'[j].wire = <<>> /\ sock'[j].replyFuncs = {}
                      /\ sock'[j].abending => sock'[j].dead
                      /\ \A s \in sock'[j].replyFuncs : go'[s].pc = "wait" /\ go'[s].sock = j
                      /\ \A i \in DOMAIN sock'[j].wire :
                           LET r == sock'[j].wire[i] IN
                             /\ r.kind \in {"query", "login"} => r.by \in sock'[j].replyFuncs /\ r.kind = go'[r.by].req
                             /\ r.kind = "login" => r.cred \in DOMAIN Creds
                      /\ \A i, i2 \in DOMAIN sock'[j].wire : SameWaiter(sock'[j].wire[i], sock'[j].wire[i2]) => i = i2
    BY DEF WireInv
  <2>1. CASE j = k
    <3>1. ~sock'[j].dead /\ (sock'[j].abending => sock'[j].dead)
      BY <1>0, <1>1, <2>1 DEF WireInv
    <3>2. \A s \in x.replyFuncs : s \in sock[k].replyFuncs /\ go'[s] = go[s]
      BY <1>0, <1>3, <1>4
    <3>3. /\ \A i \in DOMAIN n :
               LET r == n[i] IN
                 /\ r.kind \in {"query", "login"} => r.by \in sock[k].replyFuncs /\ r.kind = go[r.by].req
                 /\ r.kind = "login" => r.cred \in DOMAIN Creds
          /\ \A i, i2 \in DOMAIN n : SameWaiter(n[i], n[i2]) => i = i2
      BY <1>0 DEF WireInv
    <3> HIDE DEF n
    <3>4. ASSUME NEW i \in DOMAIN Tail(n)
          PROVE  LET r == Tail(n)[i] IN
                 /\ r.kind \in {"query", "login"} => r.by \in x.replyFuncs /\ r.kind = go'[r.by].req
                 /\ r.kind = "login" => r.cred \in DOMAIN Creds
      <4> DEFINE r == n[i + 1]
      <4>1. Tail(n)[i] = r /\ i + 1 \in DOMAIN n /\ i + 1 # 1
        BY <1>2
      <4>2. /\ r.kind \in {"query", "login"} => r.by \in sock[k].replyFuncs /\ r.kind = go[r.by].req
            /\ r.kind = "login" => r.cred \in DOMAIN Creds
        BY <3>3, <4>1
      <4>3. ~SameWaiter(n[1], r)
        BY <1>2, <3>3, <4>1
      <4> HIDE DEF r
      <4>4. r.kind \in {"query", "login"} => r.by \in x.replyFuncs
        BY <1>2, <1>3, <4>2, <4>3 DEF SameWaiter
      <4> QED BY <3>2, <4>1, <4>2, <4>4
    <3>5. \A i, i2 \in DOMAIN Tail(n) : SameWaiter(Tail(n)[i], Tail(n)[i2]) => i = i2
      <4> SUFFICES ASSUME NEW i \in DOMAIN Tail(n), NEW i2 \in DOMAIN Tail(n), SameWaiter(Tail(n)[i], Tail(n)[i2])
                   PROVE  i = i2
        OBVIOUS
      <4>1. i + 1 = i2 + 1
        BY <1>2, <3>3
      <4> QED BY <1>2, <4>1
    <3>6. sock'[j].wire = Tail(n) /\ sock'[j].replyFuncs = x.replyFuncs
      BY <1>1, <2>1 DEF n
    <3>7. \A s \in x.replyFuncs : go'[s].pc = "wait" /\ go'[s].sock = j
      BY <1>4, <2>1, <3>2
    <3> QED BY <3>1, <3>4, <3>5, <3>6, <3>7
  <2>2. CASE j # k
    <3>1. sock'[j] = sock[j]
      BY <1>1, <2>2
    <3>2. \A s \in sock[j].replyFuncs : s \in Sessions /\ go[s].pc = "wait" /\ go[s].sock = j
      BY <1>0 DEF WireInv, SockRecs
    <3>3. \A s \in sock[j].replyFuncs : go'[s] = go[s]
      BY <1>4, <1>5, <2>2, <3>2
    <3> QED BY <1>0, <3>1, <3>2, <3>3 DEF WireInv
  <2> QED BY <2>1, <2>2
<1>13. NoForgottenWaiter'
  <2> SUFFICES ASSUME NEW s \in Sessions, go'[s].pc = "wait", ~go'[s].cut
               PROVE  ~sock'[go'[s].sock].dead /\ s \in sock'[go'[s].sock].replyFuncs
    BY DEF NoForgottenWaiter
  <2>1. go'[s] = go[s] /\ (s \in sock[k].replyFuncs => s \in x.replyFuncs)
    BY <1>5
  <2>2. go[s].sock \in Sockets
    BY <1>0, <2>1 DEF GoInv, GoOk, HasSocket
  <2>3. ~sock[go[s].sock].dead /\ s \in sock[go[s].sock].replyFuncs
    BY <1>0, <2>1 DEF NoForgottenWaiter
  <2> QED BY <1>1, <2>1, <2>2, <2>3
<1> QED BY <1>6, <1>7, <1>8, <1>9, <1>10, <1>11, <1>12, <1>13, QuietKeeps, NoLoginKeeps, ClosingKeeps DEF IInv

LEMMA ReadReplyKeeps == ASSUME NEW k \in Sockets PROVE IInv /\ readReply(k) => IInv'
<1> SUFFICES ASSUME IInv, readReply(k) PROVE IInv'
  OBVIOUS
<1> DEFINE m == Head(sock[k].wire)
           y == Processed(sock[k], m)
           F == IF m.kind \in {"logout", "nonce"} THEN sock[k].replyFuncs ELSE sock[k].replyFuncs \ {m.by}
           o == y.nonce \/ m.kind = "nonce"
           r == [y EXCEPT !.replyFuncs = F, !.nonce = o]
           accepted == m.kind = "login" /\ m.cred \notin C.rejected
           x == IF accepted /\ m.last THEN keepCred(r, m.cred) ELSE r
           g == go[m.by]
           p == IF m.kind = "query" THEN "release" ELSE "failed"
           h == IF accepted /\ m.last THEN [g EXCEPT !.pc = g.ret]
                ELSE IF accepted THEN [g EXCEPT !.pc = "flush", !.round = @ + 1]
                ELSE [g EXCEPT !.pc = p]
<1>1. /\ ~sock[k].dead /\ sock[k].wire # <<>> /\ UNCHANGED <<config, server, ses, faults>>
      /\ panic' = IF m.kind = "nonce" /\ sock[k].nonce THEN "nonce already cached" ELSE panic
  BY DEF readReply
<1>2. /\ sock[k] \in SockRecs /\ go \in [Sessions -> GoRecs] /\ GoInv /\ sock \in [Sockets -> SockRecs]
      /\ \A s \in sock[k].replyFuncs : s \in Sessions /\ go[s].pc = "wait" /\ go[s].sock = k
  BY DEF IInv, TypeInv, WireInv, SockRecs
<1>3. /\ m \in Requests /\ Tail(sock[k].wire) \in Seq(Requests)
      /\ m.kind \in {"query", "login"} => m.by \in sock[k].replyFuncs /\ m.kind = go[m.by].req
      /\ m.kind = "login" => m.cred \in DOMAIN Creds
  BY <1>1, HeadFacts
<1>4. m.kind \in {"logout", "query", "nonce", "login"}
  BY <1>3 DEF Requests
<1>5. y \in SockRecs /\ y.references = sock[k].references /\ ~y.dead /\ y.abending = sock[k].abending
      /\ y.wire = Tail(sock[k].wire)
  <2> HIDE DEF m
  <2>1. /\ y \in SockRecs /\ y.references = sock[k].references /\ y.dead = sock[k].dead /\ y.abending = sock[k].abending
        /\ y.wire = Tail(sock[k].wire)
    <3> DEFINE q == sock[k]
    <3>1. q \in SockRecs /\ Tail(q.wire) \in Seq(Requests) /\ m \in Requests /\ (m.kind = "login" => m.cred \in DOMAIN Creds)
      BY <1>2, <1>3
    <3> HIDE DEF q
    <3>2. /\ Processed(q, m) \in SockRecs /\ Processed(q, m).references = q.references
          /\ Processed(q, m).dead = q.dead /\ Processed(q, m).abending = q.abending
          /\ Processed(q, m).wire = Tail(q.wire)
      BY <3>1, ProcessedFacts
    <3> QED BY <3>2 DEF q
  <2> QED BY <1>1, <2>1
<1>6. x \in SockRecs /\ x.references = sock[k].references /\ ~x.dead /\ x.abending = sock[k].abending
      /\ x.wire = Tail(sock[k].wire) /\ x.replyFuncs = F
  <2>1. F \in SUBSET Sessions /\ o \in BOOLEAN
    BY <1>2 DEF SockRecs
  <2> HIDE DEF F, o, y
  <2>2. r \in SockRecs
    BY <1>5, <2>1 DEF SockRecs
  <2>3. /\ r.references = y.references /\ r.dead = y.dead /\ r.abending = y.abending /\ r.wire = y.wire
        /\ r.replyFuncs = F
    BY <1>5 DEF SockRecs
  <2> HIDE DEF r
  <2>4. CASE accepted /\ m.last
    <3> DEFINE D == {c \in r.creds : Source(c) # Source(m.cred)} \cup {m.cred}
    <3>1. D \in SUBSET DOMAIN Creds /\ r.logout \in SUBSET DOMAIN Creds
      BY <1>3, <2>2, <2>4 DEF SockRecs
    <3>2. x = WithCreds(r, r.logout, D)
      BY <2>2, <2>4 DEF keepCred, dropAuth, WithCreds, SockRecs
    <3> HIDE DEF D, x
    <3>3. x \in SockRecs /\ SameSocket(r, x)
      BY <2>2, <3>1, <3>2, CredsFacts
    <3> QED BY <1>5, <2>3, <3>3 DEF SameSocket
  <2>5. CASE ~(accepted /\ m.last)
    <3>1. x = r
      BY <2>5
    <3> QED BY <1>5, <2>2, <2>3, <3>1
  <2> QED BY <2>4, <2>5
<1>7. sock' = [sock EXCEPT ![k] = x]
  <2>1. sock' = [sock EXCEPT ![k] = IF accepted /\ m.last
                  THEN keepCred([Processed(sock[k], m) EXCEPT
                         !.replyFuncs = IF m.kind \in {"logout", "nonce"} THEN @ ELSE @ \ {m.by},
                         !.nonce = @ \/ m.kind = "nonce"], m.cred)
                  ELSE [Processed(sock[k], m) EXCEPT
                         !.replyFuncs = IF m.kind \in {"logout", "nonce"} THEN @ ELSE @ \ {m.by},
                         !.nonce = @ \/ m.kind = "nonce"]]
    BY DEF readReply
  <2>2. y.replyFuncs = sock[k].replyFuncs
    <3> HIDE DEF m
    <3> QED BY <1>1, <1>2, <1>3, ProcessedFacts
  <2>3. F = IF m.kind \in {"logout", "nonce"} THEN y.replyFuncs ELSE y.replyFuncs \ {m.by}
    BY <2>2
  <2>4. r = [y EXCEPT !.replyFuncs = IF m.kind \in {"logout", "nonce"} THEN @ ELSE @ \ {m.by},
                      !.nonce = @ \/ m.kind = "nonce"]
    BY <2>3, Zenon
  <2> QED BY <2>1, <2>4, ZenonT(60)
<1>8. CASE m.kind \in {"logout", "nonce"}
  <2>1. go' = go
    BY <1>8 DEF readReply
  <2>2. F = sock[k].replyFuncs
    BY <1>8
  <2> HIDE DEF F, x
  <2>3. Answered(k, x, Idle)
    BY <1>1, <1>6, <1>7, <1>8, <2>1, <2>2 DEF Answered
  <2>4. PanicInv'
    BY <1>1 DEF IInv, PanicInv
  <2> QED BY <1>1, <1>6, <2>3, <2>4, AnswerKeeps
<1>9. CASE m.kind \in {"query", "login"}
  <2>1. m.by \in Sessions /\ g \in GoRecs /\ GoOk(g) /\ g.pc = "wait" /\ g.req = m.kind
    BY <1>2, <1>3, <1>9 DEF GoInv
  <2>2. go' = [go EXCEPT ![m.by] = h]
    <3>1. go' = IF accepted /\ m.last
                THEN [go EXCEPT ![m.by].pc = go[m.by].ret]
                ELSE IF accepted THEN [go EXCEPT ![m.by].pc = "flush", ![m.by].round = @ + 1]
                ELSE [go EXCEPT ![m.by].pc = IF m.kind = "query" THEN "release" ELSE "failed"]
      BY <1>9 DEF readReply
    <3> HIDE DEF m
    <3>2. CASE accepted /\ m.last
      BY <1>2, <2>1, <3>1, <3>2
    <3>3. CASE accepted /\ ~m.last
      BY <1>2, <2>1, <3>1, <3>3
    <3>4. CASE ~accepted
      BY <1>2, <2>1, <3>1, <3>4
    <3> QED BY SMTT(40), <3>2, <3>3, <3>4
  <2>3. /\ h \in GoRecs /\ h.sock = g.sock /\ h.todo = g.todo /\ h.back = g.back /\ h.op = g.op /\ h.arg = g.arg
        /\ h.req = g.req /\ h.ret = g.ret /\ h.cred = g.cred
        /\ \/ accepted /\ m.last /\ h.pc = g.ret
           \/ accepted /\ h.pc = "flush"
           \/ h.pc \in {"release", "failed"}
    <3>1. p \in {"release", "failed"} /\ g.round + 1 \in Nat /\ g.ret \in {"login", "loginNew"}
      BY <2>1 DEF GoRecs
    <3> DEFINE n == g.round + 1
               e == g.ret
    <3> HIDE DEF p, n, e, accepted, g
    <3>2. CASE accepted /\ m.last
      <4>1. h = [g EXCEPT !.pc = e]
        BY <3>2 DEF e
      <4>2. e \in {"login", "loginNew"} /\ e = g.ret
        BY <3>1 DEF e
      <4> HIDE DEF h
      <4>3. h \in GoRecs /\ h.pc = e
        BY ZenonT(60), <2>1, <3>1, <4>1, <4>2 DEF GoRecs, Pcs, HasSocket
      <4> QED BY <2>1, <3>2, <4>1, <4>2, <4>3 DEF GoRecs
    <3>3. CASE accepted /\ ~m.last
      <4>1. h = [g EXCEPT !.pc = "flush", !.round = n]
        BY <3>3 DEF n
      <4>2. n \in Nat
        BY <3>1 DEF n
      <4> HIDE DEF h
      <4>3. h \in GoRecs /\ h.pc = "flush"
        BY <2>1, <3>1, <4>1, <4>2 DEF GoRecs, Pcs, HasSocket
      <4> QED BY <2>1, <3>3, <4>1, <4>2, <4>3 DEF GoRecs
    <3>4. CASE ~accepted
      <4>1. h = [g EXCEPT !.pc = p]
        BY <3>4
      <4> HIDE DEF h
      <4>3. h \in GoRecs /\ h.pc = p
        BY <2>1, <3>1, <4>1 DEF GoRecs, Pcs, HasSocket
      <4> QED BY <2>1, <3>1, <3>4, <4>1, <4>3 DEF GoRecs
    <3> QED BY <3>2, <3>3, <3>4
  <2>4. accepted => g.req = "login"
    BY <2>1
  <2>5. g.ret \in {"login", "loginNew"}
    BY <2>1 DEF GoRecs
  <2> HIDE DEF h, accepted, g, m
  <2>6. GoOk(h) /\ (LoginPhase(h) => LoginPhase(g)) /\ h.pc \notin {"wait", "append"}
    BY <2>1, <2>3, <2>4, <2>5 DEF GoOk, LoginPhase, Talking, HasSocket, NoSocketYet
  <2>7. Alike(g, h)
    BY <2>1, <2>3, <2>5 DEF Alike
  <2>8. F = sock[k].replyFuncs \ {m.by}
    BY SMTT(40), <1>9
  <2> HIDE DEF F, x
  <2>9. Answered(k, x, h)
    BY <1>1, <1>6, <1>7, <1>9, <2>2, <2>3, <2>6, <2>7, <2>8 DEF Answered, g, m
  <2>10. PanicInv'
    BY <1>1 DEF IInv, PanicInv
  <2> QED BY <1>1, <1>6, <2>9, <2>10, AnswerKeeps
<1> QED BY ZenonT(60), <1>4, <1>8, <1>9

(* Query with a connection that works: the logouts that were flushed and   *)
(* the request join what is under way.                                     *)
LEMMA SentKeeps ==
    ASSUME NEW s \in Sessions, NEW x \in SockRecs, NEW h \in GoRecs, NEW e \in Seq(Requests)
    PROVE  LET g == go[s]
               k == g.sock
               m == Request(s)
           IN  /\ IInv /\ g.pc = "write" /\ ~sock[k].dead
               /\ e = <<>> \/ (Len(e) = 1 /\ e[1].kind = "logout")
               /\ sock' = [sock EXCEPT ![k] = x]
               /\ x.references = sock[k].references /\ ~x.dead /\ x.abending = sock[k].abending
               /\ x.wire = (sock[k].wire \o e) \o <<m>>
               /\ x.replyFuncs = IF g.req = "nonce" THEN sock[k].replyFuncs ELSE sock[k].replyFuncs \cup {s}
               /\ go' = [go EXCEPT ![s] = h]
               /\ h.pc = (IF g.req = "nonce" THEN "getNonce" ELSE "wait")
               /\ Alike(g, h) /\ h.back = g.back /\ GoOk(h) /\ (LoginPhase(h) => LoginPhase(g)) /\ h.req = g.req
               /\ UNCHANGED <<config, server, ses, faults, panic>>
               => IInv'
<1> DEFINE g == go[s]
           k == g.sock
           m == Request(s)
           W == sock[k].wire
<1> SUFFICES ASSUME IInv, g.pc = "write", ~sock[k].dead,
                    e = <<>> \/ (Len(e) = 1 /\ e[1].kind = "logout"),
                    sock' = [sock EXCEPT ![k] = x],
                    x.references = sock[k].references, ~x.dead, x.abending = sock[k].abending,
                    x.wire = (W \o e) \o <<m>>,
                    x.replyFuncs = IF g.req = "nonce" THEN sock[k].replyFuncs ELSE sock[k].replyFuncs \cup {s},
                    go' = [go EXCEPT ![s] = h],
                    h.pc = (IF g.req = "nonce" THEN "getNonce" ELSE "wait"),
                    Alike(g, h), h.back = g.back, GoOk(h), LoginPhase(h) => LoginPhase(g), h.req = g.req,
                    UNCHANGED <<config, server, ses, faults, panic>>
             PROVE  IInv'
  BY Zenon
<1>0. /\ sock \in [Sockets -> SockRecs] /\ go \in [Sessions -> GoRecs] /\ WireInv /\ NoForgottenWaiter
      /\ GoInv /\ LiveInv /\ g \in GoRecs /\ GoOk(g) /\ k \in Sockets
  BY DEF IInv, TypeInv, GoInv, GoOk, HasSocket
<1>1. /\ sock' \in [Sockets -> SockRecs] /\ sock'[k] = x /\ \A j \in Sockets : j # k => sock'[j] = sock[j]
  BY SMTT(40), <1>0
<1>2. go' \in [Sessions -> GoRecs] /\ GoInv' /\ go'[s] = h /\ \A t \in Sessions : t # s => go'[t] = go[t]
  BY OneGoes
<1>3. TypeInv'
  BY SMTT(40), <1>1, <1>2 DEF IInv, TypeInv, C
<1>4. \A j \in Sockets : sock'[j].references = sock[j].references
  BY <1>1
<1>5. Quiet
  BY <1>2, <1>4 DEF Quiet, Alike, AlikeSes
<1>6. NoLogin
  BY <1>2 DEF NoLogin, Alike
<1>7. Closing
  BY <1>1, <1>2 DEF Closing
<1>8. \A j \in Sockets : \A t \in sock[j].replyFuncs : t \in Sessions /\ t # s /\ go'[t] = go[t] /\ go[t].pc = "wait" /\ go[t].sock = j
  BY SMTT(40), <1>0, <1>2 DEF WireInv, SockRecs
<1>9. m = [kind |-> g.req, by |-> s, cred |-> g.cred, last |-> g.round = C.rounds]
  BY DEF Request
<1>10. /\ m.kind = g.req /\ m.by = s /\ (m.kind = "login" => m.cred \in DOMAIN Creds)
  BY <1>0, <1>9 DEF GoOk, Talking
<1>11. ASSUME NEW i \in DOMAIN x.wire
       PROVE  \/ i \in DOMAIN W /\ x.wire[i] = W[i]
              \/ x.wire[i].kind = "logout"
              \/ x.wire[i] = m /\ i = Len(x.wire)
  <2>1. W \in Seq(Requests) /\ m \in Requests
    <3>1. W \in Seq(Requests)
      BY <1>0 DEF SockRecs
    <3>2. m \in Requests
      BY <1>0, <1>9 DEF GoRecs, Requests
    <3> QED BY <3>1, <3>2
  <2>2. \A S : \A a, b \in Seq(S), z \in S : \A j \in DOMAIN ((a \o b) \o <<z>>) :
           \/ j \in DOMAIN a /\ ((a \o b) \o <<z>>)[j] = a[j]
           \/ j - Len(a) \in DOMAIN b /\ ((a \o b) \o <<z>>)[j] = b[j - Len(a)]
           \/ ((a \o b) \o <<z>>)[j] = z /\ j = Len((a \o b) \o <<z>>)
    BY SMTT(40)
  <2>3. \A j \in DOMAIN e : e[j].kind = "logout"
    BY SMTT(40), Len(e) \in Nat
  <2> HIDE DEF m, W, Requests
  <2> QED BY <1>11, <2>1, <2>2, <2>3
<1> HIDE DEF m, W
<1>12. WireInv'
  <2> SUFFICES ASSUME NEW j \in Sockets
               PROVE  /\ sock'[j].dead => sock'[j].wire = <<>> /\ sock'[j].replyFuncs = {}
                      /\ sock'[j].abending => sock'[j].dead
                      /\ \A t \in sock'[j].replyFuncs : go'[t].pc = "wait" /\ go'[t].sock = j
                      /\ \A i \in DOMAIN sock'[j].wire :
                           LET r == sock'[j].wire[i] IN
                             /\ r.kind \in {"query", "login"} => r.by \in sock'[j].replyFuncs /\ r.kind = go'[r.by].req
                             /\ r.kind = "login" => r.cred \in DOMAIN Creds
                      /\ \A i, i2 \in DOMAIN sock'[j].wire : SameWaiter(sock'[j].wire[i], sock'[j].wire[i2]) => i = i2
    BY SMTT(40) DEF WireInv
  <2>1. CASE j = k
    <3>1. ~sock'[j].dead /\ (sock'[j].abending => sock'[j].dead)
      BY <1>0, <1>1, <2>1 DEF WireInv
    <3>2. \A t \in x.replyFuncs : go'[t].pc = "wait" /\ go'[t].sock = j
      BY SMTT(40), <1>0, <1>2, <1>8, <2>1 DEF Alike
    <3>3. /\ \A i \in DOMAIN W :
               LET r == W[i] IN
                 /\ r.kind \in {"query", "login"} => r.by \in sock[k].replyFuncs /\ r.kind = go[r.by].req
                 /\ r.kind = "login" => r.cred \in DOMAIN Creds
          /\ \A i, i2 \in DOMAIN W : SameWaiter(W[i], W[i2]) => i = i2
      BY <1>0 DEF WireInv, W
    <3>4. \A i \in DOMAIN W : W[i].kind \in {"query", "login"} =>
             W[i].by \in x.replyFuncs /\ W[i].kind = go'[W[i].by].req /\ W[i].by # s
      BY <1>0, <1>8, <3>3
    <3>5. m.kind \in {"query", "login"} => m.by \in x.replyFuncs /\ m.kind = go'[m.by].req
      BY <1>2, <1>10
    <3>6. ASSUME NEW i \in DOMAIN x.wire
          PROVE  LET r == x.wire[i] IN
                 /\ r.kind \in {"query", "login"} => r.by \in x.replyFuncs /\ r.kind = go'[r.by].req
                 /\ r.kind = "login" => r.cred \in DOMAIN Creds
      BY <1>10, <1>11, <3>3, <3>4, <3>5, <3>6
    <3>7. ASSUME NEW i \in DOMAIN x.wire, NEW i2 \in DOMAIN x.wire, SameWaiter(x.wire[i], x.wire[i2])
          PROVE  i = i2
      <4>1. x.wire[i].kind # "logout" /\ x.wire[i2].kind # "logout"
        BY <3>7 DEF SameWaiter
      <4>2. CASE i \in DOMAIN W /\ x.wire[i] = W[i] /\ i2 \in DOMAIN W /\ x.wire[i2] = W[i2]
        BY <3>3, <3>7, <4>2
      <4>3. CASE i \in DOMAIN W /\ x.wire[i] = W[i] /\ x.wire[i2] = m /\ i2 = Len(x.wire)
        BY <1>10, <3>4, <3>7, <4>3 DEF SameWaiter
      <4>4. CASE i2 \in DOMAIN W /\ x.wire[i2] = W[i2] /\ x.wire[i] = m /\ i = Len(x.wire)
        BY <1>10, <3>4, <3>7, <4>4 DEF SameWaiter
      <4>5. CASE i = Len(x.wire) /\ i2 = Len(x.wire)
        BY <4>5
      <4> QED BY <1>11, <4>1, <4>2, <4>3, <4>4, <4>5
    <3>8. sock'[j] = x
      BY <1>1, <2>1
    <3>9. \A i, i2 \in DOMAIN x.wire : SameWaiter(x.wire[i], x.wire[i2]) => i = i2
      BY <3>7
    <3>10. \A t \in sock'[j].replyFuncs : go'[t].pc = "wait" /\ go'[t].sock = j
      BY <3>2, <3>8
    <3>11. \A i \in DOMAIN sock'[j].wire :
             LET r == sock'[j].wire[i] IN
               /\ r.kind \in {"query", "login"} => r.by \in sock'[j].replyFuncs /\ r.kind = go'[r.by].req
               /\ r.kind = "login" => r.cred \in DOMAIN Creds
      BY <3>6, <3>8
    <3>12. \A i, i2 \in DOMAIN sock'[j].wire : SameWaiter(sock'[j].wire[i], sock'[j].wire[i2]) => i = i2
      BY <3>8, <3>9
    <3> QED BY <3>1, <3>10, <3>11, <3>12
  <2>2. CASE j # k
    <3>1. sock'[j] = sock[j]
      BY <1>1, <2>2
    <3> QED BY <1>0, <1>8, <3>1 DEF WireInv
  <2> QED BY ZenonT(60), <2>1, <2>2
<1>13. NoForgottenWaiter'
  <2> SUFFICES ASSUME NEW t \in Sessions, go'[t].pc = "wait", ~go'[t].cut
               PROVE  ~sock'[go'[t].sock].dead /\ t \in sock'[go'[t].sock].replyFuncs
    BY DEF NoForgottenWaiter
  <2>1. CASE t = s
    BY <1>0, <1>1, <1>2, <2>1 DEF Alike
  <2>2. CASE t # s
    <3>1. go'[t] = go[t]
      BY <1>2, <2>2
    <3>2. go[t].sock \in Sockets
      BY <1>0, <3>1 DEF GoInv, GoOk, HasSocket
    <3>3. ~sock[go[t].sock].dead /\ t \in sock[go[t].sock].replyFuncs
      BY <1>0, <3>1 DEF NoForgottenWaiter
    <3> QED BY <1>1, <3>1, <3>2, <3>3
  <2> QED BY <2>1, <2>2
<1>14. PanicInv'
  BY ZenonT(60) DEF IInv, PanicInv
<1> QED BY <1>2, <1>3, <1>4, <1>5, <1>6, <1>7, <1>12, <1>13, <1>14, QuietKeeps, NoLoginKeeps, ClosingKeeps DEF IInv

LEMMA QueryKeeps == ASSUME NEW s \in Sessions PROVE IInv /\ Query(s) => IInv'
<1> SUFFICES ASSUME IInv, Query(s) PROVE IInv'
  OBVIOUS
<1> DEFINE g == go[s]
           k == g.sock
           m == Request(s)
           e == IF g.flushed = {} THEN <<>> ELSE <<[kind |-> "logout", dbs |-> g.flushed]>>
           w == (sock[k].wire \o e) \o <<m>>
           F == IF g.req = "nonce" THEN sock[k].replyFuncs ELSE sock[k].replyFuncs \cup {s}
           p == IF g.req = "nonce" THEN "getNonce" ELSE "wait"
           x == [sock[k] EXCEPT !.wire = w, !.replyFuncs = F]
           y == [sock[k] EXCEPT !.broken = TRUE]
           z == [sock[k] EXCEPT !.lost = @ \cup g.flushed]
<1>1. /\ g \in GoRecs /\ GoOk(g) /\ sock \in [Sockets -> SockRecs] /\ go \in [Sessions -> GoRecs]
      /\ ses \in [Sessions -> SesRecs] /\ faults \in 0..C.faults
  BY GoFacts
<1>2. g.pc = "write" /\ UNCHANGED <<config, server, ses, panic>>
  BY DEF Query
<1>3. k \in Sockets /\ g.todo = <<>> /\ g.back = None /\ sock[k] \in SockRecs
  BY <1>1, <1>2 DEF GoOk, HasSocket
<1>4. ASSUME NEW q \in {"failed", "getNonce", "wait"}, q = "getNonce" => g.req = "nonce", q = "wait" => g.req # "nonce"
      PROVE  LET h == [g EXCEPT !.pc = q, !.flushed = {}] IN
             /\ h \in GoRecs /\ GoOk(h) /\ Alike(g, h) /\ h.back = g.back /\ (LoginPhase(h) => LoginPhase(g))
             /\ h.req = g.req /\ h.pc = q
  <2> DEFINE h == [g EXCEPT !.pc = q, !.flushed = {}]
  <2>1. h \in GoRecs
    BY <1>1 DEF GoRecs, Pcs, HasSocket
  <2>2. h.pc = q /\ h.req = g.req /\ h.sock = g.sock /\ h.todo = g.todo /\ h.back = g.back /\ h.ret = g.ret
        /\ h.cred = g.cred /\ h.op = g.op /\ h.arg = g.arg
    BY <1>1 DEF GoRecs
  <2> HIDE DEF h
  <2>3. GoOk(h) /\ (LoginPhase(h) => LoginPhase(g)) /\ Alike(g, h)
    BY <1>1, <1>2, <1>3, <1>4, <2>2 DEF GoOk, LoginPhase, Talking, HasSocket, NoSocketYet, Alike
  <2> QED BY <2>1, <2>2, <2>3 DEF h
<1>5. \/ go' = [go EXCEPT ![s].pc = "failed", ![s].flushed = {}] /\ sock' = sock /\ faults' = faults
      \/ /\ sock' = [sock EXCEPT ![k].lost = @ \cup g.flushed]
         /\ go' = [go EXCEPT ![s].pc = "failed", ![s].flushed = {}]
         /\ faults' = faults
      \/ /\ ~sock[k].dead
         /\ sock' = [sock EXCEPT ![k].wire = @ \o e \o <<m>>, ![k].replyFuncs = IF g.req = "nonce" THEN @ ELSE @ \cup {s}]
         /\ go' = [go EXCEPT ![s].pc = p, ![s].flushed = {}]
         /\ faults' = faults
      \/ /\ sock' = [sock EXCEPT ![k].broken = TRUE]
         /\ go' = [go EXCEPT ![s].pc = "failed", ![s].flushed = {}]
         /\ faults' = faults \/ (faults < C.faults /\ faults' = faults + 1)
  BY DEF Query
<1>6. CASE go' = [go EXCEPT ![s].pc = "failed", ![s].flushed = {}]
           /\ \/ sock' = sock /\ faults' = faults
              \/ sock' = [sock EXCEPT ![k].lost = @ \cup g.flushed] /\ faults' = faults
              \/ /\ sock' = [sock EXCEPT ![k].broken = TRUE]
                 /\ faults' = faults \/ (faults < C.faults /\ faults' = faults + 1)
  <2> DEFINE h == [g EXCEPT !.pc = "failed", !.flushed = {}]
  <2>1. go' = [go EXCEPT ![s] = h]
    BY <1>1, <1>6
  <2>2. h \in GoRecs /\ GoOk(h) /\ Alike(g, h) /\ h.back = g.back /\ (LoginPhase(h) => LoginPhase(g)) /\ h.pc = "failed"
    BY <1>4
  <2>3. y \in SockRecs /\ SameSocket(sock[k], y)
    <3>1. y \in SockRecs
      BY <1>3 DEF SockRecs
    <3> QED BY <1>3, <3>1 DEF SockRecs, SameSocket
  <2>z. z \in SockRecs /\ SameSocket(sock[k], z)
    <3>1. g.flushed \in SUBSET Sources
      BY <1>1 DEF GoRecs
    <3>2. sock[k].lost \cup g.flushed \in SUBSET Sources
      BY <1>3, <3>1 DEF SockRecs
    <3> DEFINE L == sock[k].lost \cup g.flushed
    <3> HIDE DEF L
    <3>3. z = [sock[k] EXCEPT !.lost = L]
      BY DEF L
    <3>4. L \in SUBSET Sources
      BY <3>2 DEF L
    <3> HIDE DEF z
    <3> QED BY <1>3, <3>3, <3>4 DEF SockRecs, SameSocket
  <2>4. sock' = sock \/ sock' = [sock EXCEPT ![k] = y] \/ sock' = [sock EXCEPT ![k] = z]
    BY <1>1, <1>3, <1>6
  <2> HIDE DEF y, z, h
  <2>5. sock' \in [Sockets -> SockRecs] /\ \A j \in Sockets : SameSocket(sock[j], sock'[j])
    BY <1>1, <1>3, <2>3, <2>z, <2>4 DEF SameSocket
  <2>6. faults' \in 0..C.faults
    <3>1. C.faults \in Nat
      BY ScenariosAssumption DEF IInv, TypeInv, C
    <3> QED BY <1>1, <1>6, <3>1
  <2>7. /\ \A t \in Sessions : AlikeSes(ses[t], ses'[t]) /\ ses'[t].open = ses[t].open
        /\ ses' \in [Sessions -> SesRecs] /\ PanicInv'
    BY ZenonT(60), <1>1, <1>2 DEF IInv, PanicInv, AlikeSes
  <2> QED BY <1>2, <2>1, <2>2, <2>5, <2>6, <2>7, QuietMove
<1>7. CASE /\ ~sock[k].dead
           /\ sock' = [sock EXCEPT ![k].wire = @ \o e \o <<m>>, ![k].replyFuncs = IF g.req = "nonce" THEN @ ELSE @ \cup {s}]
           /\ go' = [go EXCEPT ![s].pc = p, ![s].flushed = {}]
           /\ faults' = faults
  <2> DEFINE h == [g EXCEPT !.pc = p, !.flushed = {}]
  <2>1. go' = [go EXCEPT ![s] = h] /\ p = (IF g.req = "nonce" THEN "getNonce" ELSE "wait")
    BY <1>1, <1>7
  <2>2. h \in GoRecs /\ GoOk(h) /\ Alike(g, h) /\ h.back = g.back /\ (LoginPhase(h) => LoginPhase(g)) /\ h.pc = p /\ h.req = g.req
    <3>1. p \in {"getNonce", "wait"} /\ (p = "getNonce" => g.req = "nonce") /\ (p = "wait" => g.req # "nonce")
      OBVIOUS
    <3> HIDE DEF p
    <3> QED BY <1>4, <3>1
  <2>3. e \in Seq(Requests) /\ (e = <<>> \/ (Len(e) = 1 /\ e[1].kind = "logout"))
    <3>1. [kind |-> "logout", dbs |-> g.flushed] \in Requests
      BY <1>1 DEF GoRecs, Requests
    <3> HIDE DEF Requests
    <3> QED BY <3>1
  <2>4. sock[k].wire \in Seq(Requests) /\ m \in Requests
    <3>1. sock[k].wire \in Seq(Requests)
      BY <1>3 DEF SockRecs
    <3>2. m \in Requests
      BY <1>1 DEF Request, GoRecs, Requests
    <3> QED BY <3>1, <3>2
  <2>5. sock' = [sock EXCEPT ![k] = x]
    BY <1>1, <1>3, <1>7
  <2>6. w \in Seq(Requests) /\ F \in SUBSET Sessions
    <3>1. F \in SUBSET Sessions
      BY <1>3 DEF SockRecs
    <3> HIDE DEF Requests, e, m
    <3>2. w \in Seq(Requests)
      BY <2>3, <2>4
    <3> QED BY <3>1, <3>2
  <2>7. w = (sock[k].wire \o e) \o <<Request(s)>> /\ F = (IF g.req = "nonce" THEN sock[k].replyFuncs ELSE sock[k].replyFuncs \cup {s})
    BY SMTT(40)
  <2> HIDE DEF w, F, e, h, p, Requests
  <2>8. x \in SockRecs /\ x.wire = w /\ x.replyFuncs = F /\ x.references = sock[k].references /\ ~x.dead
        /\ x.abending = sock[k].abending
    <3>1. x \in SockRecs
      BY <1>3, <2>6 DEF SockRecs
    <3> QED BY <1>3, <1>7, <3>1 DEF SockRecs
  <2> HIDE DEF x
  <2> QED BY <1>2, <1>7, <2>1, <2>2, <2>3, <2>5, <2>7, <2>8, SentKeeps
<1> HIDE DEF g, k, m, e, w, F, p, x, y
<1> QED BY ZenonT(60), <1>5, <1>6, <1>7

-----------------------------------------------------------------------------
(* Steps that change who holds a socket.                                   *)

LEMMA RefsKeep ==
    ASSUME NEW s \in Sessions
    PROVE  /\ IInv /\ OnlyBy(s, go, go', ses, ses')
           /\ \A j \in Sockets : sock'[j].references \in Nat
                 /\ sock'[j].references + Weight(go[s], ses[s], j) = sock[j].references + Weight(go'[s], ses'[s], j)
           => ReferencesAreHeld'
<1> SUFFICES ASSUME IInv, OnlyBy(s, go, go', ses, ses'),
                    \A j \in Sockets : sock'[j].references \in Nat
                      /\ sock'[j].references + Weight(go[s], ses[s], j) = sock[j].references + Weight(go'[s], ses'[s], j),
                    NEW j \in Sockets
             PROVE  sock'[j].references = HoldersOf(go', ses', j)
  BY DEF ReferencesAreHeld, Holders, HoldersOf
<1>1. sock[j].references = HoldersOf(go, ses, j)
  BY DEF IInv, ReferencesAreHeld, Holders, HoldersOf
<1>2. HoldersOf(go', ses', j) = (HoldersOf(go, ses, j) - Weight(go[s], ses[s], j)) + Weight(go'[s], ses'[s], j)
  BY HoldersChange
<1>3. /\ HoldersOf(go, ses, j) \in Nat /\ Weight(go[s], ses[s], j) \in Nat
      /\ HoldersOf(go', ses', j) \in Nat /\ Weight(go'[s], ses'[s], j) \in Nat
  BY HoldersOfOne
<1> HIDE DEF Weight
<1> QED BY <1>1, <1>2, <1>3

(* What a session and its goroutine hold is referenced, and what two hold  *)
(* is referenced twice.                                                    *)
LEMMA HeldTwice ==
    ASSUME NEW s \in Sessions, NEW t \in Sessions, s # t, NEW k \in Sockets
    PROVE  IInv => Weight(go[s], ses[s], k) + Weight(go[t], ses[t], k) <= sock[k].references
<1> SUFFICES ASSUME IInv PROVE Weight(go[s], ses[s], k) + Weight(go[t], ses[t], k) <= sock[k].references
  OBVIOUS
<1>1. sock[k].references = HoldersOf(go, ses, k)
  BY DEF IInv, ReferencesAreHeld, Holders, HoldersOf
<1>2. go \in [Sessions -> GoRecs] /\ ses \in [Sessions -> SesRecs] /\ k # None
  BY SocketsAssumption DEF IInv, TypeInv
<1> QED BY SMTT(40), <1>1, <1>2, HoldersOfTwo

LEMMA HeldOnce ==
    ASSUME NEW s \in Sessions, NEW k \in Sockets
    PROVE  IInv => /\ Weight(go[s], ses[s], k) <= sock[k].references
                   /\ sock[k].references \in Nat /\ Weight(go[s], ses[s], k) \in Nat
<1> SUFFICES ASSUME IInv PROVE /\ Weight(go[s], ses[s], k) <= sock[k].references
                               /\ sock[k].references \in Nat /\ Weight(go[s], ses[s], k) \in Nat
  OBVIOUS
<1>1. sock[k].references = HoldersOf(go, ses, k)
  BY DEF IInv, ReferencesAreHeld, Holders, HoldersOf
<1> QED BY <1>1, HoldersOfOne

LEMMA WeightFacts ==
    ASSUME NEW g, NEW r, NEW k
    PROVE  /\ Weight(g, r, k) \in Nat
           /\ g.sock = k /\ g.pc # "initial" => Weight(g, r, k) >= 1
           /\ r.masterSocket = k \/ r.slaveSocket = k => Weight(g, r, k) >= 1
           /\ g.sock = k /\ g.pc # "initial" /\ (r.masterSocket = k \/ r.slaveSocket = k) => Weight(g, r, k) >= 2
BY DEF Weight, One

(* Somebody else than a goroutine that logs in, or s itself, holds j.      *)
Held(s, j) == \E u \in Sessions : Weight(go[u], ses[u], j) # 0 /\ (u = s \/ ~(LoginPhase(go[u]) /\ go[u].sock = j))

LEMMA HeldFacts ==
    ASSUME NEW s \in Sessions, NEW j \in Sockets
    PROVE  IInv /\ Held(s, j) =>
             /\ sock[j].references # 0
             /\ \A t \in Sessions \ {s} : LoginPhase(go[t]) => go[t].sock # j
<1> SUFFICES ASSUME IInv, Held(s, j)
             PROVE  /\ sock[j].references # 0
                    /\ \A t \in Sessions \ {s} : LoginPhase(go[t]) => go[t].sock # j
  OBVIOUS
<1>1. PICK u \in Sessions : Weight(go[u], ses[u], j) # 0 /\ (u = s \/ ~(LoginPhase(go[u]) /\ go[u].sock = j))
  BY DEF Held
<1>2. Weight(go[u], ses[u], j) \in Nat /\ Weight(go[u], ses[u], j) <= sock[j].references /\ sock[j].references \in Nat
  BY HeldOnce
<1>3. ASSUME NEW t \in Sessions \ {s}, LoginPhase(go[t]), go[t].sock = j PROVE FALSE
  <2>1. t # u
    BY <1>1, <1>3
  <2>2. Weight(go[u], ses[u], j) + Weight(go[t], ses[t], j) <= sock[j].references
    BY <2>1, HeldTwice
  <2>3. sock[j].references = 1
    BY <1>3 DEF IInv, LoginInv
  <2>4. go[t].pc # "initial"
    BY <1>3 DEF LoginPhase, Talking
  <2>5. Weight(go[t], ses[t], j) \in Nat /\ Weight(go[t], ses[t], j) >= 1
    BY <1>3, <2>4, WeightFacts
  <2> QED BY <1>1, <1>2, <2>2, <2>3, <2>5
<1> QED BY <1>1, <1>2, <1>3

(* The references of j follow what s holds, and nothing else happens to it *)
(* but the reset of a dead socket.                                         *)
Shifts(s, h, r, j, x) ==
    /\ x.references + Weight(go[s], ses[s], j) = sock[j].references + Weight(h, r, j)
    /\ x.references = sock[j].references \/ Held(s, j)
    /\ x.dead = sock[j].dead /\ (x.abending => sock[j].abending)
    /\ \/ x.wire = sock[j].wire /\ x.replyFuncs = sock[j].replyFuncs
       \/ sock[j].dead /\ x.wire = <<>> /\ x.replyFuncs = {}

(* What a session may be.                                                  *)
SesOk(r) ==
    /\ ~r.open => r.masterSocket = None /\ r.slaveSocket = None
    /\ r.masterSocket # None => r.masterSocket # r.slaveSocket

(* The bulk of a step with which references change hands.                  *)
LEMMA MoveKeeps ==
    ASSUME NEW s \in Sessions, NEW h \in GoRecs, GoOk(h), NEW r \in SesRecs, SesOk(r),
           h.pc \notin {"wait", "append", "initial"}, ~LoginPhase(h), h.pc \in {"idle", "releasing"} \/ r.open
    PROVE  /\ IInv
           /\ go' = [go EXCEPT ![s] = h] /\ ses' = [ses EXCEPT ![s] = r]
           /\ sock' \in [Sockets -> SockRecs] /\ \A j \in Sockets : Shifts(s, h, r, j, sock'[j])
           /\ UNCHANGED <<config, server, faults>> /\ PanicInv'
           /\ go[s].pc \notin {"wait", "append", "initial"} /\ go[s].back = None
           /\ h.back = None \/ (h.back \in Sockets /\ sock'[h.back].references = 0 /\ Held(s, h.back))
           /\ h.sock \in {go[s].sock, None} \/ (h.sock \in Sockets /\ Held(s, h.sock))
           => IInv'
<1> SUFFICES ASSUME IInv, go' = [go EXCEPT ![s] = h], ses' = [ses EXCEPT ![s] = r],
                    sock' \in [Sockets -> SockRecs], \A j \in Sockets : Shifts(s, h, r, j, sock'[j]),
                    UNCHANGED <<config, server, faults>>, PanicInv',
                    go[s].pc \notin {"wait", "append", "initial"}, go[s].back = None,
                    h.back = None \/ (h.back \in Sockets /\ sock'[h.back].references = 0 /\ Held(s, h.back)),
                    h.sock \in {go[s].sock, None} \/ (h.sock \in Sockets /\ Held(s, h.sock))
             PROVE  IInv'
  BY Zenon
<1>0. /\ sock \in [Sockets -> SockRecs] /\ go \in [Sessions -> GoRecs] /\ ses \in [Sessions -> SesRecs]
      /\ server.unused \in Seq(Sockets) /\ GoInv /\ SesInv /\ ParkInv /\ LoginInv
  BY DEF IInv, TypeInv, ServerRecs
<1>1. go' \in [Sessions -> GoRecs] /\ GoInv' /\ go'[s] = h /\ \A t \in Sessions : t # s => go'[t] = go[t]
  BY OneGoes
<1>2. ses' \in [Sessions -> SesRecs] /\ ses'[s] = r /\ \A t \in Sessions : t # s => ses'[t] = ses[t]
  BY <1>0
<1>3. TypeInv'
  BY <1>1, <1>2 DEF IInv, TypeInv, C
<1>4. SesInv'
  BY <1>0, <1>2 DEF SesInv, SesOk
<1>5. OnlyBy(s, go, go', ses, ses')
  BY <1>1, <1>2 DEF OnlyBy, Alike, AlikeSes
<1>6. \A j \in Sockets : /\ sock'[j].references + Weight(go[s], ses[s], j) = sock[j].references + Weight(h, r, j)
                         /\ sock'[j].references = sock[j].references \/ Held(s, j)
  BY DEF Shifts
<1>7. \A j \in Sockets : sock'[j].references \in Nat
  BY DEF SockRecs
<1>8. ReferencesAreHeld'
  BY <1>1, <1>2, <1>5, <1>6, <1>7, RefsKeep
<1>9. Silent
  <2>1. \A j \in Sockets :
          /\ sock'[j].dead = sock[j].dead /\ (sock'[j].abending => sock[j].abending)
          /\ \/ sock'[j].wire = sock[j].wire /\ sock'[j].replyFuncs = sock[j].replyFuncs
             \/ sock[j].dead /\ sock'[j].wire = <<>> /\ sock'[j].replyFuncs = {}
    BY DEF Shifts
  <2> QED BY <1>1, <2>1 DEF Silent
<1>10. Closing
  <2>1. \A j \in Sockets : sock'[j].dead = sock[j].dead
    BY DEF Shifts
  <2> QED BY <1>1, <2>1 DEF Closing
<1>11. \A j \in Sockets : sock[j].references = 0 => ~Held(s, j) /\ sock'[j].references = 0
  BY <1>6, HeldFacts
<1>12. /\ \A t \in Sessions : go[t].back \in Sockets \cup {None}
       /\ \A t \in Sessions : go[t].pc = "initial" => go[t].sock \in Sockets
       /\ \A i \in DOMAIN server.unused : server.unused[i] \in Sockets
  BY <1>0 DEF GoInv, GoOk, HasSocket, GoRecs
<1>13. ParkInv'
  <2>1. server'.unused = server.unused
    OBVIOUS
  <2>2. ASSUME NEW i \in DOMAIN server.unused
        PROVE  /\ sock'[server.unused[i]].references = 0
               /\ \A t \in Sessions : go'[t].sock # server.unused[i] /\ go'[t].back # server.unused[i]
    <3>1. sock[server.unused[i]].references = 0 /\ server.unused[i] \in Sockets
          /\ \A t \in Sessions : go[t].sock # server.unused[i] /\ go[t].back # server.unused[i]
      BY <1>0, <1>12 DEF ParkInv
    <3>2. ~Held(s, server.unused[i]) /\ sock'[server.unused[i]].references = 0
      BY <1>11, <3>1
    <3> QED BY <1>1, <3>1, <3>2, SocketsAssumption
  <2>3. ASSUME NEW t \in Sessions, go'[t].pc = "initial"
        PROVE  /\ sock'[go'[t].sock].references = 0
               /\ \A u \in Sessions : (u # t => go'[u].sock # go'[t].sock) /\ go'[u].back # go'[t].sock
    <3>1. t # s /\ go'[t] = go[t]
      BY <1>1, <2>3
    <3>2. /\ sock[go[t].sock].references = 0 /\ go[t].sock \in Sockets
          /\ \A u \in Sessions : (u # t => go[u].sock # go[t].sock) /\ go[u].back # go[t].sock
      BY <1>0, <1>12, <2>3, <3>1 DEF ParkInv
    <3>3. ~Held(s, go[t].sock) /\ sock'[go[t].sock].references = 0
      BY <1>11, <3>2
    <3> QED BY <1>1, <3>1, <3>2, <3>3, SocketsAssumption
  <2>4. ASSUME NEW t \in Sessions, go'[t].back # None
        PROVE  /\ sock'[go'[t].back].references = 0
               /\ \A u \in Sessions : u # t => go'[u].back # go'[t].back
    <3>1. ASSUME NEW u \in Sessions, u # s, go[u].back # None
          PROVE  /\ sock[go[u].back].references = 0 /\ go[u].back \in Sockets
                 /\ \A v \in Sessions : v # u => go[v].back # go[u].back
      BY <1>0, <1>12, <3>1 DEF ParkInv
    <3>2. ASSUME NEW u \in Sessions, u # s, go[u].back # None
          PROVE  ~Held(s, go[u].back) /\ sock'[go[u].back].references = 0
      BY <1>11, <3>1, <3>2
    <3>3. CASE t = s
      BY <1>1, <2>4, <3>2, <3>3
    <3>4. CASE t # s
      <4>1. go'[t] = go[t] /\ go[t].back # None
        BY <1>1, <2>4, <3>4
      <4>2. \A u \in Sessions : u # t => go'[u].back # go[t].back
        BY <1>1, <3>1, <3>2, <3>4, <4>1
      <4> QED BY <3>2, <3>4, <4>1, <4>2
    <3> QED BY <3>3, <3>4
  <2> QED BY <1>0, <2>1, <2>2, <2>3, <2>4 DEF ParkInv
<1>14. LoginInv'
  <2> SUFFICES ASSUME NEW t \in Sessions, LoginPhase(go'[t])
               PROVE  sock'[go'[t].sock].references = 1
    BY DEF LoginInv
  <2>1. t # s /\ go'[t] = go[t]
    BY <1>1
  <2>2. go[t].sock \in Sockets /\ sock[go[t].sock].references = 1
    BY <1>0, <2>1 DEF LoginInv, GoInv, GoOk, LoginPhase, Talking, HasSocket
  <2>3. ~Held(s, go[t].sock)
    BY <2>1, <2>2, HeldFacts
  <2> QED BY <1>6, <2>1, <2>2, <2>3
<1> QED BY <1>1, <1>3, <1>4, <1>8, <1>9, <1>10, <1>13, <1>14, SilentKeeps, ClosingKeeps DEF IInv

(* The goroutine that releases some sockets next.                          *)
LEMMA ReleasingFacts ==
    ASSUME NEW ks \in Seq(Sockets), Len(ks) <= 2
    PROVE  LET h == Releasing(Idle, ks) IN
           /\ h \in GoRecs /\ GoOk(h) /\ ~LoginPhase(h)
           /\ h.sock = None /\ h.todo = ks /\ h.back = None /\ h.pc \in {"idle", "releasing"}
<1> DEFINE p == IF ks = <<>> THEN "idle" ELSE "releasing"
           h == [Idle EXCEPT !.pc = p, !.todo = ks]
<1>1. Releasing(Idle, ks) = h
  BY DEF Releasing
<1>2. p \in {"idle", "releasing"} /\ (p = "idle" => ks = <<>>)
  OBVIOUS
<1>3. <<>> \in Seq(Sockets)
  OBVIOUS
<1> HIDE DEF p
<1>4. Idle \in GoRecs
  BY <1>3 DEF Idle, GoRecs, Pcs, NoSocketYet
<1>5. h \in GoRecs
  BY <1>2, <1>4 DEF GoRecs, Pcs, NoSocketYet
<1>6. h.pc = p /\ h.sock = None /\ h.todo = ks /\ h.back = None /\ h.op = "none"
  BY DEF Idle
<1> HIDE DEF h
<1>7. GoOk(h) /\ ~LoginPhase(h)
  BY <1>2, <1>6 DEF GoOk, LoginPhase, Talking, HasSocket, NoSocketYet
<1> QED BY <1>1, <1>2, <1>5, <1>6, <1>7

(* A step without an effect on sockets shifts nothing.                     *)
LEMMA NoShift ==
    ASSUME NEW s \in Sessions, NEW h, NEW r, NEW j \in Sockets
    PROVE  IInv /\ Weight(h, r, j) = Weight(go[s], ses[s], j) => Shifts(s, h, r, j, sock[j])
BY HeldOnce DEF Shifts

LEMMA FinishKeeps == ASSUME NEW s \in Sessions PROVE IInv /\ finish(s) => IInv'
<1> SUFFICES ASSUME IInv, finish(s) PROVE IInv'
  OBVIOUS
<1> DEFINE g == go[s]
           ks == IF g.sock = None THEN <<>> ELSE <<g.sock>>
           h == Releasing(Idle, ks)
           r == ses[s]
<1>1. /\ g.pc \in {"release", "failed"} /\ go' = [go EXCEPT ![s] = h]
      /\ UNCHANGED <<config, server, sock, ses, faults, panic>>
  BY DEF finish
<1>2. /\ g \in GoRecs /\ GoOk(g) /\ sock \in [Sockets -> SockRecs] /\ ses \in [Sessions -> SesRecs] /\ r \in SesRecs
  BY GoFacts
<1>3. g.sock \in Sockets \cup {None} /\ g.todo = <<>> /\ g.back = None
  BY <1>1, <1>2 DEF GoRecs, GoOk
<1>4. ks \in Seq(Sockets) /\ Len(ks) <= 2
  <2>1. CASE g.sock = None
    BY <2>1
  <2>2. CASE g.sock # None
    BY <1>3, <2>2
  <2> QED BY <2>1, <2>2
<1>5. \A j \in Sockets : /\ g.sock = j => 1 \in DOMAIN ks /\ ks[1] = j /\ 2 \notin DOMAIN ks
                         /\ g.sock # j => ~(1 \in DOMAIN ks /\ ks[1] = j) /\ 2 \notin DOMAIN ks
  BY <1>3, SocketsAssumption
<1> HIDE DEF ks
<1>6. h \in GoRecs /\ GoOk(h) /\ ~LoginPhase(h)
      /\ h.sock = None /\ h.todo = ks /\ h.back = None /\ h.pc \in {"idle", "releasing"}
  BY <1>4, ReleasingFacts
<1> HIDE DEF h
<1>7. \A j \in Sockets : Weight(h, r, j) = Weight(g, r, j)
  <2> TAKE j \in Sockets
  <2>1. ~(h.sock = j /\ h.pc # "initial")
    BY <1>6, SocketsAssumption
  <2>2. (g.sock = j /\ g.pc # "initial") <=> g.sock = j
    BY <1>1
  <2>3. 1 \notin DOMAIN g.todo /\ 2 \notin DOMAIN g.todo
    BY <1>3
  <2>4. (1 \in DOMAIN h.todo /\ h.todo[1] = j) <=> g.sock = j
    BY <1>5, <1>6
  <2>5. 2 \notin DOMAIN h.todo
    BY <1>5, <1>6
  <2> QED BY <2>1, <2>2, <2>3, <2>4, <2>5 DEF Weight, One
<1>8. \A j \in Sockets : Shifts(s, h, r, j, sock'[j])
  <2>1. sock' = sock
    BY <1>1
  <2> HIDE DEF r, g
  <2> QED BY <1>7, <2>1, NoShift DEF g, r
<1>9. ses' = [ses EXCEPT ![s] = r] /\ SesOk(r)
  BY <1>1, <1>2 DEF IInv, SesInv, SesOk
<1>10. PanicInv' /\ g.pc \notin {"wait", "append", "initial"}
  BY <1>1 DEF IInv, PanicInv
<1> QED BY <1>1, <1>2, <1>3, <1>6, <1>8, <1>9, <1>10, MoveKeeps

(* The sockets a session has reserved.                                     *)
LEMMA ReservedFacts ==
    ASSUME NEW s \in Sessions
    PROVE  IInv =>
             LET R == Reserved(s) IN
             /\ R \in Seq(Sockets) /\ Len(R) <= 2
             /\ \A j \in Sockets :
                  /\ One(1 \in DOMAIN R /\ R[1] = j) + One(2 \in DOMAIN R /\ R[2] = j)
                       = One(ses[s].masterSocket = j) + One(ses[s].slaveSocket = j)
                  /\ j \in Range(R) <=> ses[s].masterSocket = j \/ ses[s].slaveSocket = j
<1> SUFFICES ASSUME IInv
             PROVE  LET R == Reserved(s) IN
                    /\ R \in Seq(Sockets) /\ Len(R) <= 2
                    /\ \A j \in Sockets :
                         /\ One(1 \in DOMAIN R /\ R[1] = j) + One(2 \in DOMAIN R /\ R[2] = j)
                              = One(ses[s].masterSocket = j) + One(ses[s].slaveSocket = j)
                         /\ j \in Range(R) <=> ses[s].masterSocket = j \/ ses[s].slaveSocket = j
  OBVIOUS
<1> DEFINE R == Reserved(s)
           a == ses[s].masterSocket
           b == ses[s].slaveSocket
<1>1. a \in Sockets \cup {None} /\ b \in Sockets \cup {None}
  BY DEF IInv, TypeInv, SesRecs
<1>2. R = (IF a = None THEN <<>> ELSE <<a>>) \o (IF b = None THEN <<>> ELSE <<b>>)
  BY DEF Reserved
<1>3. \A j \in Sockets : j # None
  BY SocketsAssumption
<1> HIDE DEF R, a, b
<1>4. CASE a = None /\ b = None
  <2>1. R = <<>>
    BY <1>2, <1>4
  <2>2. DOMAIN R = {} /\ Range(R) = {}
    BY <2>1 DEF Range
  <2>3. R \in Seq(Sockets) /\ Len(R) = 0
    BY <2>1
  <2> QED BY <1>3, <1>4, <2>2, <2>3 DEF R, a, b, One
<1>5. CASE (a = None /\ b # None) \/ (a # None /\ b = None)
  <2> DEFINE c == IF a = None THEN b ELSE a
  <2>1. R = <<c>> /\ c \in Sockets
    <3>1. \A x : <<>> \o <<x>> = <<x>> /\ <<x>> \o <<>> = <<x>>
      OBVIOUS
    <3> QED BY <1>1, <1>2, <1>5, <3>1, Zenon
  <2>3. \A j \in Sockets : c = j <=> a = j \/ b = j
    BY <1>1, <1>3, <1>5
  <2>4. \A j \in Sockets : ~(a = j /\ b = j)
    BY <1>3, <1>5
  <2> HIDE DEF c
  <2>2. DOMAIN R = {1} /\ R[1] = c /\ Range(R) = {c} /\ R \in Seq(Sockets) /\ Len(R) = 1
    BY <2>1 DEF Range
  <2> QED BY <2>2, <2>3, <2>4 DEF R, a, b, One
<1>6. CASE a # None /\ b # None
  <2>1. R = <<a, b>> /\ a \in Sockets /\ b \in Sockets
    <3>1. \A x, y : <<x>> \o <<y>> = <<x, y>>
      <4> TAKE x, y
      <4>1. <<x>> \in Seq({x, y}) /\ y \in {x, y}
        OBVIOUS
      <4>2. <<y>> \in Seq({x, y}) /\ Len(<<x>>) = 1 /\ Len(<<y>>) = 1 /\ <<x>>[1] = x /\ <<y>>[1] = y
        OBVIOUS
      <4> DEFINE u == <<x>>
                 v == <<y>>
                 w == u \o v
                 z == <<x, y>>
      <4>3. u \in Seq({x, y}) /\ v \in Seq({x, y}) /\ Len(u) = 1 /\ Len(v) = 1 /\ u[1] = x /\ v[1] = y
        BY <4>1, <4>2
      <4>4. z \in Seq({x, y}) /\ Len(z) = 2 /\ z[1] = x /\ z[2] = y
        OBVIOUS
      <4> HIDE DEF u, v, z
      <4>5. w \in Seq({x, y}) /\ Len(w) = 2 /\ w[1] = x /\ w[2] = y
        BY <4>3, ConcatProperties
      <4> HIDE DEF w
      <4>6. w = z
        BY <4>4, <4>5
      <4> QED BY <4>6 DEF u, v, w, z
    <3> QED BY <1>1, <1>2, <1>6, <3>1, Zenon
  <2>2. DOMAIN R = {1, 2} /\ R[1] = a /\ R[2] = b /\ R \in Seq(Sockets) /\ Len(R) = 2
    BY <2>1
  <2>3. Range(R) = {a, b}
    BY <2>2 DEF Range
  <2> QED BY <2>2, <2>3 DEF R, a, b, One
<1> QED BY <1>4, <1>5, <1>6

(* Refresh and Close of a session: what it has reserved is to be released. *)
LEMMA UnsetKeeps ==
    ASSUME NEW s \in Sessions, NEW r \in SesRecs, r.masterSocket = None, r.slaveSocket = None
    PROVE  /\ IInv /\ go[s].pc = "idle"
           /\ ses' = [ses EXCEPT ![s] = r] /\ go' = [go EXCEPT ![s] = Releasing(Idle, Reserved(s))]
           /\ UNCHANGED <<config, server, sock, faults, panic>>
           => IInv'
<1> SUFFICES ASSUME IInv, go[s].pc = "idle",
                    ses' = [ses EXCEPT ![s] = r], go' = [go EXCEPT ![s] = Releasing(Idle, Reserved(s))],
                    UNCHANGED <<config, server, sock, faults, panic>>
             PROVE  IInv'
  BY Zenon
<1> DEFINE g == go[s]
           R == Reserved(s)
           h == Releasing(Idle, R)
<1>2. /\ g \in GoRecs /\ GoOk(g) /\ sock \in [Sockets -> SockRecs]
  BY GoFacts
<1>3. g.sock = None /\ g.todo = <<>> /\ g.back = None
  BY <1>2 DEF GoRecs, GoOk, NoSocketYet
<1>4. /\ R \in Seq(Sockets) /\ Len(R) <= 2
      /\ \A j \in Sockets : One(1 \in DOMAIN R /\ R[1] = j) + One(2 \in DOMAIN R /\ R[2] = j)
                              = One(ses[s].masterSocket = j) + One(ses[s].slaveSocket = j)
  BY ReservedFacts
<1> HIDE DEF R
<1>6. h \in GoRecs /\ GoOk(h) /\ ~LoginPhase(h)
      /\ h.sock = None /\ h.todo = R /\ h.back = None /\ h.pc \in {"idle", "releasing"}
  BY <1>4, ReleasingFacts
<1> HIDE DEF h
<1>7. \A j \in Sockets : Weight(h, r, j) = Weight(g, ses[s], j)
  <2> TAKE j \in Sockets
  <2>1. j # None
    BY SocketsAssumption
  <2>2. Weight(g, ses[s], j) = One(ses[s].masterSocket = j) + One(ses[s].slaveSocket = j)
    BY <1>3, <2>1 DEF Weight, One
  <2>3. Weight(h, r, j) = One(1 \in DOMAIN R /\ R[1] = j) + One(2 \in DOMAIN R /\ R[2] = j)
    BY <1>6, <2>1 DEF Weight, One
  <2> QED BY <1>4, <2>2, <2>3
<1>8. \A j \in Sockets : Shifts(s, h, r, j, sock'[j])
  <2>1. sock' = sock
    OBVIOUS
  <2> HIDE DEF g
  <2> QED BY <1>7, <2>1, NoShift DEF g
<1>9. SesOk(r) /\ PanicInv'
  BY DEF SesOk, IInv, PanicInv
<1>10. go' = [go EXCEPT ![s] = h]
  BY DEF h, R
<1> QED BY <1>2, <1>3, <1>6, <1>8, <1>9, <1>10, MoveKeeps

LEMMA RefreshKeeps ==
    ASSUME NEW s \in Sessions, NEW mode \in Modes PROVE IInv /\ Refresh(s, mode) => IInv'
<1> SUFFICES ASSUME IInv, Refresh(s, mode) PROVE IInv'
  OBVIOUS
<1> DEFINE o == mode # "Strong"
           r == [Unset(ses[s]) EXCEPT !.mode = mode, !.slaveOk = o]
<1>1. ses[s] \in SesRecs /\ ses \in [Sessions -> SesRecs]
  BY GoFacts
<1>2. ses' = [ses EXCEPT ![s] = r]
  BY <1>1 DEF Refresh
<1>3. o \in BOOLEAN
  OBVIOUS
<1> HIDE DEF o
<1>4. r \in SesRecs /\ r.masterSocket = None /\ r.slaveSocket = None
  <2>1. Unset(ses[s]) \in SesRecs /\ Unset(ses[s]).masterSocket = None /\ Unset(ses[s]).slaveSocket = None
    BY <1>1 DEF Unset, SesRecs
  <2> QED BY <1>3, <2>1 DEF SesRecs
<1> HIDE DEF r
<1>5. go[s].pc = "idle" /\ go' = [go EXCEPT ![s] = Releasing(Idle, Reserved(s))]
      /\ UNCHANGED <<config, server, sock, faults, panic>>
  BY DEF Refresh
<1> QED BY <1>2, <1>4, <1>5, UnsetKeeps

LEMMA CloseSessionKeeps == ASSUME NEW s \in Sessions PROVE IInv /\ CloseSession(s) => IInv'
<1> SUFFICES ASSUME IInv, CloseSession(s) PROVE IInv'
  OBVIOUS
<1> DEFINE r == [NewSession EXCEPT !.open = FALSE]
<1>1. ses' = [ses EXCEPT ![s] = r]
  BY DEF CloseSession
<1>2. r \in SesRecs /\ r.masterSocket = None /\ r.slaveSocket = None
  <2>1. <<>> \in Seq(DOMAIN Creds)
    OBVIOUS
  <2> QED BY <2>1 DEF NewSession, SesRecs, Modes
<1> HIDE DEF r
<1>3. go[s].pc = "idle" /\ go' = [go EXCEPT ![s] = Releasing(Idle, Reserved(s))]
      /\ UNCHANGED <<config, server, sock, faults, panic>>
  BY DEF CloseSession
<1> QED BY <1>1, <1>2, <1>3, UnsetKeeps

LEMMA ReleaseNextKeeps == ASSUME NEW s \in Sessions PROVE IInv /\ releaseNext(s) => IInv'
<1> SUFFICES ASSUME IInv, releaseNext(s) PROVE IInv'
  OBVIOUS
<1> DEFINE g == go[s]
           T == g.todo
           k == Head(T)
           x == Release(sock[k])
           B == IF x.references = 0 /\ x.attached THEN k ELSE None
           U == Tail(T)
           f == [g EXCEPT !.todo = U, !.back = B]
           h == Rest(f)
           r == ses[s]
<1>1. /\ g.pc = "releasing" /\ g.back = None /\ T # <<>>
      /\ UNCHANGED <<config, server, ses, faults>>
      /\ sock[k].references # 0 =>
           sock' = [sock EXCEPT ![k] = x] /\ go' = [go EXCEPT ![s] = h] /\ UNCHANGED panic
  BY DEF releaseNext
<1>2. /\ g \in GoRecs /\ GoOk(g) /\ sock \in [Sockets -> SockRecs] /\ ses \in [Sessions -> SesRecs] /\ r \in SesRecs
      /\ T \in Seq(Sockets)
  <2>1. g \in GoRecs /\ GoOk(g) /\ sock \in [Sockets -> SockRecs] /\ ses \in [Sessions -> SesRecs] /\ r \in SesRecs
    BY GoFacts
  <2> QED BY <2>1 DEF GoRecs
<1>3. g.sock = None /\ Len(T) <= 2
  BY <1>1, <1>2 DEF GoOk, NoSocketYet
<1>4. /\ k = T[1] /\ k \in Sockets /\ 1 \in DOMAIN T /\ U \in Seq(Sockets) /\ Len(U) <= 1 /\ 2 \notin DOMAIN U
      /\ 1 \in DOMAIN U <=> 2 \in DOMAIN T
      /\ 1 \in DOMAIN U => U[1] = T[2]
      /\ U = <<>> => 2 \notin DOMAIN T
  <2>1. /\ k \in Sockets /\ U \in Seq(Sockets) /\ Len(U) = Len(T) - 1
        /\ \A i \in 1..Len(U) : U[i] = T[i + 1]
    BY <1>1, <1>2, HeadTailProperties
  <2>2. k = T[1] /\ Len(T) \in Nat /\ Len(T) # 0 /\ DOMAIN T = 1..Len(T) /\ DOMAIN U = 1..Len(U)
    BY <1>1, <1>2, <2>1
  <2> HIDE DEF T, U, k
  <2>3. U = <<>> <=> Len(U) = 0
    BY <2>1
  <2>4. Len(T) \in {1, 2}
    BY <1>3, <2>2
  <2>5. 1 \in DOMAIN T /\ Len(U) <= 1 /\ 2 \notin DOMAIN U /\ (1 \in DOMAIN U <=> 2 \in DOMAIN T) /\ (Len(U) = 0 => 2 \notin DOMAIN T)
    BY <2>1, <2>2, <2>4
  <2>6. 1 \in DOMAIN U => U[1] = T[2]
    BY <2>1, <2>2
  <2> QED BY <2>1, <2>2, <2>3, <2>5, <2>6
<1> HIDE DEF k, T, U
<1>5. Weight(g, r, k) # 0 /\ Held(s, k) /\ sock[k].references # 0
  <2>1. Weight(g, r, k) # 0
    <3>1. 1 \in DOMAIN g.todo /\ g.todo[1] = k
      BY <1>4 DEF T
    <3> QED BY <3>1 DEF Weight, One
  <2>2. Held(s, k)
    BY <2>1 DEF Held
  <2> QED BY <1>4, <2>1, <2>2, HeldFacts
<1>6. /\ x \in SockRecs /\ x.references = sock[k].references - 1
      /\ x.dead = sock[k].dead /\ x.abending = sock[k].abending
      /\ \/ x.wire = sock[k].wire /\ x.replyFuncs = sock[k].replyFuncs
         \/ sock[k].dead /\ x.wire = <<>> /\ x.replyFuncs = {}
  BY <1>2, <1>4, <1>5, ReleaseFacts
<1> HIDE DEF x
<1>7. B \in {None, k} /\ (B # None => x.references = 0)
  OBVIOUS
<1> HIDE DEF B
<1>8. h \in GoRecs /\ h.sock = None /\ h.todo = U /\ h.back = B /\ h.pc \in {"idle", "releasing"}
      /\ (h.pc = "idle" => U = <<>> /\ B = None) /\ h.op \in {g.op, "none"} /\ h.arg \in {g.arg, "none"}
      /\ (h.op = "none" \/ (h.op = g.op /\ h.arg = g.arg))
  <2>1. f \in GoRecs /\ f.todo = U /\ f.back = B /\ f.sock = None /\ f.pc = "releasing" /\ f.op = g.op /\ f.arg = g.arg
    <3>1. f \in GoRecs
      BY <1>2, <1>4, <1>7 DEF GoRecs
    <3> QED BY <1>1, <1>2, <1>3, <3>1 DEF GoRecs
  <2> HIDE DEF f
  <2>2. h = IF U = <<>> /\ B = None THEN Idle ELSE f
    BY <2>1 DEF Rest
  <2>3. Idle \in GoRecs /\ Idle.todo = <<>> /\ Idle.back = None /\ Idle.sock = None /\ Idle.pc = "idle" /\ Idle.op = "none"
        /\ Idle.arg = "none"
    <3>1. <<>> \in Seq(Sockets)
      OBVIOUS
    <3> QED BY <3>1 DEF Idle, GoRecs, Pcs, NoSocketYet
  <2> HIDE DEF h
  <2> QED BY <2>1, <2>2, <2>3
<1>9. go' = [go EXCEPT ![s] = h] /\ sock' = [sock EXCEPT ![k] = x] /\ UNCHANGED panic
  BY <1>1, <1>5
<1> HIDE DEF h
<1>10. GoOk(h) /\ ~LoginPhase(h)
  BY <1>2, <1>4, <1>8 DEF GoOk, LoginPhase, Talking, HasSocket, NoSocketYet
<1>11. \A j \in Sockets : Weight(g, r, j) = Weight(h, r, j) + One(k = j)
  <2> TAKE j \in Sockets
  <2>1. j # None
    BY SocketsAssumption
  <2>2. Weight(g, r, j) = One(r.masterSocket = j) + One(r.slaveSocket = j) + One(k = j) + One(2 \in DOMAIN T /\ T[2] = j)
    <3>1. (1 \in DOMAIN g.todo /\ g.todo[1] = j) <=> k = j
      BY <1>4 DEF T
    <3>2. ~(g.sock = j /\ g.pc # "initial")
      BY <1>3, <2>1
    <3> QED BY <3>1, <3>2 DEF Weight, One, T
  <2>3. Weight(h, r, j) = One(r.masterSocket = j) + One(r.slaveSocket = j) + One(2 \in DOMAIN T /\ T[2] = j)
    <3>1. ~(h.sock = j /\ h.pc # "initial") /\ ~(2 \in DOMAIN h.todo /\ h.todo[2] = j)
      BY <1>4, <1>8, <2>1
    <3>2. (1 \in DOMAIN h.todo /\ h.todo[1] = j) <=> (2 \in DOMAIN T /\ T[2] = j)
      BY <1>4, <1>8
    <3> QED BY <3>1, <3>2 DEF Weight, One
  <2>4. \A b : One(b) \in {0, 1}
    BY DEF One
  <2> QED BY <2>2, <2>3, <2>4
<1>12. sock' \in [Sockets -> SockRecs] /\ sock'[k] = x /\ \A j \in Sockets : j # k => sock'[j] = sock[j]
  BY <1>2, <1>4, <1>6, <1>9
<1>13. \A j \in Sockets : Shifts(s, h, r, j, sock'[j])
  <2> TAKE j \in Sockets
  <2>0. /\ Weight(g, r, j) \in Nat /\ Weight(h, r, j) \in Nat /\ sock[j].references \in Nat
    BY HeldOnce, WeightFacts
  <2>1. CASE j = k
    <3>1. Weight(g, r, j) = Weight(h, r, j) + 1
      BY <1>11, <2>1 DEF One
    <3>2. x.references + Weight(g, r, j) = sock[j].references + Weight(h, r, j)
      BY <1>6, <2>0, <2>1, <3>1
    <3> QED BY <1>5, <1>6, <1>12, <2>1, <3>2 DEF Shifts, g, r
  <2>2. CASE j # k
    <3>1. Weight(g, r, j) = Weight(h, r, j) /\ sock'[j] = sock[j]
      BY <1>11, <1>12, <2>0, <2>2 DEF One
    <3> QED BY <3>1, NoShift
  <2> QED BY <2>1, <2>2
<1>14. ses' = [ses EXCEPT ![s] = r] /\ SesOk(r)
  BY <1>1, <1>2 DEF IInv, SesInv, SesOk
<1>15. PanicInv' /\ g.pc \notin {"wait", "append", "initial"} /\ (h.pc \in {"idle", "releasing"} \/ r.open)
  BY <1>1, <1>8, <1>9 DEF IInv, PanicInv
<1>16. h.back = None \/ (h.back \in Sockets /\ sock'[h.back].references = 0 /\ Held(s, h.back))
  BY <1>4, <1>5, <1>7, <1>8, <1>12
<1> HIDE DEF r
<1> QED BY <1>1, <1>2, <1>8, <1>9, <1>10, <1>12, <1>13, <1>14, <1>15, <1>16, MoveKeeps DEF r

(* A reference more on a socket that is held.                              *)
LEMMA AcquireShift ==
    ASSUME NEW s \in Sessions, NEW h, NEW r, NEW j \in Sockets
    PROVE  IInv /\ Weight(h, r, j) = Weight(go[s], ses[s], j) + 1 /\ Held(s, j)
             => Acquire(sock[j]) \in SockRecs /\ Shifts(s, h, r, j, Acquire(sock[j]))
<1> SUFFICES ASSUME IInv, Weight(h, r, j) = Weight(go[s], ses[s], j) + 1, Held(s, j)
             PROVE  Acquire(sock[j]) \in SockRecs /\ Shifts(s, h, r, j, Acquire(sock[j]))
  OBVIOUS
<1>1. sock[j] \in SockRecs
  BY DEF IInv, TypeInv
<1> DEFINE x == Acquire(sock[j])
<1>2. /\ x \in SockRecs /\ x.references = sock[j].references + 1
      /\ x.dead = sock[j].dead /\ x.abending = sock[j].abending
      /\ x.wire = sock[j].wire /\ x.replyFuncs = sock[j].replyFuncs
  BY <1>1, AcquireFacts
<1>3. sock[j].references \in Nat /\ Weight(go[s], ses[s], j) \in Nat
  BY HeldOnce
<1> HIDE DEF x
<1>4. x.references + Weight(go[s], ses[s], j) = sock[j].references + Weight(h, r, j)
  BY <1>2, <1>3
<1> QED BY <1>2, <1>4 DEF Shifts, x

(* What Use makes of a goroutine that has a socket.                        *)
LEMMA UseFacts ==
    ASSUME NEW g \in GoRecs, g.sock \in Sockets, g.todo = <<>>, g.back = None,
           g.op = "login" => g.arg \in DOMAIN Creds
    PROVE  LET h == Use(g) IN
           /\ h \in GoRecs /\ GoOk(h) /\ ~LoginPhase(h)
           /\ h.sock = g.sock /\ h.todo = <<>> /\ h.back = None /\ h.pc \in {"loginNew", "flush"}
<1>1. CASE g.op = "login"
  <2> DEFINE p == <<g.arg>>
             h == [g EXCEPT !.pc = "loginNew", !.pend = p]
  <2>1. p \in Seq(DOMAIN Creds)
    BY <1>1
  <2>2. Use(g) = h
    BY <1>1 DEF Use
  <2> HIDE DEF p
  <2>3. h \in GoRecs
    BY ZenonT(60), <2>1 DEF GoRecs, Pcs, HasSocket
  <2>4. h.pc = "loginNew" /\ h.sock = g.sock /\ h.todo = g.todo /\ h.back = g.back /\ h.op = g.op /\ h.arg = g.arg
    BY <2>3 DEF GoRecs
  <2> HIDE DEF h
  <2>5. GoOk(h) /\ ~LoginPhase(h)
    BY <1>1, <2>4 DEF GoOk, LoginPhase, Talking, HasSocket, NoSocketYet
  <2> QED BY <2>2, <2>3, <2>4, <2>5
<1>2. CASE g.op # "login"
  <2> DEFINE h == [g EXCEPT !.pc = "flush", !.req = "query", !.cred = "none"]
  <2>2. Use(g) = h
    BY <1>2 DEF Use
  <2>3. h \in GoRecs
    BY ZenonT(60) DEF GoRecs, Pcs, HasSocket
  <2>4. h.pc = "flush" /\ h.sock = g.sock /\ h.todo = g.todo /\ h.back = g.back /\ h.op = g.op /\ h.arg = g.arg
        /\ h.req = "query"
    BY <2>3 DEF GoRecs
  <2> HIDE DEF h
  <2>5. GoOk(h) /\ ~LoginPhase(h)
    BY <1>2, <2>4 DEF GoOk, LoginPhase, Talking, HasSocket, NoSocketYet
  <2> QED BY <2>2, <2>3, <2>4, <2>5
<1> QED BY <1>1, <1>2

LEMMA AcquireSocketPrivateKeeps ==
    ASSUME NEW s \in Sessions, NEW op \in {"read", "write", "login"}
    PROVE  IInv /\ AcquireSocketPrivate(s, op) => IInv'
<1> SUFFICES ASSUME IInv, AcquireSocketPrivate(s, op) PROVE IInv'
  OBVIOUS
<1> DEFINE slaveOk == op # "write"
           r == ses[s]
           slave == r.slaveSocket # None /\ r.slaveOk /\ slaveOk /\ (r.masterSocket = None \/ r.mode # "Monotonic")
           k == IF slave THEN r.slaveSocket ELSE r.masterSocket
           g == [Idle EXCEPT !.op = op, !.slaveOk = slaveOk]
<1>1. PICK c \in IF op = "login" THEN DOMAIN Creds \ Range(r.creds) ELSE {"none"} :
         \/ k # None /\ sock' = [sock EXCEPT ![k] = Acquire(@)] /\ go' = [go EXCEPT ![s] = Use([g EXCEPT !.sock = k, !.arg = c])]
         \/ k = None /\ sock' = sock /\ go' = [go EXCEPT ![s] = [g EXCEPT !.arg = c, !.pc = "acquire"]]
  BY DEF AcquireSocketPrivate
<1>2. r.open /\ go[s].pc = "idle" /\ UNCHANGED <<config, server, ses, faults, panic>>
  BY DEF AcquireSocketPrivate
<1>3. /\ go[s] \in GoRecs /\ GoOk(go[s]) /\ sock \in [Sockets -> SockRecs] /\ ses \in [Sessions -> SesRecs] /\ r \in SesRecs
  BY GoFacts
<1>4. go[s].sock = None /\ go[s].todo = <<>> /\ go[s].back = None
  BY <1>2, <1>3 DEF GoOk, NoSocketYet
<1>5. c \in DOMAIN Creds \cup {"none"} /\ (op = "login" => c \in DOMAIN Creds)
  OBVIOUS
<1>6. g \in GoRecs /\ g.todo = <<>> /\ g.back = None /\ g.sock = None /\ g.op = op
  <2>1. Idle \in GoRecs
    <3>1. <<>> \in Seq(Sockets)
      OBVIOUS
    <3> QED BY <3>1 DEF Idle, GoRecs, Pcs, NoSocketYet
  <2>2. slaveOk \in BOOLEAN
    OBVIOUS
  <2> HIDE DEF slaveOk
  <2>3. g \in GoRecs
    BY <2>1, <2>2 DEF GoRecs
  <2> QED BY <2>1, <2>3 DEF GoRecs, Idle
<1>7. ses' = [ses EXCEPT ![s] = r] /\ SesOk(r) /\ PanicInv'
  BY <1>2, <1>3 DEF IInv, SesInv, SesOk, PanicInv
<1>8. k \in {r.masterSocket, r.slaveSocket} /\ k \in Sockets \cup {None}
  BY <1>3 DEF SesRecs
<1> HIDE DEF g, slaveOk, slave, k
<1>9. \A j \in Sockets : j # None
  BY SocketsAssumption
<1>10. CASE k # None /\ sock' = [sock EXCEPT ![k] = Acquire(@)] /\ go' = [go EXCEPT ![s] = Use([g EXCEPT !.sock = k, !.arg = c])]
  <2> DEFINE f == [g EXCEPT !.sock = k, !.arg = c]
             h == Use(f)
  <2>1. f \in GoRecs /\ f.sock = k /\ f.todo = <<>> /\ f.back = None /\ f.op = op /\ f.arg = c
    <3>1. f \in GoRecs
      BY <1>5, <1>6, <1>8 DEF GoRecs
    <3> QED BY <1>6, <3>1 DEF GoRecs
  <2> HIDE DEF f
  <2>2. /\ h \in GoRecs /\ GoOk(h) /\ ~LoginPhase(h)
        /\ h.sock = k /\ h.todo = <<>> /\ h.back = None /\ h.pc \in {"loginNew", "flush"}
    BY <1>5, <1>8, <1>10, <2>1, UseFacts
  <2>3. go' = [go EXCEPT ![s] = h]
    BY <1>10 DEF f
  <2> HIDE DEF h
  <2>4. k \in Sockets /\ Held(s, k)
    <3>1. k \in Sockets
      BY <1>8, <1>10
    <3>2. Weight(go[s], r, k) \in Nat /\ Weight(go[s], r, k) >= 1
      BY <1>8, WeightFacts
    <3> QED BY <3>1, <3>2 DEF Held
  <2>5. \A j \in Sockets : Weight(h, r, j) = Weight(go[s], r, j) + One(k = j)
    <3> TAKE j \in Sockets
    <3>1. ~(go[s].sock = j /\ go[s].pc # "initial") /\ ((h.sock = j /\ h.pc # "initial") <=> k = j)
      BY <1>4, <1>9, <2>2
    <3>2. 1 \notin DOMAIN go[s].todo /\ 2 \notin DOMAIN go[s].todo /\ 1 \notin DOMAIN h.todo /\ 2 \notin DOMAIN h.todo
      BY <1>4, <2>2
    <3> QED BY <3>1, <3>2 DEF Weight, One
  <2>6. \A j \in Sockets : sock'[j] = IF j = k THEN Acquire(sock[j]) ELSE sock[j]
    BY <1>3, <1>10
  <2>7. ASSUME NEW j \in Sockets PROVE sock'[j] \in SockRecs /\ Shifts(s, h, r, j, sock'[j])
    <3>1. CASE j = k
      <4>1. Weight(h, r, j) = Weight(go[s], r, j) + 1
        BY <2>5, <3>1 DEF One
      <4> QED BY <2>4, <2>6, <3>1, <4>1, AcquireShift
    <3>2. CASE j # k
      <4>1. Weight(go[s], r, j) \in Nat
        BY WeightFacts
      <4>2. Weight(h, r, j) = Weight(go[s], r, j)
        BY <2>5, <3>2, <4>1 DEF One
      <4> QED BY <1>3, <2>6, <3>2, <4>2, NoShift
    <3> QED BY <3>1, <3>2
  <2>8. sock' \in [Sockets -> SockRecs]
    BY <1>3, <1>10, <2>7
  <2> HIDE DEF r
  <2> QED BY <1>2, <1>3, <1>4, <1>7, <2>2, <2>3, <2>4, <2>7, <2>8, MoveKeeps
<1>11. CASE k = None /\ sock' = sock /\ go' = [go EXCEPT ![s] = [g EXCEPT !.arg = c, !.pc = "acquire"]]
  <2> DEFINE h == [g EXCEPT !.arg = c, !.pc = "acquire"]
  <2>1. h \in GoRecs
    BY <1>5, <1>6 DEF GoRecs, Pcs, NoSocketYet
  <2>2. h.pc = "acquire" /\ h.sock = None /\ h.todo = <<>> /\ h.back = None /\ h.op = op /\ h.arg = c
    BY <1>6, <2>1 DEF GoRecs
  <2> HIDE DEF h
  <2>3. GoOk(h) /\ ~LoginPhase(h)
    BY <1>5, <2>2 DEF GoOk, LoginPhase, Talking, HasSocket, NoSocketYet
  <2>4. \A j \in Sockets : Weight(h, r, j) = Weight(go[s], r, j)
    BY <1>2, <1>4, <1>9, <2>2 DEF Weight, One
  <2>5. \A j \in Sockets : Shifts(s, h, r, j, sock'[j])
    BY <1>11, <2>4, NoShift
  <2>6. go' = [go EXCEPT ![s] = h]
    BY <1>11 DEF h
  <2> HIDE DEF r
  <2> QED BY <1>2, <1>3, <1>4, <1>7, <1>11, <2>1, <2>2, <2>3, <2>5, <2>6, MoveKeeps
<1> QED BY <1>1, <1>10, <1>11

LEMMA SetSocketKeeps == ASSUME NEW s \in Sessions PROVE IInv /\ setSocket(s) => IInv'
<1> SUFFICES ASSUME IInv, setSocket(s) PROVE IInv'
  OBVIOUS
<1> DEFINE g == go[s]
           k == g.sock
           r == ses[s]
           taken == IF sock[k].master THEN r.masterSocket ELSE r.slaveSocket
           keep == r.mode # "Eventual" \/ r.slaveSocket # None
           kept == IF ~keep THEN r
                   ELSE IF sock[k].master THEN [r EXCEPT !.masterSocket = k]
                   ELSE [r EXCEPT !.slaveSocket = k]
           q == IF ~g.slaveOk /\ r.mode = "Monotonic" THEN [kept EXCEPT !.slaveOk = FALSE] ELSE kept
           h == Use(g)
<1>1. /\ g.pc = "login" /\ UNCHANGED <<config, server, faults>>
      /\ \/ panic' = "setSocket with existing socket reserved" /\ UNCHANGED <<sock, ses, go>>
         \/ /\ ~(keep /\ taken # None)
            /\ sock' = IF keep THEN [sock EXCEPT ![k] = Acquire(@)] ELSE sock
            /\ ses' = [ses EXCEPT ![s] = q]
            /\ go' = [go EXCEPT ![s] = h] /\ UNCHANGED panic
  BY DEF setSocket, IInv, TypeInv
<1>2. /\ g \in GoRecs /\ GoOk(g) /\ sock \in [Sockets -> SockRecs] /\ ses \in [Sessions -> SesRecs] /\ r \in SesRecs
      /\ go \in [Sessions -> GoRecs] /\ faults \in 0..C.faults
  BY GoFacts
<1>3. k \in Sockets /\ g.todo = <<>> /\ g.back = None /\ (g.op = "login" => g.arg \in DOMAIN Creds)
  BY <1>1, <1>2 DEF GoOk, HasSocket
<1>4. SesOk(r) /\ r.open
  BY <1>1 DEF IInv, SesInv, SesOk
<1>5. r.masterSocket # k /\ r.slaveSocket # k /\ Held(s, k)
  <2>1. sock[k].references = 1
    BY <1>1 DEF IInv, LoginInv, LoginPhase
  <2>2. Weight(g, r, k) <= sock[k].references /\ Weight(g, r, k) \in Nat
    BY <1>3, HeldOnce
  <2>3. /\ Weight(g, r, k) >= 1
        /\ r.masterSocket = k \/ r.slaveSocket = k => Weight(g, r, k) >= 2
    BY <1>1, WeightFacts
  <2> QED BY <2>1, <2>2, <2>3 DEF Held
<1>6. CASE panic' = "setSocket with existing socket reserved" /\ UNCHANGED <<sock, ses, go>>
  <2>1. go' = [go EXCEPT ![s] = g] /\ Alike(g, g) /\ PanicInv'
    BY <1>2, <1>6 DEF Alike, PanicInv
  <2>2. sock' \in [Sockets -> SockRecs] /\ \A j \in Sockets : SameSocket(sock[j], sock'[j])
    BY <1>2, <1>6 DEF SameSocket
  <2>3. ses' \in [Sessions -> SesRecs] /\ (\A t \in Sessions : AlikeSes(ses[t], ses'[t]) /\ ses'[t].open = ses[t].open)
        /\ faults' \in 0..C.faults
    BY <1>1, <1>2, <1>6 DEF AlikeSes
  <2> QED BY <1>1, <1>2, <2>1, <2>2, <2>3, QuietMove
<1>7. CASE /\ ~(keep /\ taken # None)
           /\ sock' = IF keep THEN [sock EXCEPT ![k] = Acquire(@)] ELSE sock
           /\ ses' = [ses EXCEPT ![s] = q]
           /\ go' = [go EXCEPT ![s] = h] /\ UNCHANGED panic
  <2>1. /\ h \in GoRecs /\ GoOk(h) /\ ~LoginPhase(h)
        /\ h.sock = k /\ h.todo = <<>> /\ h.back = None /\ h.pc \in {"loginNew", "flush"}
    BY <1>2, <1>3, UseFacts
  <2> HIDE DEF h
  <2>2. /\ kept \in SesRecs /\ kept.open = r.open
        /\ \/ ~keep /\ kept.masterSocket = r.masterSocket /\ kept.slaveSocket = r.slaveSocket
           \/ keep /\ r.masterSocket = None /\ kept.masterSocket = k /\ kept.slaveSocket = r.slaveSocket
           \/ keep /\ r.slaveSocket = None /\ kept.slaveSocket = k /\ kept.masterSocket = r.masterSocket
    <3> HIDE DEF keep, g
    <3>1. CASE ~keep
      BY <1>2, <3>1
    <3>2. CASE keep /\ sock[k].master
      BY <1>2, <1>3, <1>7, <3>2 DEF SesRecs
    <3>3. CASE keep /\ ~sock[k].master
      BY <1>2, <1>3, <1>7, <3>3 DEF SesRecs
    <3> QED BY <3>1, <3>2, <3>3
  <2> HIDE DEF kept
  <2>3. q \in SesRecs /\ q.open = kept.open /\ q.masterSocket = kept.masterSocket /\ q.slaveSocket = kept.slaveSocket
    <3>1. [kept EXCEPT !.slaveOk = FALSE] \in SesRecs
      BY <2>2 DEF SesRecs
    <3> QED BY <2>2, <3>1 DEF SesRecs
  <2> HIDE DEF q
  <2>4. k # None /\ \A j \in Sockets : j # None
    BY <1>3, SocketsAssumption
  <2>5. SesOk(q) /\ q.open
    BY <1>4, <1>5, <2>2, <2>3, <2>4 DEF SesOk
  <2>6. \A j \in Sockets : Weight(h, q, j) = Weight(g, r, j) + One(keep /\ k = j)
    <3> TAKE j \in Sockets
    <3>1. ((g.sock = j /\ g.pc # "initial") <=> k = j) /\ ((h.sock = j /\ h.pc # "initial") <=> k = j)
      BY <1>1, <2>1
    <3>2. 1 \notin DOMAIN g.todo /\ 2 \notin DOMAIN g.todo /\ 1 \notin DOMAIN h.todo /\ 2 \notin DOMAIN h.todo
      BY <1>3, <2>1
    <3>3. One(q.masterSocket = j) + One(q.slaveSocket = j)
            = One(r.masterSocket = j) + One(r.slaveSocket = j) + One(keep /\ k = j)
      BY <2>2, <2>3, <2>4 DEF One
    <3>4. Weight(h, q, j) = One(k = j) + One(q.masterSocket = j) + One(q.slaveSocket = j)
      BY <3>1, <3>2 DEF Weight, One
    <3>5. Weight(g, r, j) = One(k = j) + One(r.masterSocket = j) + One(r.slaveSocket = j)
      BY <3>1, <3>2 DEF Weight, One
    <3>6. \A b : One(b) \in {0, 1}
      BY DEF One
    <3> QED BY <3>3, <3>4, <3>5, <3>6
  <2>7. \A j \in Sockets : sock'[j] = IF keep /\ k = j THEN Acquire(sock[j]) ELSE sock[j]
    BY <1>2, <1>7
  <2> HIDE DEF keep
  <2>8. ASSUME NEW j \in Sockets PROVE sock'[j] \in SockRecs /\ Shifts(s, h, q, j, sock'[j])
    <3>1. CASE keep /\ j = k
      <4>1. Weight(h, q, j) = Weight(g, r, j) + 1
        BY <2>6, <3>1 DEF One
      <4> QED BY <1>5, <2>7, <3>1, <4>1, AcquireShift
    <3>2. CASE ~(keep /\ j = k)
      <4>1. Weight(g, r, j) \in Nat
        BY WeightFacts
      <4>2. Weight(h, q, j) = Weight(g, r, j)
        BY <2>6, <3>2, <4>1 DEF One
      <4> QED BY <1>2, <2>7, <3>2, <4>2, NoShift
    <3> QED BY <3>1, <3>2
  <2>9. sock' \in [Sockets -> SockRecs]
    <3>1. sock' = [j \in Sockets |-> sock'[j]]
      BY <1>2, <1>7
    <3> QED BY <2>8, <3>1
  <2>10. PanicInv' /\ g.pc \notin {"wait", "append", "initial"}
    BY <1>1, <1>7 DEF IInv, PanicInv
  <2> HIDE DEF r
  <2> QED BY <1>1, <1>3, <1>7, <2>1, <2>3, <2>5, <2>8, <2>9, <2>10, MoveKeeps
<1> QED BY <1>1, <1>6, <1>7

LEMMA CopySessionKeeps ==
    ASSUME NEW s \in Sessions, NEW t \in Sessions, NEW op \in {"new", "copy", "clone"}
    PROVE  IInv /\ copySession(s, t, op) => IInv'
<1> SUFFICES ASSUME IInv, copySession(s, t, op) PROVE IInv'
  OBVIOUS
<1> DEFINE D == IF op = "new" THEN C.creds[s] ELSE ses[s].creds
           H == IF op = "new" THEN {} ELSE ses[s].halfOut
           r == [ses[s] EXCEPT !.creds = D, !.halfOut = H]
           o == r.mode # "Strong"
           R == Reserved(s)
           q == IF op = "clone" THEN r ELSE [Unset(r) EXCEPT !.slaveOk = o]
           h == IF op = "clone" THEN go[t] ELSE Releasing(Idle, R)
           a == ses[s].masterSocket
           b == ses[s].slaveSocket
<1>1. /\ ses[s].open /\ ~ses[t].open /\ go[t].pc = "idle" /\ UNCHANGED <<config, server, faults, panic>>
      /\ sock' = [k \in Sockets |-> IF k \in Range(R) THEN Acquire(sock[k]) ELSE sock[k]]
      /\ ses' = [ses EXCEPT ![t] = q]
  BY DEF copySession
<1>2. /\ go[t] \in GoRecs /\ GoOk(go[t]) /\ sock \in [Sockets -> SockRecs] /\ ses \in [Sessions -> SesRecs] /\ ses[s] \in SesRecs
      /\ go \in [Sessions -> GoRecs] /\ go[s] \in GoRecs
  BY GoFacts
<1>3. go' = [go EXCEPT ![t] = h]
  BY <1>2 DEF copySession
<1>4. go[t].sock = None /\ go[t].todo = <<>> /\ go[t].back = None /\ s # t
  BY <1>1, <1>2 DEF GoOk, NoSocketYet
<1>5. /\ R \in Seq(Sockets) /\ Len(R) <= 2
      /\ \A j \in Sockets :
           /\ One(1 \in DOMAIN R /\ R[1] = j) + One(2 \in DOMAIN R /\ R[2] = j) = One(a = j) + One(b = j)
           /\ j \in Range(R) <=> a = j \/ b = j
  BY ReservedFacts
<1> HIDE DEF R
<1>6. D \in Seq(DOMAIN Creds) /\ H \in SUBSET Sources
  BY <1>2, ScenariosAssumption DEF C, IInv, TypeInv, SesRecs
<1> HIDE DEF D, H
<1>7. r \in SesRecs /\ r.open /\ r.masterSocket = a /\ r.slaveSocket = b
  <2>1. r \in SesRecs
    BY <1>2, <1>6 DEF SesRecs
  <2> QED BY <1>1, <1>2, <2>1 DEF SesRecs
<1> HIDE DEF r
<1>8. /\ q \in SesRecs /\ q.open
      /\ \/ op = "clone" /\ q.masterSocket = a /\ q.slaveSocket = b
         \/ op # "clone" /\ q.masterSocket = None /\ q.slaveSocket = None
  <2>1. CASE op = "clone"
    BY <1>7, <2>1
  <2>2. CASE op # "clone"
    <3>1. o \in BOOLEAN
      OBVIOUS
    <3> HIDE DEF o
    <3>2. Unset(r) \in SesRecs /\ Unset(r).open = r.open /\ Unset(r).masterSocket = None /\ Unset(r).slaveSocket = None
      BY <1>7 DEF Unset, SesRecs
    <3> DEFINE y == [Unset(r) EXCEPT !.slaveOk = o]
    <3>3. y \in SesRecs /\ y.open = r.open /\ y.masterSocket = None /\ y.slaveSocket = None
      BY <3>1, <3>2 DEF SesRecs
    <3>4. q = y
      BY <2>2
    <3> HIDE DEF y, q
    <3> QED BY <1>7, <2>2, <3>3, <3>4
  <2> QED BY <2>1, <2>2
<1> HIDE DEF q
<1>9. SesOk(q)
  BY <1>1, <1>8 DEF IInv, SesInv, SesOk
<1>10. /\ h \in GoRecs /\ GoOk(h) /\ ~LoginPhase(h)
       /\ h.sock = None /\ h.back = None /\ h.pc \in {"idle", "releasing"}
       /\ h.todo = IF op = "clone" THEN <<>> ELSE R
  <2>1. CASE op = "clone"
    <3>1. h = go[t]
      BY <2>1
    <3> HIDE DEF h
    <3> QED BY <1>1, <1>2, <1>4, <2>1, <3>1 DEF LoginPhase, Talking
  <2>2. CASE op # "clone"
    <3>1. h = Releasing(Idle, R)
      BY <2>2
    <3> HIDE DEF h
    <3> QED BY <1>5, <2>2, <3>1, ReleasingFacts
  <2> QED BY <2>1, <2>2
<1> HIDE DEF h
<1>11. \A j \in Sockets : j # None
  BY SocketsAssumption
<1>12. a # None => a # b
  BY DEF IInv, SesInv
<1>13. \A j \in Sockets : Weight(go[t], ses[t], j) = 0 /\ Weight(h, q, j) = One(a = j \/ b = j)
  <2> TAKE j \in Sockets
  <2>1. ses[t].masterSocket = None /\ ses[t].slaveSocket = None
    BY <1>1 DEF IInv, SesInv
  <2>2. Weight(go[t], ses[t], j) = 0
    <3>1. 1 \notin DOMAIN go[t].todo /\ 2 \notin DOMAIN go[t].todo
      BY <1>4
    <3> QED BY <1>4, <1>11, <2>1, <3>1 DEF Weight, One
  <2>3. One(a = j \/ b = j) = One(a = j) + One(b = j)
    BY <1>11, <1>12 DEF One
  <2>4. Weight(h, q, j) = One(a = j) + One(b = j)
    <3>1. CASE op = "clone"
      <4>1. 1 \notin DOMAIN h.todo /\ 2 \notin DOMAIN h.todo
        BY <1>10, <3>1
      <4> QED BY <1>8, <1>10, <1>11, <3>1, <4>1 DEF Weight, One
    <3>2. CASE op # "clone"
      <4>1. Weight(h, q, j) = One(1 \in DOMAIN R /\ R[1] = j) + One(2 \in DOMAIN R /\ R[2] = j)
        BY <1>8, <1>10, <1>11, <3>2 DEF Weight, One
      <4> QED BY <1>5, <4>1
    <3> QED BY <3>1, <3>2
  <2> QED BY <2>2, <2>3, <2>4
<1>14. ASSUME NEW j \in Sockets, a = j \/ b = j PROVE Held(t, j)
  <2>1. Weight(go[s], ses[s], j) >= 1 /\ Weight(go[s], ses[s], j) \in Nat
        /\ (go[s].sock = j /\ go[s].pc # "initial" => Weight(go[s], ses[s], j) >= 2)
    BY <1>14, WeightFacts
  <2>2. ~(LoginPhase(go[s]) /\ go[s].sock = j)
    <3> SUFFICES ASSUME LoginPhase(go[s]), go[s].sock = j PROVE FALSE
      OBVIOUS
    <3>1. sock[j].references = 1 /\ go[s].pc # "initial"
      BY DEF IInv, LoginInv, LoginPhase, Talking
    <3>2. Weight(go[s], ses[s], j) <= sock[j].references
      BY HeldOnce
    <3> QED BY <2>1, <3>1, <3>2
  <2> QED BY <2>1, <2>2 DEF Held
<1> HIDE DEF a, b
<1>15. ASSUME NEW j \in Sockets PROVE sock'[j] \in SockRecs /\ Shifts(t, h, q, j, sock'[j])
  <2>1. CASE a = j \/ b = j
    <3>1. Weight(h, q, j) = Weight(go[t], ses[t], j) + 1
      BY <1>13, <2>1 DEF One
    <3>2. sock'[j] = Acquire(sock[j])
      BY <1>1, <1>5, <2>1
    <3> QED BY <1>14, <2>1, <3>1, <3>2, AcquireShift
  <2>2. CASE ~(a = j \/ b = j)
    <3>1. Weight(h, q, j) = Weight(go[t], ses[t], j)
      BY <1>13, <2>2 DEF One
    <3>2. sock'[j] = sock[j]
      BY <1>1, <1>5, <2>2
    <3> QED BY <1>2, <3>1, <3>2, NoShift
  <2> QED BY <2>1, <2>2
<1>16. sock' \in [Sockets -> SockRecs]
  BY <1>1, <1>15
<1>17. PanicInv'
  BY <1>1 DEF IInv, PanicInv
<1> QED BY <1>1, <1>3, <1>4, <1>8, <1>9, <1>10, <1>15, <1>16, <1>17, MoveKeeps

-----------------------------------------------------------------------------
(* Sockets that come from the pool and go back to it.                      *)

(* A step after which everybody holds what they held; who has a socket     *)
(* that is parked is left to ParkInv.                                      *)
LEMMA PoolMoveKeeps ==
    ASSUME NEW s \in Sessions, NEW h \in GoRecs, GoOk(h), ~LoginPhase(h), h.pc \notin {"wait", "append"}
    PROVE  /\ IInv /\ go' = [go EXCEPT ![s] = h] /\ UNCHANGED <<config, sock, ses, faults, panic>>
           /\ server' \in ServerRecs
           /\ server'.closed = server.closed /\ server'.live = server.live /\ server'.closing = server.closing
           /\ \A j \in Sockets : Weight(h, ses[s], j) = Weight(go[s], ses[s], j)
           /\ go[s].pc \notin {"wait", "append"}
           /\ go[s].pc \in {"idle", "releasing"} => h.pc \in {"idle", "releasing"}
           /\ ParkInv'
           => IInv'
<1> SUFFICES ASSUME IInv, go' = [go EXCEPT ![s] = h], UNCHANGED <<config, sock, ses, faults, panic>>,
                    server' \in ServerRecs,
                    server'.closed = server.closed, server'.live = server.live, server'.closing = server.closing,
                    \A j \in Sockets : Weight(h, ses[s], j) = Weight(go[s], ses[s], j),
                    go[s].pc \notin {"wait", "append"},
                    go[s].pc \in {"idle", "releasing"} => h.pc \in {"idle", "releasing"},
                    ParkInv'
             PROVE  IInv'
  BY Zenon
<1>1. go' \in [Sessions -> GoRecs] /\ GoInv' /\ go'[s] = h /\ \A t \in Sessions : t # s => go'[t] = go[t]
  BY OneGoes
<1>2. TypeInv'
  BY <1>1 DEF IInv, TypeInv, C
<1>3. SesInv'
  BY <1>1 DEF IInv, SesInv
<1>4. ReferencesAreHeld'
  <2>1. OnlyBy(s, go, go', ses, ses')
    BY <1>1 DEF OnlyBy, Alike, AlikeSes
  <2>2. \A j \in Sockets : sock'[j].references \in Nat
           /\ sock'[j].references + Weight(go[s], ses[s], j) = sock[j].references + Weight(go'[s], ses'[s], j)
    BY <1>1, HeldOnce
  <2> QED BY <2>1, <2>2, RefsKeep
<1>5. Silent /\ Closing
  BY <1>1 DEF Silent, Closing
<1>6. NoLogin
  BY <1>1 DEF NoLogin
<1>7. PanicInv' /\ \A j \in Sockets : sock'[j].references = sock[j].references
  BY DEF IInv, PanicInv
<1> QED BY <1>1, <1>2, <1>3, <1>4, <1>5, <1>6, <1>7, SilentKeeps, ClosingKeeps, NoLoginKeeps DEF IInv

LEMMA AcquireSocketKeeps == ASSUME NEW s \in Sessions PROVE IInv /\ AcquireSocket(s) => IInv'
<1> SUFFICES ASSUME IInv, AcquireSocket(s) PROVE IInv'
  OBVIOUS
<1> DEFINE g == go[s]
           u == server.unused
           n == Len(u)
           r == ses[s]
<1>1. /\ g.pc = "acquire" /\ UNCHANGED <<config, sock, ses, faults, panic>>
      /\ \/ \E p \in {"failed", "connect"} : go' = [go EXCEPT ![s].pc = p] /\ server' = server
         \/ /\ n > 0 /\ server' = [server EXCEPT !.unused = Front(u)]
            /\ go' = [go EXCEPT ![s].pc = "initial", ![s].sock = Last(u), ![s].master = server.master]
  BY DEF AcquireSocket
<1>2. /\ g \in GoRecs /\ GoOk(g) /\ sock \in [Sockets -> SockRecs] /\ ses \in [Sessions -> SesRecs]
      /\ go \in [Sessions -> GoRecs] /\ faults \in 0..C.faults /\ server \in ServerRecs
  BY GoFacts
<1>3. g.sock = None /\ g.todo = <<>> /\ g.back = None
  BY <1>1, <1>2 DEF GoOk, NoSocketYet
<1>4. ASSUME NEW p \in {"failed", "connect"}, go' = [go EXCEPT ![s].pc = p], server' = server
      PROVE  IInv'
  <2> DEFINE h == [g EXCEPT !.pc = p]
  <2>1. go' = [go EXCEPT ![s] = h]
    BY <1>2, <1>4
  <2>2. h \in GoRecs
    BY <1>2 DEF GoRecs, Pcs, NoSocketYet
  <2>3. h.pc = p /\ h.sock = None /\ h.todo = g.todo /\ h.back = g.back /\ h.op = g.op /\ h.arg = g.arg
    BY <1>2, <1>3 DEF GoRecs
  <2> HIDE DEF h
  <2>4. GoOk(h) /\ ~LoginPhase(h)
    BY <1>1, <1>2, <1>3, <2>3 DEF GoOk, LoginPhase, Talking, HasSocket, NoSocketYet
  <2>5. Alike(g, h) /\ PanicInv'
    BY <1>1, <1>3, <2>3 DEF Alike, IInv, PanicInv
  <2>6. sock' \in [Sockets -> SockRecs] /\ (\A j \in Sockets : SameSocket(sock[j], sock'[j]))
        /\ ses' \in [Sessions -> SesRecs] /\ (\A t \in Sessions : AlikeSes(ses[t], ses'[t]) /\ ses'[t].open = ses[t].open)
        /\ faults' \in 0..C.faults
    BY <1>1, <1>2 DEF SameSocket, AlikeSes
  <2> QED BY <1>1, <1>4, <2>1, <2>2, <2>3, <2>4, <2>5, <2>6, QuietMove
<1>5. CASE /\ n > 0 /\ server' = [server EXCEPT !.unused = Front(u)]
           /\ go' = [go EXCEPT ![s].pc = "initial", ![s].sock = Last(u), ![s].master = server.master]
  <2> DEFINE k == Last(u)
             m == server.master
             f == Front(u)
             h == [g EXCEPT !.pc = "initial", !.sock = k, !.master = m]
  <2>1. u \in Seq(Sockets) /\ m \in BOOLEAN
    BY <1>2 DEF ServerRecs
  <2>2. /\ k = u[n] /\ k \in Sockets /\ n \in DOMAIN u /\ f \in Seq(Sockets) /\ n \in Nat /\ DOMAIN u = 1..n
        /\ DOMAIN f = 1..(n - 1) /\ \A i \in 1..(n - 1) : f[i] = u[i]
    <3>1. \A w \in Seq(Sockets) : Len(w) > 0 =>
            /\ Last(w) = w[Len(w)] /\ Last(w) \in Sockets /\ Len(w) \in DOMAIN w /\ Len(w) \in Nat /\ DOMAIN w = 1..Len(w)
            /\ Front(w) \in Seq(Sockets)
            /\ DOMAIN Front(w) = 1..(Len(w) - 1) /\ \A i \in 1..(Len(w) - 1) : Front(w)[i] = w[i]
      BY DEF Front, Last
    <3> QED BY <1>5, <2>1, <3>1
  <2>3. go' = [go EXCEPT ![s] = h]
    BY <1>2, <1>5
  <2> HIDE DEF k, m, f
  <2>4. server' = [server EXCEPT !.unused = f]
    BY <1>5 DEF f
  <2>5. /\ server' \in ServerRecs /\ server'.unused = f
        /\ server'.closed = server.closed /\ server'.live = server.live /\ server'.closing = server.closing
    BY <1>2, <2>2, <2>4 DEF ServerRecs
  <2>6. h \in GoRecs
    BY <1>2, <2>1, <2>2 DEF GoRecs, Pcs, HasSocket, m
  <2>7. h.pc = "initial" /\ h.sock = k /\ h.todo = g.todo /\ h.back = g.back /\ h.op = g.op /\ h.arg = g.arg
    BY <2>6 DEF GoRecs
  <2> HIDE DEF h
  <2>8. GoOk(h) /\ ~LoginPhase(h)
    BY <1>1, <1>2, <1>3, <2>2, <2>7 DEF GoOk, LoginPhase, Talking, HasSocket, NoSocketYet
  <2>9. \A j \in Sockets : Weight(h, r, j) = Weight(g, r, j)
    BY <1>3, <2>7, SocketsAssumption DEF Weight, One
  <2>10. go'[s] = h /\ \A t \in Sessions : t # s => go'[t] = go[t]
    BY <1>2, <2>3
  <2>11. ParkInv'
    <3>1. /\ \A i, j \in DOMAIN u : u[i] = u[j] => i = j
          /\ \A i \in DOMAIN u : /\ sock[u[i]].references = 0
                                 /\ \A t \in Sessions : go[t].sock # u[i] /\ go[t].back # u[i]
      BY DEF IInv, ParkInv
    <3>2. \A i \in DOMAIN f : i \in DOMAIN u /\ f[i] = u[i] /\ f[i] # k
      <4>1. \A i \in 1..(n - 1) : i \in 1..n /\ i # n
        BY <2>2
      <4> HIDE DEF n, u
      <4> QED BY <2>2, <3>1, <4>1
    <3>3. /\ sock[k].references = 0 /\ k # None
          /\ \A t \in Sessions : go[t].sock # k /\ go[t].back # k
      BY <2>2, <3>1, SocketsAssumption
    <3>4. /\ \A i, j \in DOMAIN server'.unused : server'.unused[i] = server'.unused[j] => i = j
      BY <2>5, <3>1, <3>2
    <3>5. \A i \in DOMAIN server'.unused :
            /\ sock'[server'.unused[i]].references = 0
            /\ \A t \in Sessions : go'[t].sock # server'.unused[i] /\ go'[t].back # server'.unused[i]
      BY <1>1, <1>3, <2>5, <2>7, <2>10, <3>1, <3>2, SocketsAssumption
    <3>6. \A t \in Sessions :
            go'[t].pc = "initial" =>
              /\ sock'[go'[t].sock].references = 0
              /\ \A v \in Sessions : (v # t => go'[v].sock # go'[t].sock) /\ go'[v].back # go'[t].sock
      BY <1>1, <1>3, <2>7, <2>10, <3>3 DEF IInv, ParkInv
    <3>7. \A t \in Sessions :
            go'[t].back # None =>
              /\ sock'[go'[t].back].references = 0
              /\ \A v \in Sessions : v # t => go'[v].back # go'[t].back
      BY <1>1, <1>3, <2>7, <2>10 DEF IInv, ParkInv
    <3> QED BY <3>4, <3>5, <3>6, <3>7 DEF ParkInv
  <2> QED BY <1>1, <2>3, <2>5, <2>6, <2>7, <2>8, <2>9, <2>11, PoolMoveKeeps
<1> QED BY <1>1, <1>4, <1>5

LEMMA RecycleSocketKeeps == ASSUME NEW s \in Sessions PROVE IInv /\ RecycleSocket(s) => IInv'
<1> SUFFICES ASSUME IInv, RecycleSocket(s) PROVE IInv'
  OBVIOUS
<1> DEFINE g == go[s]
           u == server.unused
           k == g.back
           r == ses[s]
           e == None
           f == [g EXCEPT !.back = e]
           h == Rest(f)
<1>1. /\ k # None /\ UNCHANGED <<config, sock, ses, faults, panic>>
      /\ server' = IF server.closed THEN server ELSE [server EXCEPT !.unused = Append(u, k)]
  BY DEF RecycleSocket
<1>2. /\ g \in GoRecs /\ GoOk(g) /\ go \in [Sessions -> GoRecs] /\ server \in ServerRecs
  BY GoFacts
<1>0. go' = [go EXCEPT ![s] = h]
  BY <1>2 DEF RecycleSocket
<1>3. /\ g.pc = "releasing" /\ g.sock = None /\ k \in Sockets /\ u \in Seq(Sockets)
  BY <1>1, <1>2 DEF GoOk, NoSocketYet, GoRecs, ServerRecs
<1>4. h \in GoRecs /\ h.sock = None /\ h.todo = g.todo /\ h.back = None /\ h.pc \in {"idle", "releasing"}
      /\ (h.pc = "idle" => g.todo = <<>>) /\ (h.op = "none" \/ (h.op = g.op /\ h.arg = g.arg))
  <2>0. e \in Sockets \cup {None} /\ e = None
    OBVIOUS
  <2> HIDE DEF e
  <2>1. f \in GoRecs /\ f.todo = g.todo /\ f.back = e /\ f.sock = None /\ f.pc = "releasing" /\ f.op = g.op /\ f.arg = g.arg
    <3>1. f \in GoRecs
      BY <1>2, <2>0 DEF GoRecs
    <3> QED BY <1>2, <1>3, <3>1 DEF GoRecs
  <2> HIDE DEF f
  <2>2. h = IF g.todo = <<>> THEN Idle ELSE f
    BY <2>0, <2>1 DEF Rest
  <2>3. Idle \in GoRecs /\ Idle.todo = <<>> /\ Idle.back = None /\ Idle.sock = None /\ Idle.pc = "idle" /\ Idle.op = "none"
    <3>1. <<>> \in Seq(Sockets)
      OBVIOUS
    <3> QED BY <3>1 DEF Idle, GoRecs, Pcs, NoSocketYet
  <2> HIDE DEF h
  <2> QED BY <2>0, <2>1, <2>2, <2>3
<1> HIDE DEF h
<1>5. GoOk(h) /\ ~LoginPhase(h)
  BY <1>2, <1>3, <1>4 DEF GoOk, LoginPhase, Talking, HasSocket, NoSocketYet
<1>6. \A j \in Sockets : Weight(h, r, j) = Weight(g, r, j)
  BY <1>3, <1>4, SocketsAssumption DEF Weight, One
<1>7. go'[s] = h /\ \A t \in Sessions : t # s => go'[t] = go[t]
  BY <1>0, <1>2
<1>8. /\ server' \in ServerRecs
      /\ server'.closed = server.closed /\ server'.live = server.live /\ server'.closing = server.closing
      /\ server'.unused \in Seq(Sockets)
      /\ \A i \in DOMAIN server'.unused :
           \/ i \in DOMAIN u /\ server'.unused[i] = u[i]
           \/ server'.unused[i] = k /\ i = Len(u) + 1
  <2>1. CASE server.closed
    BY <1>1, <1>2, <1>3, <2>1
  <2>2. CASE ~server.closed
    <3> DEFINE w == Append(u, k)
    <3>1. w \in Seq(Sockets) /\ \A i \in DOMAIN w : (i \in DOMAIN u /\ w[i] = u[i]) \/ (w[i] = k /\ i = Len(u) + 1)
      BY <1>3
    <3>2. server' = [server EXCEPT !.unused = w]
      BY <1>1, <2>2
    <3> HIDE DEF w
    <3>3. server' \in ServerRecs
      BY <1>2, <3>1, <3>2 DEF ServerRecs
    <3>4. server'.unused = w /\ server'.closed = server.closed /\ server'.live = server.live /\ server'.closing = server.closing
      BY <1>2, <3>2 DEF ServerRecs
    <3> QED BY <3>1, <3>3, <3>4
  <2> QED BY <2>1, <2>2
<1>9. /\ sock[k].references = 0
      /\ \A t \in Sessions : go[t].sock # k /\ (t # s => go[t].back # k)
      /\ \A i \in DOMAIN u : u[i] # k
  <2>1. ParkInv
    BY DEF IInv
  <2>2. sock[k].references = 0 /\ (\A t \in Sessions : t # s => go[t].back # k) /\ \A i \in DOMAIN u : u[i] # k
    BY <1>1, <2>1 DEF ParkInv
  <2>3. ASSUME NEW t \in Sessions, go[t].sock = k PROVE FALSE
    <3>1. go[t].pc # "initial"
      BY <2>1, <2>3 DEF ParkInv
    <3>2. Weight(go[t], ses[t], k) >= 1 /\ Weight(go[t], ses[t], k) <= sock[k].references /\ Weight(go[t], ses[t], k) \in Nat
      BY <1>3, <2>3, <3>1, WeightFacts, HeldOnce
    <3> QED BY <2>2, <3>2
  <2> QED BY <2>2, <2>3
<1>10. ParkInv'
  <2>1. /\ \A i, j \in DOMAIN u : u[i] = u[j] => i = j
        /\ \A i \in DOMAIN u : /\ sock[u[i]].references = 0 /\ u[i] # None
                               /\ \A t \in Sessions : go[t].sock # u[i] /\ go[t].back # u[i]
    BY <1>3, SocketsAssumption DEF IInv, ParkInv
  <2>2. \A i, j \in DOMAIN server'.unused : server'.unused[i] = server'.unused[j] => i = j
    BY <1>8, <1>9, <2>1
  <2>3. \A i \in DOMAIN server'.unused :
          /\ sock'[server'.unused[i]].references = 0
          /\ \A t \in Sessions : go'[t].sock # server'.unused[i] /\ go'[t].back # server'.unused[i]
    BY <1>1, <1>4, <1>7, <1>8, <1>9, <2>1
  <2>4. \A t \in Sessions :
          go'[t].pc = "initial" =>
            /\ sock'[go'[t].sock].references = 0
            /\ \A v \in Sessions : (v # t => go'[v].sock # go'[t].sock) /\ go'[v].back # go'[t].sock
    <3> SUFFICES ASSUME NEW t \in Sessions, go'[t].pc = "initial"
                 PROVE  /\ sock'[go'[t].sock].references = 0
                        /\ \A v \in Sessions : (v # t => go'[v].sock # go'[t].sock) /\ go'[v].back # go'[t].sock
      OBVIOUS
    <3>1. go'[t] = go[t] /\ t # s
      BY <1>4, <1>7
    <3>2. /\ sock[go[t].sock].references = 0 /\ go[t].sock \in Sockets
          /\ \A v \in Sessions : (v # t => go[v].sock # go[t].sock) /\ go[v].back # go[t].sock
      BY <3>1 DEF IInv, ParkInv, GoInv, GoOk, HasSocket
    <3>3. go[t].sock # None
      BY <3>2, SocketsAssumption
    <3> QED BY <1>1, <1>4, <1>7, <3>1, <3>2, <3>3
  <2>5. \A t \in Sessions :
          go'[t].back # None =>
            /\ sock'[go'[t].back].references = 0
            /\ \A v \in Sessions : v # t => go'[v].back # go'[t].back
    BY <1>1, <1>4, <1>7 DEF IInv, ParkInv
  <2> QED BY <2>2, <2>3, <2>4, <2>5 DEF ParkInv
<1> HIDE DEF r
<1>11. h.pc \notin {"wait", "append"} /\ g.pc \notin {"wait", "append"}
  BY <1>3, <1>4
<1> QED BY <1>0, <1>1, <1>4, <1>5, <1>6, <1>8, <1>10, <1>11, PoolMoveKeeps DEF r

(* The goroutine of s gets the socket k, which nobody had, as x.           *)
Grabs(s, k, x, h) ==
    /\ GoOk(h) /\ x.references = 1 /\ h.sock = k /\ h.todo = <<>> /\ h.back = None /\ h.pc \in {"append", "login"}
    /\ go' = [go EXCEPT ![s] = h] /\ sock' = [sock EXCEPT ![k] = x]
    /\ UNCHANGED <<config, server, ses, faults>>
    /\ go[s].pc \in {"initial", "connect"} /\ go[s].sock \in {k, None}
    /\ (go[s].pc = "connect" => go[s].sock = None)
    /\ sock[k].references = 0
    /\ \A i \in DOMAIN server.unused : server.unused[i] # k
    /\ \A t \in Sessions : (t # s => go[t].sock # k) /\ go[t].back # k
Grabbed(s, k, x, h) ==
    /\ TypeInv' /\ GoInv' /\ SesInv' /\ ReferencesAreHeld' /\ ParkInv' /\ LoginInv'
    /\ sock'[k] = x /\ (\A j \in Sockets : j # k => sock'[j] = sock[j])
    /\ go'[s] = h /\ (\A t \in Sessions : t # s => go'[t] = go[t])

(* A goroutine takes a socket that nobody references; what it then does to *)
(* the connection is left open.                                            *)
LEMMA GrabKeeps ==
    ASSUME NEW s \in Sessions, NEW k \in Sockets, NEW x \in SockRecs, NEW h \in GoRecs
    PROVE  IInv /\ Grabs(s, k, x, h) => Grabbed(s, k, x, h)
<1> SUFFICES ASSUME IInv, Grabs(s, k, x, h) PROVE Grabbed(s, k, x, h)
  OBVIOUS
<1>g. /\ GoOk(h) /\ x.references = 1 /\ h.sock = k /\ h.todo = <<>> /\ h.back = None /\ h.pc \in {"append", "login"}
      /\ go' = [go EXCEPT ![s] = h] /\ sock' = [sock EXCEPT ![k] = x]
      /\ UNCHANGED <<config, server, ses, faults>>
      /\ go[s].pc \in {"initial", "connect"} /\ go[s].sock \in {k, None}
      /\ (go[s].pc = "connect" => go[s].sock = None)
      /\ sock[k].references = 0
      /\ \A i \in DOMAIN server.unused : server.unused[i] # k
      /\ \A t \in Sessions : (t # s => go[t].sock # k) /\ go[t].back # k
  BY DEF Grabs
<1> SUFFICES /\ TypeInv' /\ GoInv' /\ SesInv' /\ ReferencesAreHeld' /\ ParkInv' /\ LoginInv'
             /\ sock'[k] = x /\ (\A j \in Sockets : j # k => sock'[j] = sock[j])
             /\ go'[s] = h /\ (\A t \in Sessions : t # s => go'[t] = go[t])
  BY DEF Grabbed
<1> USE <1>g
<1>0. /\ sock \in [Sockets -> SockRecs] /\ GoInv /\ SesInv /\ ParkInv /\ LoginInv
      /\ server.unused \in Seq(Sockets) /\ go[s] \in GoRecs /\ GoOk(go[s]) /\ go \in [Sessions -> GoRecs]
  BY DEF IInv, TypeInv, ServerRecs, GoInv
<1>1. go' \in [Sessions -> GoRecs] /\ GoInv' /\ go'[s] = h /\ \A t \in Sessions : t # s => go'[t] = go[t]
  BY OneGoes
<1>2. sock' \in [Sockets -> SockRecs] /\ sock'[k] = x /\ \A j \in Sockets : j # k => sock'[j] = sock[j]
  BY <1>0
<1>3. TypeInv'
  BY <1>1, <1>2 DEF IInv, TypeInv, C
<1>4. SesInv'
  BY <1>0, <1>1 DEF SesInv
<1>5. go[s].todo = <<>> /\ go[s].back = None
  BY <1>0 DEF GoOk
<1>6. k # None
  BY SocketsAssumption
<1>7. ReferencesAreHeld'
  <2>1. OnlyBy(s, go, go', ses, ses')
    BY <1>1 DEF OnlyBy, Alike, AlikeSes
  <2>2. ASSUME NEW j \in Sockets
        PROVE  sock'[j].references \in Nat
               /\ sock'[j].references + Weight(go[s], ses[s], j) = sock[j].references + Weight(h, ses[s], j)
    <3>1. Weight(h, ses[s], j) = Weight(go[s], ses[s], j) + One(k = j)
      <4>1. ~(go[s].sock = j /\ go[s].pc # "initial")
        BY SocketsAssumption
      <4>2. (h.sock = j /\ h.pc # "initial") <=> k = j
        OBVIOUS
      <4>3. h.todo = go[s].todo
        BY <1>5
      <4>4. One(h.sock = j /\ h.pc # "initial") = One(k = j) /\ One(go[s].sock = j /\ go[s].pc # "initial") = 0
        BY <4>1, <4>2 DEF One
      <4>5. \A b : One(b) \in {0, 1}
        BY DEF One
      <4> QED BY <4>3, <4>4, <4>5 DEF Weight
    <3>2. Weight(go[s], ses[s], j) \in Nat /\ sock[j].references \in Nat
      BY HeldOnce
    <3>3. CASE j = k
      BY <1>2, <3>1, <3>2, <3>3 DEF One
    <3>4. CASE j # k
      BY <1>2, <3>1, <3>2, <3>4 DEF One
    <3> QED BY <3>3, <3>4
  <2> QED BY <1>1, <2>1, <2>2, RefsKeep
<1>8. /\ \A t \in Sessions : go[t].back \in Sockets \cup {None}
      /\ \A t \in Sessions : go[t].pc = "initial" => go[t].sock \in Sockets
      /\ \A i \in DOMAIN server.unused : server.unused[i] \in Sockets
  BY <1>0 DEF GoInv, GoOk, HasSocket, GoRecs
<1>9. ParkInv'
  <2>1. \A i, j \in DOMAIN server'.unused : server'.unused[i] = server'.unused[j] => i = j
    BY <1>0 DEF ParkInv
  <2>2. \A i \in DOMAIN server'.unused :
          /\ sock'[server'.unused[i]].references = 0
          /\ \A t \in Sessions : go'[t].sock # server'.unused[i] /\ go'[t].back # server'.unused[i]
    BY <1>0, <1>1, <1>2, <1>8, SocketsAssumption DEF ParkInv
  <2>3. \A t \in Sessions :
          go'[t].pc = "initial" =>
            /\ sock'[go'[t].sock].references = 0
            /\ \A v \in Sessions : (v # t => go'[v].sock # go'[t].sock) /\ go'[v].back # go'[t].sock
    <3> SUFFICES ASSUME NEW t \in Sessions, go'[t].pc = "initial"
                 PROVE  /\ sock'[go'[t].sock].references = 0
                        /\ \A v \in Sessions : (v # t => go'[v].sock # go'[t].sock) /\ go'[v].back # go'[t].sock
      OBVIOUS
    <3>1. go'[t] = go[t] /\ t # s
      BY <1>1
    <3>2. /\ sock[go[t].sock].references = 0 /\ go[t].sock \in Sockets /\ go[t].sock # k
          /\ \A v \in Sessions : (v # t => go[v].sock # go[t].sock) /\ go[v].back # go[t].sock
      BY <1>0, <1>8, <3>1 DEF ParkInv
    <3>3. go[t].sock # None
      BY <3>2, SocketsAssumption
    <3> QED BY <1>1, <1>2, <3>1, <3>2, <3>3
  <2>4. \A t \in Sessions :
          go'[t].back # None =>
            /\ sock'[go'[t].back].references = 0
            /\ \A v \in Sessions : v # t => go'[v].back # go'[t].back
    BY <1>0, <1>1, <1>2, <1>5, <1>8 DEF ParkInv
  <2> QED BY <2>1, <2>2, <2>3, <2>4 DEF ParkInv
<1>10. LoginInv'
  <2> SUFFICES ASSUME NEW t \in Sessions, LoginPhase(go'[t]), t # s
               PROVE  sock'[go'[t].sock].references = 1
    BY <1>1, <1>2 DEF LoginInv
  <2>1. go'[t] = go[t]
    BY <1>1
  <2>2. go[t].sock \in Sockets /\ sock[go[t].sock].references = 1
    BY <1>0, <2>1 DEF LoginInv, GoInv, GoOk, LoginPhase, Talking, HasSocket
  <2> QED BY <1>2, <2>1, <2>2
<1> QED BY <1>1, <1>2, <1>3, <1>4, <1>7, <1>9, <1>10

LEMMA InitialAcquireKeeps == ASSUME NEW s \in Sessions PROVE IInv /\ InitialAcquire(s) => IInv'
<1> SUFFICES ASSUME IInv, InitialAcquire(s) PROVE IInv'
  OBVIOUS
<1> DEFINE g == go[s]
           k == g.sock
           r == ses[s]
<1>1. g.pc = "initial" /\ UNCHANGED <<config, server, ses, faults>>
  BY DEF InitialAcquire
<1>2. /\ g \in GoRecs /\ GoOk(g) /\ go \in [Sessions -> GoRecs] /\ sock \in [Sockets -> SockRecs] /\ ses[s] \in SesRecs
      /\ server \in ServerRecs
  BY GoFacts
<1>3. k \in Sockets /\ g.todo = <<>> /\ g.back = None /\ g.master \in BOOLEAN
  BY <1>1, <1>2 DEF GoOk, HasSocket, GoRecs
<1>4. /\ sock[k].references = 0
      /\ \A t \in Sessions : (t # s => go[t].sock # k) /\ go[t].back # k
      /\ \A i \in DOMAIN server.unused : server.unused[i] # k
  BY <1>1 DEF IInv, ParkInv
<1>5. CASE sock[k].dead
  <2> DEFINE e == None
             h == [g EXCEPT !.pc = "acquire", !.sock = e]
  <2>1. go' = [go EXCEPT ![s] = h] /\ UNCHANGED <<sock, panic>>
    <3>1. go' = [go EXCEPT ![s].pc = "acquire", ![s].sock = None] /\ UNCHANGED <<sock, panic>>
      BY <1>4, <1>5 DEF InitialAcquire
    <3> QED BY <1>2, <3>1
  <2>0. e \in Sockets \cup {None} /\ e = None
    OBVIOUS
  <2> HIDE DEF e
  <2>2. h \in GoRecs
    BY <1>2, <2>0 DEF GoRecs, Pcs, NoSocketYet
  <2>3. h.pc = "acquire" /\ h.sock = None /\ h.todo = g.todo /\ h.back = g.back /\ h.op = g.op /\ h.arg = g.arg
    BY <2>0, <2>2 DEF GoRecs
  <2> HIDE DEF h
  <2>4. GoOk(h) /\ ~LoginPhase(h)
    BY <1>1, <1>2, <1>3, <2>3 DEF GoOk, LoginPhase, Talking, HasSocket, NoSocketYet
  <2>5. \A j \in Sockets : Weight(h, r, j) = Weight(g, r, j)
    BY <1>1, <2>3, SocketsAssumption DEF Weight, One
  <2>6. go'[s] = h /\ \A t \in Sessions : t # s => go'[t] = go[t]
    BY <1>2, <2>1
  <2>7. ParkInv'
    <3>1. ParkInv /\ (\A i \in DOMAIN server.unused : server.unused[i] # None)
          /\ \A t \in Sessions : go[t].pc = "initial" => go[t].sock # None
      BY <1>2, SocketsAssumption DEF IInv, ServerRecs, GoInv, GoOk, HasSocket
    <3> QED BY <1>1, <2>1, <2>3, <2>6, <3>1 DEF ParkInv
  <2> HIDE DEF r
  <2> QED BY <1>1, <1>2, <2>1, <2>2, <2>3, <2>4, <2>5, <2>7, PoolMoveKeeps DEF r
<1>6. CASE ~sock[k].dead
  <2> DEFINE y == Acquire(sock[k])
             m == g.master
             x == [y EXCEPT !.master = m]
             p == r.creds
             h == [g EXCEPT !.pc = "login", !.pend = p]
  <2>1. go' = [go EXCEPT ![s] = h] /\ sock' = [sock EXCEPT ![k] = x] /\ UNCHANGED panic
    <3>1. /\ go' = [go EXCEPT ![s].pc = "login", ![s].pend = ses[s].creds] /\ UNCHANGED panic
          /\ sock' = [sock EXCEPT ![k] = [Acquire(@) EXCEPT !.master = go[s].master]]
      BY <1>4, <1>6 DEF InitialAcquire
    <3> QED BY <1>2, <1>3, <3>1
  <2>2. p \in Seq(DOMAIN Creds) /\ m \in BOOLEAN
    BY <1>2, <1>3 DEF SesRecs
  <2>3. /\ y \in SockRecs /\ y.references = 1
        /\ y.dead = sock[k].dead /\ y.abending = sock[k].abending
        /\ y.wire = sock[k].wire /\ y.replyFuncs = sock[k].replyFuncs
    BY <1>2, <1>3, <1>4, AcquireFacts
  <2> HIDE DEF p, m, y
  <2>4. /\ x \in SockRecs /\ x.references = 1
        /\ x.dead = sock[k].dead /\ x.abending = sock[k].abending
        /\ x.wire = sock[k].wire /\ x.replyFuncs = sock[k].replyFuncs
    <3>1. x \in SockRecs
      BY <2>2, <2>3 DEF SockRecs
    <3> QED BY <2>3, <3>1 DEF SockRecs
  <2>5. h \in GoRecs
    BY <1>2, <2>2 DEF GoRecs, Pcs, HasSocket
  <2>6. h.pc = "login" /\ h.sock = k /\ h.todo = <<>> /\ h.back = None /\ h.op = g.op /\ h.arg = g.arg
    BY <1>2, <1>3, <2>5 DEF GoRecs
  <2> HIDE DEF x, h
  <2>7. GoOk(h)
    BY <1>1, <1>2, <1>3, <2>6 DEF GoOk, LoginPhase, Talking, HasSocket, NoSocketYet
  <2>8. /\ TypeInv' /\ GoInv' /\ SesInv' /\ ReferencesAreHeld' /\ ParkInv' /\ LoginInv'
        /\ sock'[k] = x /\ (\A j \in Sockets : j # k => sock'[j] = sock[j])
        /\ go'[s] = h /\ (\A t \in Sessions : t # s => go'[t] = go[t])
    <3>1. Grabs(s, k, x, h)
      BY <1>1, <1>3, <1>4, <2>1, <2>4, <2>6, <2>7 DEF Grabs
    <3>2. Grabbed(s, k, x, h)
      BY <1>3, <2>4, <2>5, <3>1, GrabKeeps
    <3> QED BY <3>2 DEF Grabbed
  <2>9. Silent /\ Closing /\ PanicInv'
    BY <1>1, <2>1, <2>4, <2>6, <2>8 DEF Silent, Closing, IInv, PanicInv
  <2> QED BY <2>8, <2>9, SilentKeeps, ClosingKeeps DEF IInv
<1> QED BY <1>5, <1>6

LEMMA ConnectKeeps == ASSUME NEW s \in Sessions PROVE IInv /\ Connect(s) => IInv'
<1> SUFFICES ASSUME IInv, Connect(s) PROVE IInv'
  OBVIOUS
<1> DEFINE g == go[s]
           m == server.master
           k == CHOOSE k \in Free : TRUE
           x == [NoSocket EXCEPT !.dead = FALSE, !.attached = TRUE, !.references = 1, !.master = m]
           h == [g EXCEPT !.pc = "append", !.sock = k]
           f == [g EXCEPT !.pc = "failed"]
<1>1. /\ g.pc = "connect" /\ UNCHANGED <<config, server, ses, panic>>
      /\ \/ Free # {} /\ sock' = [sock EXCEPT ![k] = x] /\ go' = [go EXCEPT ![s].pc = "append", ![s].sock = k]
            /\ faults' = faults
         \/ faults < C.faults /\ faults' = faults + 1 /\ go' = [go EXCEPT ![s].pc = "failed"] /\ sock' = sock
  BY DEF Connect
<1>2. /\ g \in GoRecs /\ GoOk(g) /\ go \in [Sessions -> GoRecs] /\ sock \in [Sockets -> SockRecs]
      /\ ses \in [Sessions -> SesRecs] /\ server \in ServerRecs /\ faults \in 0..C.faults
  BY GoFacts
<1>3. g.sock = None /\ g.todo = <<>> /\ g.back = None
  BY <1>1, <1>2 DEF GoOk, NoSocketYet
<1>4. CASE faults < C.faults /\ faults' = faults + 1 /\ go' = [go EXCEPT ![s].pc = "failed"] /\ sock' = sock
  <2>1. go' = [go EXCEPT ![s] = f]
    BY <1>2, <1>4
  <2>2. f \in GoRecs
    BY <1>2 DEF GoRecs, Pcs
  <2>3. f.pc = "failed" /\ f.sock = None /\ f.todo = g.todo /\ f.back = g.back /\ f.op = g.op /\ f.arg = g.arg
    BY <1>2, <1>3 DEF GoRecs
  <2> HIDE DEF f
  <2>4. GoOk(f) /\ ~LoginPhase(f)
    BY <1>1, <1>2, <1>3, <2>3 DEF GoOk, LoginPhase, Talking, HasSocket, NoSocketYet
  <2>5. Alike(g, f) /\ PanicInv'
    BY <1>1, <1>3, <2>3 DEF Alike, IInv, PanicInv
  <2>6. sock' \in [Sockets -> SockRecs] /\ (\A j \in Sockets : SameSocket(sock[j], sock'[j]))
        /\ ses' \in [Sessions -> SesRecs] /\ (\A t \in Sessions : AlikeSes(ses[t], ses'[t]) /\ ses'[t].open = ses[t].open)
    BY <1>1, <1>2, <1>4 DEF SameSocket, AlikeSes
  <2>7. faults' \in 0..C.faults
    <3>1. C.faults \in Nat
      BY ScenariosAssumption DEF IInv, TypeInv, C
    <3> QED BY <1>2, <1>4, <3>1
  <2> QED BY <1>1, <2>1, <2>2, <2>3, <2>4, <2>5, <2>6, <2>7, QuietMove
<1>5. CASE Free # {} /\ sock' = [sock EXCEPT ![k] = x] /\ go' = [go EXCEPT ![s].pc = "append", ![s].sock = k]
           /\ faults' = faults
  <2>1. k \in Free
    BY <1>5
  <2> HIDE DEF k
  <2>2. /\ k \in Sockets /\ sock[k].references = 0 /\ sock[k].dead
        /\ \A t \in Sessions : go[t].sock # k /\ go[t].back # k
        /\ \A i \in DOMAIN server.unused : server.unused[i] # k
    BY <2>1 DEF Free, Range
  <2>3. go' = [go EXCEPT ![s] = h] /\ sock' = [sock EXCEPT ![k] = x]
    BY <1>2, <1>5
  <2>4. m \in BOOLEAN
    BY <1>2 DEF ServerRecs
  <2> HIDE DEF m
  <2>5. /\ x \in SockRecs /\ x.references = 1 /\ ~x.dead /\ ~x.abending /\ x.wire = <<>> /\ x.replyFuncs = {}
    <3>1. x \in SockRecs
      BY <2>4, NoSocketType DEF SockRecs
    <3> QED BY <3>1 DEF NoSocket, SockRecs
  <2>6. h \in GoRecs
    BY <1>2, <2>2 DEF GoRecs, Pcs, HasSocket
  <2>7. h.pc = "append" /\ h.sock = k /\ h.todo = <<>> /\ h.back = None /\ h.op = g.op /\ h.arg = g.arg
    BY <1>2, <1>3, <2>6 DEF GoRecs
  <2> HIDE DEF x, h
  <2>8. GoOk(h)
    BY <1>1, <1>2, <1>3, <2>2, <2>7 DEF GoOk, LoginPhase, Talking, HasSocket, NoSocketYet
  <2>9. /\ TypeInv' /\ GoInv' /\ SesInv' /\ ReferencesAreHeld' /\ ParkInv' /\ LoginInv'
        /\ sock'[k] = x /\ (\A j \in Sockets : j # k => sock'[j] = sock[j])
        /\ go'[s] = h /\ (\A t \in Sessions : t # s => go'[t] = go[t])
    <3>1. Grabs(s, k, x, h)
      BY <1>1, <1>3, <1>5, <2>2, <2>3, <2>5, <2>7, <2>8 DEF Grabs
    <3>2. Grabbed(s, k, x, h)
      BY <2>2, <2>5, <2>6, <3>1, GrabKeeps
    <3> QED BY <3>2 DEF Grabbed
  <2>10. WireInv'
    <3> SUFFICES ASSUME NEW j \in Sockets
                 PROVE  /\ sock'[j].dead => sock'[j].wire = <<>> /\ sock'[j].replyFuncs = {}
                        /\ sock'[j].abending => sock'[j].dead
                        /\ \A t \in sock'[j].replyFuncs : go'[t].pc = "wait" /\ go'[t].sock = j
                        /\ \A i \in DOMAIN sock'[j].wire :
                             LET r == sock'[j].wire[i] IN
                               /\ r.kind \in {"query", "login"} => r.by \in sock'[j].replyFuncs /\ r.kind = go'[r.by].req
                               /\ r.kind = "login" => r.cred \in DOMAIN Creds
                        /\ \A i, i2 \in DOMAIN sock'[j].wire : SameWaiter(sock'[j].wire[i], sock'[j].wire[i2]) => i = i2
      BY DEF WireInv
    <3>1. CASE j = k
      <4>1. DOMAIN sock'[j].wire = {} /\ sock'[j].replyFuncs = {} /\ ~sock'[j].dead /\ ~sock'[j].abending
        BY <2>5, <2>9, <3>1
      <4> QED BY <4>1
    <3>2. CASE j # k
      <4>1. sock'[j] = sock[j] /\ WireInv
        BY <2>9, <3>2 DEF IInv
      <4>2. \A t \in sock[j].replyFuncs : t \in Sessions /\ go[t].pc = "wait" /\ go[t].sock = j
        BY <1>2, <4>1 DEF WireInv, SockRecs
      <4>3. \A t \in sock[j].replyFuncs : go'[t] = go[t]
        BY <1>1, <2>9, <4>2
      <4> QED BY <4>1, <4>2, <4>3 DEF WireInv
    <3> QED BY <3>1, <3>2
  <2>11. NoForgottenWaiter'
    <3> SUFFICES ASSUME NEW t \in Sessions, go'[t].pc = "wait", ~go'[t].cut
                 PROVE  ~sock'[go'[t].sock].dead /\ t \in sock'[go'[t].sock].replyFuncs
      BY DEF NoForgottenWaiter
    <3>1. go'[t] = go[t]
      BY <2>7, <2>9
    <3>2. go[t].sock \in Sockets /\ go[t].sock # k
      BY <2>2, <3>1 DEF IInv, GoInv, GoOk, HasSocket
    <3>3. ~sock[go[t].sock].dead /\ t \in sock[go[t].sock].replyFuncs
      BY <3>1 DEF IInv, NoForgottenWaiter
    <3> QED BY <2>9, <3>1, <3>2, <3>3
  <2>12. LiveInv'
    <3> SUFFICES ASSUME NEW j \in Sockets
                 PROVE  \/ sock'[j].dead
                        \/ j \in IF server.closed THEN server.closing ELSE server.live
                        \/ \E t \in Sessions : go'[t].pc = "append" /\ go'[t].sock = j
      BY <1>1 DEF LiveInv
    <3>1. CASE j = k
      BY <2>7, <2>9, <3>1
    <3>2. CASE j # k
      <4>1. \A t \in Sessions : go[t].pc = "append" => go'[t] = go[t]
        BY <1>1, <2>9
      <4> QED BY <2>9, <3>2, <4>1 DEF IInv, LiveInv
    <3> QED BY <3>1, <3>2
  <2>13. PanicInv'
    BY <1>1 DEF IInv, PanicInv
  <2> QED BY <2>9, <2>10, <2>11, <2>12, <2>13 DEF IInv
<1> QED BY <1>1, <1>4, <1>5

(* Whoever has just connected a socket is the only one to know of it.      *)
LEMMA OwnSocket ==
    ASSUME NEW s \in Sessions
    PROVE  IInv /\ LoginPhase(go[s]) =>
             /\ go[s].sock \in Sockets /\ sock[go[s].sock].references = 1
             /\ \A t \in Sessions : (t # s => go[t].sock # go[s].sock) /\ go[t].back # go[s].sock
             /\ \A i \in DOMAIN server.unused : server.unused[i] # go[s].sock
<1> DEFINE k == go[s].sock
<1> SUFFICES ASSUME IInv, LoginPhase(go[s])
             PROVE  /\ k \in Sockets /\ sock[k].references = 1
                    /\ \A t \in Sessions : (t # s => go[t].sock # k) /\ go[t].back # k
                    /\ \A i \in DOMAIN server.unused : server.unused[i] # k
  OBVIOUS
<1>1. k \in Sockets /\ sock[k].references = 1 /\ k # None /\ go[s].pc # "initial"
  <2>1. k \in Sockets
    BY DEF IInv, GoInv, GoOk, HasSocket, LoginPhase, Talking
  <2> QED BY <2>1, SocketsAssumption DEF IInv, LoginInv, LoginPhase, Talking
<1>2. ASSUME NEW t \in Sessions PROVE (t # s => go[t].sock # k) /\ go[t].back # k
  <2>1. go[t].back # k
    BY <1>1 DEF IInv, ParkInv
  <2>2. ASSUME t # s, go[t].sock = k PROVE FALSE
    <3>1. go[t].pc # "initial"
      BY <1>1, <2>2 DEF IInv, ParkInv
    <3>2. /\ Weight(go[s], ses[s], k) >= 1 /\ Weight(go[t], ses[t], k) >= 1
          /\ Weight(go[s], ses[s], k) \in Nat /\ Weight(go[t], ses[t], k) \in Nat
      BY <1>1, <2>2, <3>1, WeightFacts
    <3>3. Weight(go[s], ses[s], k) + Weight(go[t], ses[t], k) <= sock[k].references
      BY <1>1, <2>2, HeldTwice
    <3> QED BY <1>1, <3>2, <3>3
  <2> QED BY <2>1, <2>2
<1>3. \A i \in DOMAIN server.unused : server.unused[i] # k
  BY <1>1 DEF IInv, ParkInv
<1> QED BY <1>1, <1>2, <1>3

(* The server was closed while the goroutine connected: the socket, which  *)
(* nobody else knows of, is closed.                                        *)
Drops(s, k, x, h) ==
    /\ LoginPhase(go[s]) /\ go[s].sock = k
    /\ GoOk(h) /\ h.pc = "failed" /\ h.sock = None /\ h.todo = go[s].todo /\ h.back = go[s].back
    /\ x.references = 0 /\ x.dead /\ x.wire = <<>> /\ x.replyFuncs = {}
    /\ go' = [go EXCEPT ![s] = h] /\ sock' = [sock EXCEPT ![k] = x]
    /\ UNCHANGED <<config, server, ses, faults, panic>>

LEMMA DropKeeps ==
    ASSUME NEW s \in Sessions, NEW k \in Sockets, NEW x \in SockRecs, NEW h \in GoRecs
    PROVE  IInv /\ go[s].pc = "append" /\ Drops(s, k, x, h) => IInv'
<1> SUFFICES ASSUME IInv, go[s].pc = "append", Drops(s, k, x, h) PROVE IInv'
  OBVIOUS
<1>1. /\ GoOk(h) /\ h.pc = "failed" /\ h.sock = None /\ h.todo = <<>> /\ h.back = None
      /\ go[s].sock = k /\ go[s].todo = <<>> /\ go[s].back = None
      /\ x.references = 0 /\ x.dead /\ x.wire = <<>> /\ x.replyFuncs = {}
      /\ UNCHANGED <<config, server, ses, faults, panic>>
  BY DEF Drops, IInv, GoInv, GoOk
<1>2. go' \in [Sessions -> GoRecs] /\ GoInv' /\ go'[s] = h /\ \A t \in Sessions : t # s => go'[t] = go[t]
  BY OneGoes DEF Drops
<1>3. sock \in [Sockets -> SockRecs] /\ go \in [Sessions -> GoRecs]
  BY DEF IInv, TypeInv
<1>4. sock' \in [Sockets -> SockRecs] /\ sock'[k] = x /\ \A j \in Sockets : j # k => sock'[j] = sock[j]
  BY <1>3 DEF Drops
<1>5. /\ sock[k].references = 1
      /\ \A t \in Sessions : (t # s => go[t].sock # k) /\ go[t].back # k
      /\ \A i \in DOMAIN server.unused : server.unused[i] # k
  BY OwnSocket DEF Drops
<1>6. TypeInv'
  BY <1>1, <1>2, <1>4 DEF IInv, TypeInv, C
<1>7. SesInv'
  BY <1>1, <1>2 DEF IInv, SesInv
<1>8. ReferencesAreHeld'
  <2>1. OnlyBy(s, go, go', ses, ses')
    BY <1>1, <1>2 DEF OnlyBy, Alike, AlikeSes
  <2>2. ASSUME NEW j \in Sockets
        PROVE  sock'[j].references \in Nat
               /\ sock'[j].references + Weight(go[s], ses[s], j) = sock[j].references + Weight(h, ses[s], j)
    <3>1. Weight(go[s], ses[s], j) = Weight(h, ses[s], j) + One(k = j)
      <4>1. One(h.sock = j /\ h.pc # "initial") = 0 /\ One(go[s].sock = j /\ go[s].pc # "initial") = One(k = j)
        BY <1>1, SocketsAssumption DEF One
      <4>2. h.todo = go[s].todo
        BY <1>1
      <4>3. \A b : One(b) \in {0, 1}
        BY DEF One
      <4> QED BY <4>1, <4>2, <4>3 DEF Weight
    <3>2. Weight(h, ses[s], j) \in Nat /\ sock[j].references \in Nat
      BY WeightFacts, HeldOnce
    <3>3. CASE j = k
      BY <1>1, <1>4, <1>5, <3>1, <3>2, <3>3 DEF One
    <3>4. CASE j # k
      BY <1>4, <3>1, <3>2, <3>4 DEF One
    <3> QED BY <3>3, <3>4
  <2> QED BY <1>1, <1>2, <2>1, <2>2, RefsKeep
<1>9. ParkInv'
  <2>0. ParkInv /\ GoInv /\ k # None
    BY SocketsAssumption DEF IInv
  <2>1. \A i, j \in DOMAIN server'.unused : server'.unused[i] = server'.unused[j] => i = j
    BY <1>1, <2>0 DEF ParkInv
  <2>2. \A i \in DOMAIN server'.unused :
          /\ sock'[server'.unused[i]].references = 0
          /\ \A t \in Sessions : go'[t].sock # server'.unused[i] /\ go'[t].back # server'.unused[i]
    <3>1. \A i \in DOMAIN server.unused : server.unused[i] \in Sockets /\ server.unused[i] # None
      BY SocketsAssumption DEF IInv, TypeInv, ServerRecs
    <3> QED BY <1>1, <1>2, <1>4, <1>5, <2>0, <3>1 DEF ParkInv
  <2>3. \A t \in Sessions :
          go'[t].pc = "initial" =>
            /\ sock'[go'[t].sock].references = 0
            /\ \A v \in Sessions : (v # t => go'[v].sock # go'[t].sock) /\ go'[v].back # go'[t].sock
    <3> SUFFICES ASSUME NEW t \in Sessions, go'[t].pc = "initial"
                 PROVE  /\ sock'[go'[t].sock].references = 0
                        /\ \A v \in Sessions : (v # t => go'[v].sock # go'[t].sock) /\ go'[v].back # go'[t].sock
      OBVIOUS
    <3>1. go'[t] = go[t] /\ t # s
      BY <1>1, <1>2
    <3>2. /\ sock[go[t].sock].references = 0 /\ go[t].sock \in Sockets /\ go[t].sock # k
          /\ \A v \in Sessions : (v # t => go[v].sock # go[t].sock) /\ go[v].back # go[t].sock
      BY <1>5, <2>0, <3>1 DEF ParkInv, GoInv, GoOk, HasSocket
    <3>3. go[t].sock # None
      BY <3>2, SocketsAssumption
    <3> QED BY <1>1, <1>2, <1>4, <3>1, <3>2, <3>3
  <2>4. \A t \in Sessions :
          go'[t].back # None =>
            /\ sock'[go'[t].back].references = 0
            /\ \A v \in Sessions : v # t => go'[v].back # go'[t].back
    <3>1. \A t \in Sessions : go'[t].back = go[t].back /\ go[t].back \in Sockets \cup {None} /\ go[t].back # k
      <4>1. \A t \in Sessions : go[t].back \in Sockets \cup {None}
        BY <1>3 DEF GoRecs
      <4>2. \A t \in Sessions : go'[t].back = go[t].back
        BY <1>1, <1>2
      <4> QED BY <1>5, <4>1, <4>2
    <3> QED BY <1>4, <2>0, <3>1 DEF ParkInv
  <2> QED BY <2>1, <2>2, <2>3, <2>4 DEF ParkInv
<1>10. LoginInv'
  <2> SUFFICES ASSUME NEW t \in Sessions, LoginPhase(go'[t]) PROVE sock'[go'[t].sock].references = 1
    BY DEF LoginInv
  <2>1. t # s /\ go'[t] = go[t]
    BY <1>1, <1>2 DEF LoginPhase, Talking
  <2>2. go[t].sock \in Sockets /\ sock[go[t].sock].references = 1
    BY <2>1 DEF IInv, LoginInv, GoInv, GoOk, LoginPhase, Talking, HasSocket
  <2> QED BY <1>4, <1>5, <2>1, <2>2
<1>11. WireInv'
  <2> SUFFICES ASSUME NEW j \in Sockets
               PROVE  /\ sock'[j].dead => sock'[j].wire = <<>> /\ sock'[j].replyFuncs = {}
                      /\ sock'[j].abending => sock'[j].dead
                      /\ \A t \in sock'[j].replyFuncs : go'[t].pc = "wait" /\ go'[t].sock = j
                      /\ \A i \in DOMAIN sock'[j].wire :
                           LET r == sock'[j].wire[i] IN
                             /\ r.kind \in {"query", "login"} => r.by \in sock'[j].replyFuncs /\ r.kind = go'[r.by].req
                             /\ r.kind = "login" => r.cred \in DOMAIN Creds
                      /\ \A i, i2 \in DOMAIN sock'[j].wire : SameWaiter(sock'[j].wire[i], sock'[j].wire[i2]) => i = i2
    BY DEF WireInv
  <2>1. CASE j = k
    <3>1. DOMAIN sock'[j].wire = {} /\ sock'[j].replyFuncs = {} /\ sock'[j].wire = <<>> /\ sock'[j].dead
      BY <1>1, <1>4, <2>1
    <3> QED BY <3>1
  <2>2. CASE j # k
    <3>1. sock'[j] = sock[j] /\ WireInv
      BY <1>4, <2>2 DEF IInv
    <3>2. \A t \in sock[j].replyFuncs : t \in Sessions /\ go[t].pc = "wait" /\ go[t].sock = j
      BY <1>3, <3>1 DEF WireInv, SockRecs
    <3>3. \A t \in sock[j].replyFuncs : go'[t] = go[t]
      BY <1>2, <3>2
    <3> QED BY <3>1, <3>2, <3>3 DEF WireInv
  <2> QED BY <2>1, <2>2
<1>12. NoForgottenWaiter'
  <2> SUFFICES ASSUME NEW t \in Sessions, go'[t].pc = "wait", ~go'[t].cut
               PROVE  ~sock'[go'[t].sock].dead /\ t \in sock'[go'[t].sock].replyFuncs
    BY DEF NoForgottenWaiter
  <2>1. t # s /\ go'[t] = go[t]
    BY <1>1, <1>2
  <2>2. go[t].sock \in Sockets /\ go[t].sock # k
    BY <1>5, <2>1 DEF IInv, GoInv, GoOk, HasSocket
  <2>3. ~sock[go[t].sock].dead /\ t \in sock[go[t].sock].replyFuncs
    BY <2>1 DEF IInv, NoForgottenWaiter
  <2> QED BY <1>4, <2>1, <2>2, <2>3
<1>13. LiveInv'
  <2> SUFFICES ASSUME NEW j \in Sockets, ~sock'[j].dead
               PROVE  \/ j \in IF server.closed THEN server.closing ELSE server.live
                      \/ \E t \in Sessions : go'[t].pc = "append" /\ go'[t].sock = j
    BY <1>1 DEF LiveInv
  <2>1. j # k /\ sock'[j] = sock[j]
    BY <1>1, <1>4
  <2>2. \A t \in Sessions : go[t].sock = j => go'[t] = go[t]
    BY <1>1, <1>2, <2>1
  <2> QED BY <2>1, <2>2 DEF IInv, LiveInv
<1>14. PanicInv'
  BY <1>1 DEF IInv, PanicInv
<1> QED BY <1>2, <1>6, <1>7, <1>8, <1>9, <1>10, <1>11, <1>12, <1>13, <1>14 DEF IInv

LEMMA AppendLiveKeeps == ASSUME NEW s \in Sessions PROVE IInv /\ appendLive(s) => IInv'
<1> SUFFICES ASSUME IInv, appendLive(s) PROVE IInv'
  OBVIOUS
<1> DEFINE g == go[s]
           k == g.sock
           b == FALSE
           x == kill(Release(sock[k]), b)
           p == ses[s].creds
           e == None
           f == [g EXCEPT !.pc = "failed", !.sock = e]
           h == [g EXCEPT !.pc = "login", !.pend = p]
<1>1. /\ g.pc = "append" /\ UNCHANGED <<config, ses, faults, panic>>
      /\ IF server.closed
         THEN sock' = [sock EXCEPT ![k] = x] /\ go' = [go EXCEPT ![s].pc = "failed", ![s].sock = None] /\ server' = server
         ELSE /\ server' = [server EXCEPT !.live = @ \cup {k}] /\ sock' = sock
              /\ go' = [go EXCEPT ![s].pc = "login", ![s].pend = p]
  BY DEF appendLive
<1>2. /\ g \in GoRecs /\ GoOk(g) /\ go \in [Sessions -> GoRecs] /\ sock \in [Sockets -> SockRecs] /\ ses[s] \in SesRecs
      /\ server \in ServerRecs
  BY GoFacts
<1>3. g.todo = <<>> /\ g.back = None /\ LoginPhase(g)
  BY <1>1, <1>2 DEF GoOk, LoginPhase
<1>4. k \in Sockets /\ sock[k].references = 1
  BY <1>3, OwnSocket
<1>5. CASE server.closed
  <2>1. /\ x \in SockRecs /\ x.references = 0 /\ x.dead /\ x.wire = <<>> /\ x.replyFuncs = {}
    <3>1. sock[k] \in SockRecs /\ b \in BOOLEAN
      BY <1>2, <1>4
    <3> HIDE DEF b
    <3> DEFINE y == Release(sock[k])
    <3>2. /\ y \in SockRecs /\ y.references = 0
          /\ (sock[k].dead => y.dead)
          /\ \/ y.wire = sock[k].wire /\ y.replyFuncs = sock[k].replyFuncs
             \/ y.wire = <<>> /\ y.replyFuncs = {}
          /\ (y.dead => sock[k].dead)
      BY <1>4, <3>1, ReleaseFacts
    <3>3. sock[k].dead => sock[k].wire = <<>> /\ sock[k].replyFuncs = {}
      BY <1>4 DEF IInv, WireInv
    <3> HIDE DEF y
    <3>4. /\ kill(y, b) \in SockRecs /\ kill(y, b).references = y.references /\ kill(y, b).dead
          /\ (y.dead => kill(y, b) = y)
          /\ (~y.dead => kill(y, b).wire = <<>> /\ kill(y, b).replyFuncs = {})
      BY <3>1, <3>2, KillFacts
    <3>5. x = kill(y, b)
      BY DEF y
    <3> HIDE DEF x
    <3> QED BY <3>2, <3>3, <3>4, <3>5
  <2>2. go' = [go EXCEPT ![s] = f]
    BY <1>1, <1>2, <1>5
  <2>3. sock' = [sock EXCEPT ![k] = x] /\ server' = server
    BY <1>1, <1>5
  <2> HIDE DEF x
  <2>4. e \in Sockets \cup {None} /\ e = None
    OBVIOUS
  <2> HIDE DEF e
  <2>5. f \in GoRecs
    BY <1>2, <2>4 DEF GoRecs, Pcs
  <2>6. f.pc = "failed" /\ f.sock = None /\ f.todo = g.todo /\ f.back = g.back /\ f.op = g.op /\ f.arg = g.arg
    BY <1>2, <2>4, <2>5 DEF GoRecs
  <2> HIDE DEF f
  <2>7. GoOk(f)
    BY <1>1, <1>2, <1>3, <2>6 DEF GoOk, Talking, HasSocket, NoSocketYet
  <2>8. Drops(s, k, x, f)
    BY <1>1, <1>3, <2>1, <2>2, <2>3, <2>6, <2>7 DEF Drops
  <2> QED BY <1>1, <1>4, <2>1, <2>5, <2>8, DropKeeps
<1>6. CASE ~server.closed
  <2>1. go' = [go EXCEPT ![s] = h] /\ sock' = sock
    BY <1>1, <1>2, <1>6
  <2>2. p \in Seq(DOMAIN Creds)
    BY <1>2 DEF SesRecs
  <2> HIDE DEF p
  <2>3. h \in GoRecs
    BY <1>2, <2>2 DEF GoRecs, Pcs, HasSocket
  <2>4. h.pc = "login" /\ h.sock = k /\ h.todo = g.todo /\ h.back = g.back /\ h.op = g.op /\ h.arg = g.arg
    BY <1>2, <2>3 DEF GoRecs
  <2> HIDE DEF h
  <2>5. GoOk(h)
    BY <1>1, <1>2, <1>3, <1>4, <2>4 DEF GoOk, Talking, HasSocket, NoSocketYet
  <2>6. go' \in [Sessions -> GoRecs] /\ GoInv' /\ go'[s] = h /\ \A t \in Sessions : t # s => go'[t] = go[t]
    BY <2>1, <2>3, <2>5, OneGoes
  <2>7. /\ server' \in ServerRecs /\ server'.unused = server.unused /\ server'.live = server.live \cup {k}
        /\ ~server'.closed
    <3> DEFINE L == server.live \cup {k}
    <3>1. L \in SUBSET Sockets
      BY <1>2, <1>4 DEF ServerRecs
    <3>2. server' = [server EXCEPT !.live = L]
      BY <1>1, <1>6
    <3>3. L = server.live \cup {k}
      OBVIOUS
    <3> HIDE DEF L
    <3>4. server' \in ServerRecs
      BY <1>2, <3>1, <3>2 DEF ServerRecs
    <3> QED BY <1>2, <1>6, <3>2, <3>3, <3>4 DEF ServerRecs
  <2>8. TypeInv'
    BY <1>1, <1>2, <2>1, <2>6, <2>7 DEF IInv, TypeInv, C
  <2>9. Quiet /\ Silent /\ NoLogin
    BY <1>1, <1>3, <2>1, <2>4, <2>6, <2>7 DEF Quiet, Silent, NoLogin, Alike, AlikeSes
  <2>10. \A j \in Sockets : sock'[j].references = sock[j].references
    BY <2>1
  <2>11. LiveInv'
    <3> SUFFICES ASSUME NEW j \in Sockets, ~sock[j].dead
                 PROVE  \/ j \in server'.live
                        \/ \E t \in Sessions : go'[t].pc = "append" /\ go'[t].sock = j
      BY <2>1, <2>7 DEF LiveInv
    <3>1. CASE j \in server.live
      BY <2>7, <3>1
    <3>2. CASE j \notin server.live
      <4>1. PICK t \in Sessions : go[t].pc = "append" /\ go[t].sock = j
        BY <1>6, <3>2 DEF IInv, LiveInv
      <4>2. CASE t = s
        BY <2>7, <4>1, <4>2
      <4>3. CASE t # s
        BY <2>6, <4>1, <4>3
      <4> QED BY <4>2, <4>3
    <3> QED BY <3>1, <3>2
  <2>12. PanicInv'
    BY <1>1 DEF IInv, PanicInv
  <2> QED BY <2>6, <2>8, <2>9, <2>10, <2>11, <2>12, QuietKeeps, SilentKeeps, NoLoginKeeps DEF IInv
<1> QED BY <1>5, <1>6

-----------------------------------------------------------------------------
(* The theorems.                                                           *)

LEMMA InitKeeps == Init => IInv
<1> SUFFICES ASSUME Init PROVE IInv
  OBVIOUS
<1>1. /\ config \in DOMAIN Scenarios /\ faults = 0 /\ panic = "none"
      /\ server = [closed |-> FALSE, master |-> C.master, unused |-> <<>>, live |-> {}, closing |-> {}]
      /\ sock = [k \in Sockets |-> NoSocket] /\ go = [s \in Sessions |-> Idle]
  BY DEF Init
<1>2. C.master \in BOOLEAN /\ C.mode \in Modes /\ C.faults \in Nat /\ \A s \in Sessions : C.creds[s] \in Seq(DOMAIN Creds)
  BY <1>1, ScenariosAssumption DEF C
<1>3. \A s \in Sessions : go[s] = Idle
  BY <1>1
<1>4. \A k \in Sockets : sock[k] = NoSocket
  BY <1>1
<1>5. /\ Idle \in GoRecs /\ Idle.todo = <<>> /\ Idle.back = None /\ Idle.sock = None /\ Idle.pc = "idle" /\ Idle.op = "none"
  <2>1. <<>> \in Seq(Sockets)
    OBVIOUS
  <2> QED BY <2>1 DEF Idle, GoRecs, Pcs, NoSocketYet
<1>6. /\ NoSocket \in SockRecs /\ NoSocket.references = 0 /\ NoSocket.dead /\ NoSocket.wire = <<>>
      /\ NoSocket.replyFuncs = {} /\ ~NoSocket.abending
  BY NoSocketType DEF NoSocket
<1>7. \A s \in Sessions : ses[s] \in SesRecs /\ ses[s].masterSocket = None /\ ses[s].slaveSocket = None
  <2> TAKE s \in Sessions
  <2> DEFINE o == s \in C.open
             D == C.creds[s]
             m == C.mode
             l == m # "Strong"
             r == [NewSession EXCEPT !.open = o, !.creds = D, !.mode = m, !.slaveOk = l]
  <2>1. ses[s] = r
    BY DEF Init
  <2>2. D \in Seq(DOMAIN Creds) /\ m \in Modes /\ l \in BOOLEAN /\ o \in BOOLEAN
    BY <1>2
  <2> HIDE DEF o, D, m, l
  <2> QED BY <2>1, <2>2 DEF NewSession, SesRecs
<1>8. ses \in [Sessions -> SesRecs]
  <2>1. \E f : ses = [s \in Sessions |-> f[s]]
    <3> DEFINE F == [s \in Sessions |->
                 [NewSession EXCEPT !.open = s \in C.open, !.creds = C.creds[s], !.mode = C.mode, !.slaveOk = C.mode # "Strong"]]
    <3>1. ses = F
      BY DEF Init
    <3>2. F = [s \in Sessions |-> F[s]]
      OBVIOUS
    <3> QED BY <3>1, <3>2
  <2> QED BY <1>7, <2>1
<1> HIDE DEF Idle, NoSocket
<1>9. TypeInv
  <2>1. server \in ServerRecs
    <3>1. <<>> \in Seq(Sockets)
      OBVIOUS
    <3> QED BY <1>1, <1>2, <3>1 DEF ServerRecs
  <2>2. sock \in [Sockets -> SockRecs] /\ go \in [Sessions -> GoRecs]
    BY <1>1, <1>5, <1>6
  <2>3. faults \in 0..C.faults
    BY <1>1, <1>2
  <2> QED BY <1>1, <1>8, <2>1, <2>2, <2>3 DEF TypeInv
<1>10. GoInv /\ \A s \in Sessions : ~LoginPhase(go[s])
  BY <1>3, <1>5 DEF GoInv, GoOk, LoginPhase, Talking, HasSocket, NoSocketYet
<1>11. SesInv
  BY <1>3, <1>5, <1>7 DEF SesInv
<1>12. ReferencesAreHeld
  <2> SUFFICES ASSUME NEW k \in Sockets PROVE Holders(k) = 0
    BY <1>4, <1>6 DEF ReferencesAreHeld
  <2>1. k # None
    BY SocketsAssumption
  <2>2. {s \in Sessions : go[s].sock = k /\ go[s].pc # "initial"} = {}
    BY <1>3, <1>5, <2>1
  <2>3. {s \in Sessions : ses[s].masterSocket = k} = {} /\ {s \in Sessions : ses[s].slaveSocket = k} = {}
    BY <1>7, <2>1
  <2>4. {x \in Sessions \X (1..2) : x[2] \in DOMAIN go[x[1]].todo /\ go[x[1]].todo[x[2]] = k} = {}
    <3>1. \A s \in Sessions : DOMAIN go[s].todo = {}
      BY <1>3, <1>5
    <3> QED BY <3>1
  <2>5. Cardinality({}) = 0
    BY FS_EmptySet
  <2> DEFINE A == {s \in Sessions : go[s].sock = k /\ go[s].pc # "initial"}
             B == {s \in Sessions : ses[s].masterSocket = k}
             D == {s \in Sessions : ses[s].slaveSocket = k}
             E == {x \in Sessions \X (1..2) : x[2] \in DOMAIN go[x[1]].todo /\ go[x[1]].todo[x[2]] = k}
  <2>6. Holders(k) = Cardinality(A) + Cardinality(B) + Cardinality(D) + Cardinality(E)
    BY DEF Holders
  <2>7. A = {} /\ B = {} /\ D = {} /\ E = {}
    BY <2>2, <2>3, <2>4
  <2> HIDE DEF A, B, D, E
  <2> QED BY <2>5, <2>6, <2>7
<1>13. ParkInv
  <2>1. DOMAIN server.unused = {}
    BY <1>1
  <2> QED BY <1>3, <1>5, <2>1 DEF ParkInv
<1>14. LoginInv /\ NoForgottenWaiter
  BY <1>3, <1>5, <1>10 DEF LoginInv, NoForgottenWaiter
<1>15. WireInv
  <2>1. \A k \in Sockets : DOMAIN sock[k].wire = {}
    BY <1>4, <1>6
  <2> QED BY <1>4, <1>6, <2>1 DEF WireInv
<1>16. LiveInv /\ PanicInv
  BY <1>1, <1>4, <1>6 DEF LiveInv, PanicInv
<1> QED BY <1>9, <1>10, <1>11, <1>12, <1>13, <1>14, <1>15, <1>16 DEF IInv

LEMMA StutterKeeps == IInv /\ UNCHANGED vars => IInv'
<1> SUFFICES ASSUME IInv, UNCHANGED vars PROVE IInv'
  OBVIOUS
<1>1. UNCHANGED <<config, server, sock, ses, go, faults, panic>>
  BY DEF vars
<1>2. TypeInv' /\ GoInv' /\ SesInv' /\ LoginInv' /\ PanicInv'
  BY <1>1 DEF IInv, TypeInv, C, GoInv, SesInv, LoginInv, PanicInv
<1>3. ReferencesAreHeld' /\ ParkInv'
  <2>1. Quiet
    BY <1>1 DEF Quiet, Alike, AlikeSes
  <2> QED BY <2>1, QuietKeeps
<1>4. WireInv' /\ NoForgottenWaiter'
  <2>1. Silent
    BY <1>1 DEF Silent
  <2> QED BY <2>1, SilentKeeps
<1>5. LiveInv'
  BY <1>1 DEF IInv, LiveInv
<1> QED BY <1>2, <1>3, <1>4, <1>5 DEF IInv

LEMMA NextKeeps == IInv /\ [Next]_vars => IInv'
<1> SUFFICES ASSUME IInv, [Next]_vars PROVE IInv'
  OBVIOUS
<1>1. ASSUME NEW s \in Sessions, Step(s) PROVE IInv'
  BY <1>1, AcquireSocketKeeps, InitialAcquireKeeps, ConnectKeeps, AppendLiveKeeps, LoginKeeps, GetNonceKeeps, LoggedInKeeps,
     SetSocketKeeps, FlushLogoutKeeps, QueryKeeps, FinishKeeps, ReleaseNextKeeps, RecycleSocketKeeps DEF Step
<1>2. ASSUME NEW s \in Sessions, Begin(s) PROVE IInv'
  BY <1>2, AcquireSocketPrivateKeeps, CopySessionKeeps, RefreshKeeps, SetModeKeeps, LogoutKeeps, CloseSessionKeeps DEF Begin
<1>3. ASSUME NEW k \in Sockets, closeSocket(k) \/ AbendSocket(k) \/ readReply(k) \/ readCut(k) \/ readFails(k) PROVE IInv'
  BY <1>3, CloseSocketKeeps, AbendKeeps, ReadReplyKeeps, ReadCutKeeps, ReadFailsKeeps
<1>4. CASE Close \/ SetInfo
  BY <1>4, CloseKeeps, SetInfoKeeps
<1>5. CASE UNCHANGED vars
  BY <1>5, StutterKeeps
<1> QED BY <1>1, <1>2, <1>3, <1>4, <1>5 DEF Next

(* Whatever sessions, the server and the environment do in whatever order, *)
(* the state of the pool stays within the invariant.                       *)
THEOREM InvariantHolds == Spec => []IInv
<1>1. Init => IInv
  BY InitKeeps
<1>2. IInv /\ [Next]_vars => IInv'
  BY NextKeeps
<1> QED BY <1>1, <1>2, PTL DEF Spec

(* Whoever waits for a reply, and whose reply is not the one that was cut  *)
(* short, is known to a socket that is alive: killing a socket, closing    *)
(* the server and broken connections tell every waiter.                    *)
THEOREM NoForgottenWaiterHolds == Spec => []NoForgottenWaiter
<1>1. IInv => NoForgottenWaiter
  BY DEF IInv
<1> QED BY <1>1, InvariantHolds, PTL

(* The bookkeeping of the pool: types, the count of references, the cache  *)
(* whose sockets nobody uses, the closed server that leaves no socket open *)
(* and, of the panics, none for a reference too many or too few.           *)
Bookkeeping ==
    /\ TypeOK /\ ReferencesAreHeld /\ CachedIsUnused /\ ClosedClosesAll
    /\ panic \notin {"acquired out of cache with references", "Release with references = 0"}
THEOREM BookkeepingHolds == Spec => []Bookkeeping
<1>1. IInv => Bookkeeping
  <2> SUFFICES ASSUME IInv PROVE Bookkeeping
    OBVIOUS
  <2>1. TypeInv /\ ParkInv /\ LiveInv /\ PanicInv /\ ReferencesAreHeld
    BY DEF IInv
  <2>2. server.unused \in Seq(Sockets)
    BY <2>1 DEF TypeInv, ServerRecs
  <2>3. TypeOK
    <3>1. /\ server.live \subseteq Sockets /\ server.closing \subseteq Sockets /\ Range(server.unused) \subseteq Sockets
          /\ faults \in 0..C.faults
      BY <2>1, <2>2 DEF TypeInv, ServerRecs, Range
    <3>2. ASSUME NEW k \in Sockets
          PROVE  /\ sock[k].references \in Nat
                 /\ sock[k].creds \cup sock[k].logout \cup sock[k].auth \subseteq DOMAIN Creds
                 /\ sock[k].replyFuncs \subseteq Sessions
      BY <2>1 DEF TypeInv, SockRecs
    <3>3. ASSUME NEW s \in Sessions
          PROVE  /\ {ses[s].masterSocket, ses[s].slaveSocket, go[s].sock, go[s].back} \subseteq Sockets \cup {None}
                 /\ ses[s].mode \in Modes /\ Range(ses[s].creds) \subseteq DOMAIN Creds
      <4>1. ses[s].creds \in Seq(DOMAIN Creds)
        BY <2>1 DEF TypeInv, SesRecs
      <4>2. Range(ses[s].creds) \subseteq DOMAIN Creds
        BY <4>1 DEF Range
      <4> QED BY <2>1, <4>2 DEF TypeInv, SesRecs, GoRecs
    <3> QED BY <3>1, <3>2, <3>3 DEF TypeOK
  <2>4. CachedIsUnused
    <3>1. \A k \in Range(server.unused) : \E i \in DOMAIN server.unused : k = server.unused[i] /\ k \in Sockets
      BY <2>2 DEF Range
    <3>2. \A i \in DOMAIN server.unused : Holders(server.unused[i]) = 0
      BY <2>1, <2>2 DEF ParkInv, ReferencesAreHeld
    <3> QED BY <2>1, <3>1, <3>2 DEF CachedIsUnused, ParkInv
  <2>5. ClosedClosesAll
    BY <2>1 DEF ClosedClosesAll, LiveInv
  <2> QED BY <2>1, <2>3, <2>4, <2>5 DEF Bookkeeping, PanicInv
<1> QED BY <1>1, InvariantHolds, PTL
=============================================================================
