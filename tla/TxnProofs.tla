------------------------------ MODULE TxnProofs ------------------------------
(***************************************************************************)
(* Proofs about Txn for any number of transactions, documents and runners, *)
(* any workload and any number of killed runners: what a runner remembers  *)
(* of a transaction is never ahead of its record, the record only goes     *)
(* forward, its nonce and revisions are agreed on once, and nothing is     *)
(* written for a transaction that is not being applied.                    *)
(***************************************************************************)
EXTENDS Txn, ModLemmas, SequenceTheorems, FiniteSetTheorems

-----------------------------------------------------------------------------
(* The inductive invariant.                                                *)

TxnRecs == [id : Nat, s : States, n : Nat, r : Seq(Int)]
Tokens == Txns \X Nat
DocRecs == [in : BOOLEAN, revno : Nat, queue : Seq(Tokens), mark : Txns \cup {0}]
StashRecs == [in : BOOLEAN, revno : Int, queue : Seq(Tokens), mark : Txns \cup {0}, n : SUBSET (Nat \X Nat)]

RunFrames == [pc : {"run", "order"}, id : Txns, todo : Seq([id : Txns, pull : SUBSET Nat])]
RecurseFrames == [pc : {"recurse"}, id : Txns, i : Int, todo : Seq(Txns)]

OnDoc == {"prepareDoc", "prepareStash", "confirmDoc", "confirmStash", "unstash"}
Preparing == OnDoc \cup {"setPrepared", "reloadPrepared"}
Rescanning == {"rescanDoc", "rescanStash", "rescanReload"}
Asserting == {"assertDoc", "setAborting", "reloadAborting", "setApplying", "reloadApplying"}
Aborting == {"pullTokens", "setAborted"}
Inserting == {"insertMark", "insertDoc", "insertStash"}
Writing == Inserting \cup {"applyUpdate", "removeStash", "removeMark", "removeCopy", "removeDoc"}
Applying == Writing \cup {"setApplied"}
AdvancePcs == {"advance"} \cup Preparing \cup Rescanning \cup Asserting \cup Aborting \cup Applying

AdvanceFrames ==
    [pc : AdvancePcs, t : TxnRecs, pull : SUBSET Nat, force : BOOLEAN, i : Nat, retry : Nat,
     tt : Nat \X Nat, revno : [Docs -> Int], revnos : Seq(Int), nonce : Nat, copy : Seq(Tokens)]
Frames == RunFrames \cup RecurseFrames \cup AdvanceFrames

TypeInv ==
    /\ work \in DOMAIN Workloads
    /\ txns \in [Txns -> TxnRecs]
    /\ docs \in [Docs -> DocRecs]
    /\ stash \in [Docs -> StashRecs]
    /\ stack \in [Runners -> Seq(Frames)]
    /\ queue \in [Runners -> [Docs -> Seq(Tokens)]]
    /\ seen \in [Runners -> [Txns -> TxnRecs]]
    /\ nonces \in [Txns -> Nat]
    /\ faults \in Nat
    /\ outcome \in [Runners -> {"ok", "lost", "panic"}]
    /\ log \in [Docs -> Seq(Txns)]

(* The states that may follow a state of a transaction, itself included.   *)
Onward(s) ==
    CASE s = "none"      -> States
      [] s = "preparing" -> States \ {"none"}
      [] s = "prepared"  -> States \ {"none", "preparing"}
      [] s = "applying"  -> {"applying", "applied"}
      [] s = "aborting"  -> {"aborting", "aborted"}
      [] OTHER           -> {s}

Started(x, T) == x \in Txns /\ T[x].s # "none"

(* The record u of a transaction has all that was agreed on in t.          *)
Extends(t, u) ==
    /\ u.s \in Onward(t.s)
    /\ t.s # "none" => u.id = t.id
    /\ t.s \notin {"none", "preparing"} => u.n = t.n
    /\ t.s \in {"applying", "applied"} => u.r = t.r

(* A copy of the record of a transaction may be old but is not wrong.      *)
Backed(t, T) == t.id \in Txns /\ t.s # "none" /\ Extends(t, T[t.id])

TokensOk(q, T) == \A k \in DOMAIN q : Started(q[k][1], T)

TxnOk(id, T, N, O) ==
    /\ IF T[id].s = "none" THEN T[id] = NoTxn ELSE T[id].id = id
    /\ T[id].n <= N[id]
    /\ T[id].s \in {"applying", "applied"} => Len(T[id].r) = Len(O[id])

(* What the fields of a call of advance say at each place of its code.     *)
AdvanceOk(f, T, N, O) ==
    /\ Backed(f.t, T) /\ TokensOk(f.copy, T)
    /\ f.pc \in Preparing => f.t.s = "preparing" /\ f.tt[1] = f.t.id /\ f.tt[2] <= N[f.t.id]
    /\ f.pc \in Rescanning => f.t.s = "prepared" /\ f.tt = token(f.t)
    /\ f.pc \in OnDoc \cup Rescanning => f.i \in Docs
    /\ f.pc \in Asserting => f.t.s = "prepared" /\ Len(f.revnos) = Len(O[f.t.id])
    /\ f.pc \in Aborting => f.t.s = "aborting"
    /\ f.pc \in Applying => f.t.s = "applying"
    /\ f.pc \in Writing \cup {"assertDoc", "pullTokens"} => f.i \in 1..Len(O[f.t.id])
    /\ f.pc \in Inserting => f.t.r[f.i] < 0

FrameOk(f, T, N, O, S) ==
    /\ f.pc \in {"run", "order"} => S[f.id].id # 0 /\ \A k \in DOMAIN f.todo : S[f.todo[k].id].id # 0
    /\ f.pc = "recurse" => Started(f.id, T) /\ \A k \in DOMAIN f.todo : Started(f.todo[k], T)
    /\ f.pc \in AdvancePcs => AdvanceOk(f, T, N, O)

(* The call of run is at the bottom of the stack.                          *)
StackOk(st, T, N, O, S) ==
    /\ st \in Seq(Frames)
    /\ st # <<>> => st[1].pc \in {"run", "order"}
    /\ \A k \in DOMAIN st : FrameOk(st[k], T, N, O, S)

SeenOk(S, T) == \A x \in Txns : S[x].id = 0 \/ (S[x].id = x /\ Backed(S[x], T))

DocOk(d, T) == TokensOk(d.queue, T) /\ (d.mark = 0 \/ Started(d.mark, T))

(* Nothing is written for a transaction before all runners agree that it   *)
(* is applied, and from then on it is.                                     *)
LogOk(T, L) ==
    \A d \in Docs : \A k \in DOMAIN L[d] : T[L[d][k]].s \in {"applying", "applied"}

IInv ==
    /\ TypeInv
    /\ \A x \in Txns : TxnOk(x, txns, nonces, ops)
    /\ \A d \in Docs : DocOk(docs[d], txns) /\ DocOk(stash[d], txns)
    /\ \A r \in Runners : /\ StackOk(stack[r], txns, nonces, ops, seen[r])
                          /\ SeenOk(seen[r], txns)
                          /\ \A d \in Docs : TokensOk(queue[r][d], txns)
    /\ LogOk(txns, log)

(* A transaction only goes forward, and is only ever applied or aborted;   *)
(* its nonce and its revisions do not change once they are agreed on.      *)
Agreed == [][\A x \in Txns : Extends(txns[x], txns'[x])]_vars

-----------------------------------------------------------------------------
(* Lemmas about the operators of the model.                                *)

(* The least element of a set of naturals.                                 *)
LEMMA MinFacts ==
    ASSUME NEW S, S \subseteq Nat, S # {}
    PROVE  Min(S) \in S /\ \A y \in S : Min(S) <= y
<1>1. PICK x \in S : \A y \in S : <<y, x>> \notin OpToRel(<, Nat)
  BY NatLessThanWellFounded, WFMin
<1>2. \A y \in S : ~(y < x)
  BY <1>1 DEF OpToRel
<1>3. \A y \in S : x <= y
  BY <1>2
<1> QED BY <1>3 DEF Min

(* FirstOf finds one of the operations it looks for, or none.              *)
LEMMA FirstOfFacts ==
    ASSUME NEW S, S \subseteq Nat
    PROVE  FirstOf(S) = 0 \/ FirstOf(S) \in S
BY MinFacts DEF FirstOf

(* What a workload asks for.                                               *)
OpsOk(O) == \A t \in Txns : O[t] \in Seq(OpRecords) /\ O[t] # <<>>

(* The operations of the workload that runs are sequences of known         *)
(* operations.                                                             *)
LEMMA OpsFacts == ASSUME TypeInv PROVE OpsOk(ops)
BY WorkloadsAssumption DEF OpsOk, ops, TypeInv

(* docKeys goes through documents, and starts with one.                    *)
LEMMA DocKeysFacts ==
    ASSUME TypeInv, NEW t \in Txns, NEW after \in Nat
    PROVE  /\ docKeys(t, after) \in Docs \cup {0}
           /\ docKeys(t, 0) \in Docs
<1>0. Docs \subseteq Nat /\ \A d \in Docs : d > 0
  BY DocsAssumption
<1>1. Keys(t) \subseteq Docs
  <2>1. ops[t] \in Seq(OpRecords)
    BY OpsFacts DEF OpsOk
  <2>2. \A i \in DOMAIN ops[t] : ops[t][i] \in OpRecords
    BY <2>1
  <2> QED BY <2>2 DEF Keys, OpRecords
<1>2. Keys(t) # {}
  <2>1. ops[t] \in Seq(OpRecords) /\ ops[t] # <<>>
    BY OpsFacts DEF OpsOk
  <2>2. 1 \in DOMAIN ops[t]
    BY <2>1
  <2> QED BY <2>2 DEF Keys
<1>3. ASSUME NEW a \in Nat PROVE docKeys(t, a) \in Docs \cup {0}
  <2> DEFINE later == {d \in Keys(t) : d > a}
  <2>1. later \subseteq Nat
    BY <1>0, <1>1
  <2>2. later # {} => Min(later) \in later
    BY <2>1, MinFacts
  <2> QED BY <1>1, <2>2 DEF docKeys
<1>4. docKeys(t, 0) # 0
  <2> DEFINE later == {d \in Keys(t) : d > 0}
  <2>1. later = Keys(t)
    BY <1>0, <1>1
  <2>2. later \subseteq Nat /\ later # {}
    BY <1>0, <1>1, <1>2, <2>1
  <2>3. Min(later) \in later
    BY <2>2, MinFacts
  <2>4. docKeys(t, 0) = Min(later)
    BY <2>2 DEF docKeys
  <2> QED BY <1>0, <1>1, <2>1, <2>3, <2>4
<1> QED BY <1>3, <1>4

(* What Keep leaves of a sequence: items of it that are in the set.        *)
LEMMA KeepFacts ==
    ASSUME NEW X, NEW s \in Seq(X), NEW S
    PROVE  Keep(s, S) \in Seq({x \in Range(s) : x \in S})
<1> DEFINE n == Len(s)
           K == {x \in Range(s) : x \in S}
           step == [a \in Seq(K) \X Nat |-> IF a[2] \in 1..n /\ s[a[2]] \in S THEN Append(a[1], s[a[2]]) ELSE a[1]]
           g == CHOOSE h : h = [k \in 0..n |-> IF k = 0 THEN <<>> ELSE IF s[k] \in S THEN Append(h[k - 1], s[k]) ELSE h[k - 1]]
<1>0. n \in Nat /\ \A k \in 1..n : s[k] \in Range(s)
  BY DEF Range
<1>1. step \in [Seq(K) \X Nat -> Seq(K)]
  <2> SUFFICES ASSUME NEW a \in Seq(K) \X Nat
               PROVE (IF a[2] \in 1..n /\ s[a[2]] \in S THEN Append(a[1], s[a[2]]) ELSE a[1]) \in Seq(K)
    OBVIOUS
  <2>1. CASE a[2] \in 1..n /\ s[a[2]] \in S
    <3>1. s[a[2]] \in K
      BY <1>0, <2>1
    <3> HIDE DEF K
    <3> QED BY <2>1, <3>1
  <2> QED BY <2>1
<1>2. \A q \in Seq(K) : \A k \in 1..n : step[<<q, k>>] = IF s[k] \in S THEN Append(q, s[k]) ELSE q
  BY <1>0
<1>3. <<>> \in Seq(K)
  OBVIOUS
<1>4. Keep(s, S) = g[n]
  BY DEF Keep
<1> HIDE DEF step
<1>5. PICK f \in [0..n -> Seq(K)] : f[0] = <<>> /\ \A k \in 1..n : f[k] = step[<<f[k - 1], k>>]
  <2>1. Iterates(Seq(K), <<>>, step)
    BY <1>1, <1>3, Iterated
  <2> QED BY <1>0, <2>1 DEF Iterates
<1>6. \A k \in 1..n : f[k - 1] \in Seq(K) /\ f[k] = IF s[k] \in S THEN Append(f[k - 1], s[k]) ELSE f[k - 1]
  <2> SUFFICES ASSUME NEW k \in 1..n PROVE f[k - 1] \in Seq(K) /\ f[k] = IF s[k] \in S THEN Append(f[k - 1], s[k]) ELSE f[k - 1]
    OBVIOUS
  <2>1. k - 1 \in 0..n
    BY <1>0
  <2>2. f[k - 1] \in Seq(K)
    BY <2>1
  <2> QED BY <1>2, <1>5, <2>2
<1> HIDE DEF K, n
<1>7. f = [k \in 0..n |-> IF k = 0 THEN <<>> ELSE IF s[k] \in S THEN Append(f[k - 1], s[k]) ELSE f[k - 1]]
  <2>1. \A k \in 0..n : k # 0 => k \in 1..n
    BY <1>0
  <2> QED BY <1>5, <1>6, <2>1
<1>8. g = [k \in 0..n |-> IF k = 0 THEN <<>> ELSE IF s[k] \in S THEN Append(g[k - 1], s[k]) ELSE g[k - 1]]
  BY <1>7
<1> HIDE DEF g
<1>9. g = f
  <2> DEFINE T == {k \in Nat : k <= n => g[k] = f[k]}
  <2>1. 0 \in T
    BY <1>0, <1>5, <1>8
  <2>2. ASSUME NEW k \in Nat, k \in T PROVE k + 1 \in T
    <3>1. CASE k + 1 <= n
      <4>1. k + 1 \in 0..n /\ k + 1 \in 1..n /\ k + 1 # 0 /\ (k + 1) - 1 = k
        BY <1>0, <3>1
      <4>2. g[k] = f[k]
        BY <1>0, <2>2, <3>1
      <4>3. g[k + 1] = IF s[k + 1] \in S THEN Append(g[k], s[k + 1]) ELSE g[k]
        BY <1>8, <4>1
      <4>4. f[k + 1] = IF s[k + 1] \in S THEN Append(f[k], s[k + 1]) ELSE f[k]
        BY <1>6, <4>1
      <4> QED BY <4>2, <4>3, <4>4
    <3> QED BY <3>1
  <2>3. \A k \in Nat : k \in T
    <3> HIDE DEF T
    <3> QED BY <2>1, <2>2, SetInduction
  <2>4. \A k \in 0..n : g[k] = f[k]
    BY <1>0, <2>3
  <2> QED BY <1>7, <1>8, <2>4
<1> QED BY <1>0, <1>4, <1>9 DEF K

(* The revision after an operation.                                        *)
LEMMA NextRevnoFacts ==
    ASSUME NEW o \in OpRecords, NEW v \in Int
    PROVE  /\ NextRevno(o, v) \in Int
           /\ NextRevno(o, v) # v => o.kind \in {"update", "remove", "insert"}
           /\ NextRevno(o, v) # v /\ o.kind = "insert" => v < 0
BY DEF NextRevno, OpRecords

(* assembledRevnos gives each operation a revision.                        *)
LEMMA AssembledFacts ==
    ASSUME NEW o \in Seq(OpRecords), NEW revno \in [Docs -> Int]
    PROVE  assembledRevnos(o, revno) \in Seq(Int) /\ Len(assembledRevnos(o, revno)) = Len(o)
<1> DEFINE n == Len(o)
           X == [Docs -> Int]
           Then(q, k) == [q EXCEPT ![o[k].doc] = NextRevno(o[k], @)]
           step == [a \in X \X Nat |-> IF a[2] \in 1..n THEN Then(a[1], a[2]) ELSE a[1]]
           g == CHOOSE h : h = [k \in 0..n |-> IF k = 0 THEN revno
                                               ELSE [h[k - 1] EXCEPT ![o[k].doc] = NextRevno(o[k], @)]]
<1>0. n \in Nat /\ \A k \in 1..n : o[k] \in OpRecords /\ o[k].doc \in Docs
  <2>1. n \in Nat /\ \A k \in 1..n : o[k] \in OpRecords
    OBVIOUS
  <2>2. \A x \in OpRecords : x.doc \in Docs
    BY DEF OpRecords
  <2> QED BY <2>1, <2>2
<1>1. \A q \in X : \A k \in 1..n : Then(q, k) \in X
  <2> SUFFICES ASSUME NEW q \in X, NEW k \in 1..n PROVE Then(q, k) \in X
    OBVIOUS
  <2>1. o[k] \in OpRecords /\ o[k].doc \in Docs
    BY <1>0
  <2>2. NextRevno(o[k], q[o[k].doc]) \in Int
    BY <2>1, NextRevnoFacts
  <2> QED BY <2>1, <2>2
<1>2. step \in [X \X Nat -> X]
  <2> HIDE DEF Then
  <2> QED BY <1>1
<1>3. \A q \in X : \A k \in 1..n : step[<<q, k>>] = Then(q, k)
  <2> HIDE DEF Then
  <2> QED BY <1>0
<1>4. assembledRevnos(o, revno) = [i \in 1..n |-> g[i - 1][o[i].doc]]
  BY DEF assembledRevnos
<1> HIDE DEF step
<1>5. PICK f \in [0..n -> X] : f[0] = revno /\ \A k \in 1..n : f[k] = step[<<f[k - 1], k>>]
  <2>1. Iterates(X, revno, step)
    BY <1>2, Iterated
  <2> QED BY <1>0, <2>1 DEF Iterates
<1>6. \A k \in 1..n : f[k] = Then(f[k - 1], k)
  <2> SUFFICES ASSUME NEW k \in 1..n PROVE f[k] = Then(f[k - 1], k)
    OBVIOUS
  <2>1. k - 1 \in 0..n
    BY <1>0
  <2>2. f[k - 1] \in X
    BY <2>1
  <2> HIDE DEF Then, X
  <2> QED BY <1>3, <1>5, <2>2
<1>7. f = [k \in 0..n |-> IF k = 0 THEN revno ELSE [f[k - 1] EXCEPT ![o[k].doc] = NextRevno(o[k], @)]]
  <2>1. \A k \in 0..n : k # 0 => k \in 1..n
    BY <1>0
  <2>2. f = [k \in 0..n |-> f[k]]
    OBVIOUS
  <2>3. \A k \in 0..n : f[k] = IF k = 0 THEN revno ELSE [f[k - 1] EXCEPT ![o[k].doc] = NextRevno(o[k], @)]
    BY <1>5, <1>6, <2>1
  <2> HIDE DEF n, X
  <2> QED BY <2>2, <2>3
<1>8. g = [k \in 0..n |-> IF k = 0 THEN revno ELSE [g[k - 1] EXCEPT ![o[k].doc] = NextRevno(o[k], @)]]
  BY <1>7
<1> HIDE DEF g
<1>9. \A k \in 0..n : g[k] \in X
  <2> DEFINE T == {k \in Nat : k <= n => g[k] \in X}
  <2>1. 0 \in T
    BY <1>0, <1>8
  <2>2. ASSUME NEW k \in Nat, k \in T PROVE k + 1 \in T
    <3>1. CASE k + 1 <= n
      <4>1. k + 1 \in 0..n /\ k + 1 \in 1..n /\ k + 1 # 0 /\ (k + 1) - 1 = k
        BY <1>0, <3>1
      <4>2. g[k] \in X
        BY <1>0, <2>2, <3>1
      <4>3. g[k + 1] = [g[(k + 1) - 1] EXCEPT ![o[k + 1].doc] = NextRevno(o[k + 1], @)]
        BY <1>8, <4>1
      <4>4. g[k + 1] = Then(g[k], k + 1)
        BY <4>1, <4>3
      <4>5. g[k + 1] \in X
        <5> HIDE DEF Then, X
        <5> QED BY <1>1, <4>1, <4>2, <4>4
      <4> QED BY <4>5
    <3> QED BY <3>1
  <2>3. \A k \in Nat : k \in T
    <3> HIDE DEF T
    <3> QED BY <2>1, <2>2, SetInduction
  <2> QED BY <1>0, <2>3
<1>10. \A i \in 1..n : g[i - 1][o[i].doc] \in Int
  <2> SUFFICES ASSUME NEW i \in 1..n PROVE g[i - 1][o[i].doc] \in Int
    OBVIOUS
  <2>1. i - 1 \in 0..n
    BY <1>0
  <2>2. g[i - 1] \in X
    BY <1>9, <2>1
  <2> QED BY <1>0, <2>2
<1> QED BY <1>0, <1>4, <1>10

-----------------------------------------------------------------------------
(* How the record of a transaction changes.                                *)

(* The record of every transaction in U has all that was agreed on in T.   *)
Forward(T, U) == \A x \in Txns : Extends(T[x], U[x])

(* A record has all that was agreed on in itself.                          *)
LEMMA ExtendsSelf == ASSUME NEW t \in TxnRecs PROVE Extends(t, t)
BY DEF Extends, Onward, TxnRecs, States

(* What was agreed on in a record stays so however often it goes on.       *)
LEMMA ExtendsFurther ==
    ASSUME NEW t \in TxnRecs, NEW u \in TxnRecs, NEW v \in TxnRecs, Extends(t, u), Extends(u, v)
    PROVE  Extends(t, v)
<1>1. \A x \in States : x \in Onward(x) /\ Onward(x) \subseteq States
  BY DEF Onward, States
<1>2. \A x, y \in States : y \in Onward(x) => Onward(y) \subseteq Onward(x)
  BY DEF Onward, States
<1>3. v.s \in Onward(t.s)
  BY <1>2 DEF Extends, TxnRecs
<1>4. t.s # "none" => u.s # "none"
  BY DEF Extends, Onward, TxnRecs, States
<1>5. t.s \notin {"none", "preparing"} => u.s \notin {"none", "preparing"}
  BY DEF Extends, Onward, TxnRecs, States
<1>6. t.s \in {"applying", "applied"} => u.s \in {"applying", "applied"}
  BY DEF Extends, Onward, TxnRecs, States
<1> QED BY <1>3, <1>4, <1>5, <1>6 DEF Extends

(* An old copy stays one.                                                  *)
LEMMA BackedForward ==
    ASSUME NEW T \in [Txns -> TxnRecs], NEW U \in [Txns -> TxnRecs], Forward(T, U),
           NEW t \in TxnRecs, Backed(t, T)
    PROVE  Backed(t, U)
BY ExtendsFurther DEF Backed, Forward

(* A transaction that was started stays so.                                *)
LEMMA StartedForward ==
    ASSUME NEW T \in [Txns -> TxnRecs], NEW U \in [Txns -> TxnRecs], Forward(T, U), NEW x, Started(x, T)
    PROVE  Started(x, U)
<1>1. T[x] \in TxnRecs /\ U[x] \in TxnRecs /\ Extends(T[x], U[x])
  BY DEF Started, Forward
<1> QED BY <1>1 DEF Started, Extends, Onward, TxnRecs, States

(* Tokens of transactions that were started stay so.                       *)
LEMMA TokensForward ==
    ASSUME NEW T \in [Txns -> TxnRecs], NEW U \in [Txns -> TxnRecs], Forward(T, U), NEW q, TokensOk(q, T)
    PROVE  TokensOk(q, U)
BY StartedForward DEF TokensOk

(* So do the queue and the mark of a document,                             *)
LEMMA DocForward ==
    ASSUME NEW T \in [Txns -> TxnRecs], NEW U \in [Txns -> TxnRecs], Forward(T, U), NEW d, DocOk(d, T)
    PROVE  DocOk(d, U)
BY StartedForward, TokensForward DEF DocOk

(* the records a runner has seen,                                          *)
LEMMA SeenForward ==
    ASSUME NEW T \in [Txns -> TxnRecs], NEW U \in [Txns -> TxnRecs], Forward(T, U),
           NEW S \in [Txns -> TxnRecs], SeenOk(S, T)
    PROVE  SeenOk(S, U)
BY BackedForward DEF SeenOk

(* and what has been written for transactions.                             *)
LEMMA LogForward ==
    ASSUME NEW T \in [Txns -> TxnRecs], NEW U \in [Txns -> TxnRecs], Forward(T, U),
           NEW L \in [Docs -> Seq(Txns)], LogOk(T, L)
    PROVE  LogOk(U, L)
<1> SUFFICES ASSUME NEW d \in Docs, NEW k \in DOMAIN L[d] PROVE U[L[d][k]].s \in {"applying", "applied"}
  BY DEF LogOk
<1>1. L[d][k] \in Txns
  OBVIOUS
<1>2. T[L[d][k]].s \in {"applying", "applied"}
  BY DEF LogOk
<1>3. Extends(T[L[d][k]], U[L[d][k]])
  BY <1>1 DEF Forward
<1> QED BY <1>2, <1>3 DEF Extends, Onward

(* What the calls of a runner say of transactions stays true.              *)
LEMMA FrameForward ==
    ASSUME NEW T \in [Txns -> TxnRecs], NEW U \in [Txns -> TxnRecs], Forward(T, U),
           NEW N \in [Txns -> Nat], NEW M \in [Txns -> Nat], \A x \in Txns : N[x] <= M[x],
           NEW S, NEW R, \A x \in Txns : S[x].id # 0 => R[x].id # 0,
           NEW O, NEW f \in Frames, FrameOk(f, T, N, O, S)
    PROVE  FrameOk(f, U, M, O, R)
<1>1. CASE f.pc \in {"run", "order"}
  <2>1. f \in RunFrames
    BY <1>1 DEF Frames, RecurseFrames, AdvanceFrames, AdvancePcs, Preparing, Rescanning, Asserting, Aborting, Applying, Writing, Inserting, OnDoc
  <2>2. f.id \in Txns /\ \A k \in DOMAIN f.todo : f.todo[k].id \in Txns
    <3> DEFINE calls == [id : Txns, pull : SUBSET Nat]
    <3>1. f.id \in Txns /\ f.todo \in Seq(calls)
      BY <2>1 DEF RunFrames
    <3>2. \A c \in calls : c.id \in Txns
      OBVIOUS
    <3> HIDE DEF calls
    <3>3. \A k \in DOMAIN f.todo : f.todo[k] \in calls
      BY <3>1
    <3> QED BY <3>1, <3>2, <3>3
  <2>3. f.pc # "recurse" /\ f.pc \notin AdvancePcs
    BY <1>1 DEF AdvancePcs, Preparing, Rescanning, Asserting, Aborting, Applying, Writing, Inserting, OnDoc
  <2> QED BY <1>1, <2>2, <2>3 DEF FrameOk
<1>2. CASE f.pc = "recurse"
  <2>1. f.pc \notin AdvancePcs
    BY <1>2 DEF AdvancePcs, Preparing, Rescanning, Asserting, Aborting, Applying, Writing, Inserting, OnDoc
  <2> QED BY <1>2, <2>1, StartedForward DEF FrameOk
<1>3. CASE f.pc \in AdvancePcs
  <2>1. f.pc \notin {"run", "order", "recurse"}
    BY <1>3 DEF AdvancePcs, Preparing, Rescanning, Asserting, Aborting, Applying, Writing, Inserting, OnDoc
  <2>2. f \in AdvanceFrames
    BY <2>1 DEF Frames, RunFrames, RecurseFrames
  <2>3. AdvanceOk(f, T, N, O)
    BY <1>3 DEF FrameOk
  <2>4. f.t \in TxnRecs /\ f.tt[2] \in Nat /\ Backed(f.t, T) /\ TokensOk(f.copy, T)
    BY <2>2, <2>3 DEF AdvanceFrames, AdvanceOk
  <2>5. Backed(f.t, U) /\ TokensOk(f.copy, U) /\ f.t.id \in Txns
    BY <2>4, BackedForward, TokensForward DEF Backed
  <2>6. f.tt[2] <= N[f.t.id] => f.tt[2] <= M[f.t.id]
    BY <2>4, <2>5
  <2>7. AdvanceOk(f, U, M, O)
    BY <2>3, <2>5, <2>6 DEF AdvanceOk
  <2> QED BY <2>1, <2>7 DEF FrameOk
<1>4. f.pc \in {"run", "order"} \cup {"recurse"} \cup AdvancePcs
  BY DEF Frames, RunFrames, RecurseFrames, AdvanceFrames
<1> QED BY <1>1, <1>2, <1>3, <1>4

-----------------------------------------------------------------------------
(* Stacks.                                                                 *)

(* The calls of a runner stay right when records go forward, nonces are    *)
(* made and the runner has seen more.                                      *)
LEMMA StackForward ==
    ASSUME NEW T \in [Txns -> TxnRecs], NEW U \in [Txns -> TxnRecs], Forward(T, U),
           NEW N \in [Txns -> Nat], NEW M \in [Txns -> Nat], \A x \in Txns : N[x] <= M[x],
           NEW S, NEW R, \A x \in Txns : S[x].id # 0 => R[x].id # 0,
           NEW O, NEW st, StackOk(st, T, N, O, S)
    PROVE  StackOk(st, U, M, O, R)
<1>1. st \in Seq(Frames) /\ \A k \in DOMAIN st : st[k] \in Frames
  BY DEF StackOk
<1>2. \A k \in DOMAIN st : FrameOk(st[k], U, M, O, R)
  BY <1>1, FrameForward DEF StackOk
<1> QED BY <1>2 DEF StackOk

(* What is left when a call returns, and the caller.                       *)
LEMMA FrontFacts ==
    ASSUME NEW T, NEW N, NEW O, NEW S, NEW st, StackOk(st, T, N, O, S), st # <<>>
    PROVE  /\ StackOk(Front(st), T, N, O, S)
           /\ Last(st) \in Frames /\ FrameOk(Last(st), T, N, O, S)
           /\ Last(st).pc \notin {"run", "order"} => Front(st) # <<>>
           /\ Front(st) # <<>> => Last(Front(st)) \in Frames /\ FrameOk(Last(Front(st)), T, N, O, S)
<1>1. st \in Seq(Frames) /\ Len(st) \in Nat /\ Len(st) >= 1 /\ Len(st) \in DOMAIN st
  BY DEF StackOk
<1>2. /\ Front(st) \in Seq(Frames) /\ Len(Front(st)) = Len(st) - 1
      /\ \A k \in 1..(Len(st) - 1) : Front(st)[k] = st[k]
  <2>1. Front(st) = SubSeq(st, 1, Len(st) - 1)
    BY DEF Front
  <2> DEFINE n == Len(st) - 1
  <2>2. n \in Nat /\ \A i \in 1..n : st[i] \in Frames
    BY <1>1
  <2>3. SubSeq(st, 1, n) \in Seq(Frames) /\ Len(SubSeq(st, 1, n)) = IF 1 <= n THEN n - 1 + 1 ELSE 0
    BY <2>2, SubSeqProperties
  <2>4. \A i \in 1..(n - 1 + 1) : SubSeq(st, 1, n)[i] = st[1 + i - 1]
    BY <2>2, SubSeqProperties
  <2>5. n - 1 + 1 = n /\ \A i \in 1..n : 1 + i - 1 = i
    BY <2>2
  <2> HIDE DEF n
  <2>6. Len(SubSeq(st, 1, n)) = n
    BY <2>2, <2>3
  <2>7. \A i \in 1..n : SubSeq(st, 1, n)[i] = st[i]
    BY <2>4, <2>5
  <2> QED BY <2>1, <2>3, <2>6, <2>7 DEF n
<1>3. DOMAIN Front(st) = 1..(Len(st) - 1)
  BY <1>2
<1>4. StackOk(Front(st), T, N, O, S)
  <2>1. Front(st) # <<>> => 1 \in 1..(Len(st) - 1)
    BY <1>1, <1>2
  <2> QED BY <1>1, <1>2, <1>3, <2>1 DEF StackOk
<1>5. Last(st) \in Frames /\ FrameOk(Last(st), T, N, O, S)
  BY <1>1 DEF StackOk, Last
<1>6. Last(st).pc \notin {"run", "order"} => Front(st) # <<>>
  <2>1. Len(st) = 1 => Last(st).pc \in {"run", "order"}
    BY <1>1 DEF StackOk, Last
  <2>2. Front(st) = <<>> => Len(st) = 1
    BY <1>1, <1>2
  <2> QED BY <2>1, <2>2
<1>7. Front(st) # <<>> => Last(Front(st)) \in Frames /\ FrameOk(Last(Front(st)), T, N, O, S)
  <2>1. Front(st) # <<>> => Len(Front(st)) \in DOMAIN Front(st)
    BY <1>2
  <2> QED BY <1>2, <1>4, <2>1 DEF StackOk, Last
<1> QED BY <1>4, <1>5, <1>6, <1>7

(* A call that is right may be put on a stack that is.                     *)
LEMMA AppendFacts ==
    ASSUME NEW T, NEW N, NEW O, NEW S, NEW st, StackOk(st, T, N, O, S),
           NEW f \in Frames, FrameOk(f, T, N, O, S), st = <<>> => f.pc \in {"run", "order"}
    PROVE  StackOk(Append(st, f), T, N, O, S) /\ Append(st, f) # <<>>
<1>1. st \in Seq(Frames) /\ Append(st, f) \in Seq(Frames) /\ Len(Append(st, f)) = Len(st) + 1
  BY DEF StackOk
<1>2. Append(st, f) # <<>> /\ DOMAIN Append(st, f) = 1..(Len(st) + 1) /\ Len(st) \in Nat
  BY <1>1
<1>3. /\ \A k \in 1..Len(st) : Append(st, f)[k] = st[k]
      /\ Append(st, f)[Len(st) + 1] = f
  BY <1>1
<1>4. \A k \in DOMAIN Append(st, f) : FrameOk(Append(st, f)[k], T, N, O, S)
  <2> SUFFICES ASSUME NEW k \in 1..(Len(st) + 1) PROVE FrameOk(Append(st, f)[k], T, N, O, S)
    BY <1>2
  <2>1. CASE k = Len(st) + 1
    BY <1>3, <2>1
  <2>2. CASE k # Len(st) + 1
    <3>1. k \in 1..Len(st) /\ k \in DOMAIN st
      BY <1>1, <1>2, <2>2
    <3> QED BY <1>3, <3>1 DEF StackOk
  <2> QED BY <2>1, <2>2
<1>5. Append(st, f)[1].pc \in {"run", "order"}
  <2>1. CASE st = <<>>
    BY <1>3, <2>1
  <2>2. CASE st # <<>>
    <3>1. 1 \in 1..Len(st)
      BY <1>1, <2>2
    <3> QED BY <1>3, <2>2, <3>1 DEF StackOk
  <2> QED BY <2>1, <2>2
<1> QED BY <1>1, <1>2, <1>4, <1>5 DEF StackOk

(* The call at the top of the stack is replaced by another place of it.    *)
LEMMA TopFacts ==
    ASSUME NEW T, NEW N, NEW O, NEW S, NEW st, StackOk(st, T, N, O, S), st # <<>>,
           NEW f \in Frames, FrameOk(f, T, N, O, S),
           f.pc \in {"run", "order"} <=> Last(st).pc \in {"run", "order"}
    PROVE  StackOk(Append(Front(st), f), T, N, O, S) /\ Append(Front(st), f) # <<>>
BY FrontFacts, AppendFacts

-----------------------------------------------------------------------------
(* A step of a runner, part by part.                                       *)

TxnPart ==
    /\ work' = work /\ txns' \in [Txns -> TxnRecs] /\ nonces' \in [Txns -> Nat]
    /\ Forward(txns, txns') /\ \A x \in Txns : nonces[x] <= nonces'[x]
    /\ \A x \in Txns : TxnOk(x, txns', nonces', ops)
DocPart ==
    /\ docs' \in [Docs -> DocRecs] /\ stash' \in [Docs -> StashRecs]
    /\ \A d \in Docs : DocOk(docs'[d], txns') /\ DocOk(stash'[d], txns')
QueuePart(r) ==
    /\ queue' \in [Runners -> [Docs -> Seq(Tokens)]] /\ \A q \in Runners \ {r} : queue'[q] = queue[q]
    /\ \A d \in Docs : TokensOk(queue'[r][d], txns')
SeenPart(r) ==
    /\ seen' \in [Runners -> [Txns -> TxnRecs]] /\ \A q \in Runners \ {r} : seen'[q] = seen[q]
    /\ SeenOk(seen'[r], txns')
LogPart == log' \in [Docs -> Seq(Txns)] /\ LogOk(txns', log')
EndPart == faults' \in Nat /\ outcome' \in [Runners -> {"ok", "lost", "panic"}]

(* A step that writes no record leaves the records right.                  *)
LEMMA TxnSame == IInv /\ UNCHANGED <<work, txns, nonces>> => TxnPart
<1> SUFFICES ASSUME IInv, UNCHANGED <<work, txns, nonces>> PROVE TxnPart
  OBVIOUS
<1>1. txns \in [Txns -> TxnRecs] /\ nonces \in [Txns -> Nat] /\ \A x \in Txns : TxnOk(x, txns, nonces, ops)
  BY DEF IInv, TypeInv
<1>2. Forward(txns, txns)
  BY <1>1, ExtendsSelf DEF Forward
<1> QED BY <1>1, <1>2 DEF TxnPart

(* Documents and stashes that are not written are right after any step on  *)
(* records.                                                                *)
LEMMA DocSame == IInv /\ TxnPart /\ UNCHANGED <<docs, stash>> => DocPart
BY DocForward DEF IInv, TypeInv, TxnPart, DocPart

(* So are the queues a runner has read,                                    *)
LEMMA QueueSame == ASSUME NEW r \in Runners PROVE IInv /\ TxnPart /\ UNCHANGED queue => QueuePart(r)
BY TokensForward DEF IInv, TypeInv, TxnPart, QueuePart

(* the records it has seen,                                                *)
LEMMA SeenSame == ASSUME NEW r \in Runners PROVE IInv /\ TxnPart /\ UNCHANGED seen => SeenPart(r)
<1> SUFFICES ASSUME IInv, TxnPart, UNCHANGED seen PROVE SeenPart(r)
  OBVIOUS
<1>1. seen \in [Runners -> [Txns -> TxnRecs]] /\ SeenOk(seen[r], txns)
  BY DEF IInv, TypeInv
<1>2. seen[r] \in [Txns -> TxnRecs] /\ txns \in [Txns -> TxnRecs] /\ txns' \in [Txns -> TxnRecs] /\ Forward(txns, txns')
  BY <1>1 DEF IInv, TypeInv, TxnPart
<1>3. SeenOk(seen[r], txns')
  BY <1>1, <1>2, SeenForward
<1> QED BY <1>1, <1>3 DEF SeenPart

(* the writes that have been done,                                         *)
LEMMA LogSame == IInv /\ TxnPart /\ UNCHANGED log => LogPart
BY LogForward DEF IInv, TypeInv, TxnPart, LogPart

(* and how runners ended.                                                  *)
LEMMA EndSame == IInv /\ UNCHANGED <<faults, outcome>> => EndPart
BY DEF IInv, TypeInv, EndPart

(* The calls of a runner, when transactions went on or it saw more.        *)
LEMMA StackLater ==
    ASSUME IInv, TxnPart, NEW r \in Runners, SeenPart(r), \A x \in Txns : seen[r][x].id # 0 => seen'[r][x].id # 0
    PROVE  StackOk(stack[r], txns', nonces', ops, seen'[r])
<1>1. StackOk(stack[r], txns, nonces, ops, seen[r])
  BY DEF IInv
<1>2. /\ txns \in [Txns -> TxnRecs] /\ txns' \in [Txns -> TxnRecs] /\ Forward(txns, txns')
      /\ nonces \in [Txns -> Nat] /\ nonces' \in [Txns -> Nat] /\ \A x \in Txns : nonces[x] <= nonces'[x]
  BY DEF IInv, TypeInv, TxnPart
<1> QED BY <1>1, <1>2, StackForward

(* A step keeps the invariant and takes transactions forward.              *)
GoodStep == IInv' /\ Forward(txns, txns')

(* A step of a runner whose parts are all right is right.                  *)
LEMMA StepKeeps ==
    ASSUME IInv, TxnPart, DocPart, LogPart, EndPart, NEW r \in Runners, QueuePart(r), SeenPart(r),
           NEW st, stack' = [stack EXCEPT ![r] = st], StackOk(st, txns', nonces', ops, seen'[r])
    PROVE  GoodStep
<1>1. ops' = ops
  BY DEF TxnPart, ops
<1>2. /\ txns \in [Txns -> TxnRecs] /\ txns' \in [Txns -> TxnRecs] /\ Forward(txns, txns')
      /\ nonces \in [Txns -> Nat] /\ nonces' \in [Txns -> Nat] /\ \A x \in Txns : nonces[x] <= nonces'[x]
  BY DEF IInv, TypeInv, TxnPart
<1>3. stack \in [Runners -> Seq(Frames)] /\ st \in Seq(Frames)
  BY DEF IInv, TypeInv, StackOk
<1>4. ASSUME NEW q \in Runners
      PROVE  /\ StackOk(stack'[q], txns', nonces', ops, seen'[q]) /\ SeenOk(seen'[q], txns')
             /\ \A d \in Docs : TokensOk(queue'[q][d], txns')
  <2>1. CASE q = r
    <3>1. stack'[q] = st
      BY <1>3, <2>1
    <3> QED BY <2>1, <3>1 DEF QueuePart, SeenPart
  <2>2. CASE q # r
    <3>1. stack'[q] = stack[q] /\ seen'[q] = seen[q] /\ queue'[q] = queue[q]
      BY <1>3, <2>2 DEF QueuePart, SeenPart
    <3>2. StackOk(stack[q], txns, nonces, ops, seen[q]) /\ SeenOk(seen[q], txns)
      BY DEF IInv
    <3>3. StackOk(stack[q], txns', nonces', ops, seen[q])
      BY <1>2, <3>2, StackForward
    <3>4. seen[q] \in [Txns -> TxnRecs]
      BY DEF IInv, TypeInv
    <3>5. SeenOk(seen[q], txns')
      BY <1>2, <3>2, <3>4, SeenForward
    <3>6. \A d \in Docs : TokensOk(queue[q][d], txns')
      BY <1>2, TokensForward DEF IInv
    <3> QED BY <3>1, <3>3, <3>5, <3>6
  <2> QED BY <2>1, <2>2
<1>5. stack' \in [Runners -> Seq(Frames)]
  BY <1>3
<1>6. TypeInv'
  BY <1>2, <1>5 DEF IInv, TypeInv, TxnPart, DocPart, LogPart, EndPart, QueuePart, SeenPart
<1>7. \A x \in Txns : TxnOk(x, txns', nonces', ops')
  BY <1>1 DEF TxnPart
<1>8. \A d \in Docs : DocOk(docs'[d], txns') /\ DocOk(stash'[d], txns')
  BY DEF DocPart
<1>9. LogOk(txns', log')
  BY DEF LogPart
<1>10. IInv'
  BY <1>1, <1>4, <1>6, <1>7, <1>8, <1>9 DEF IInv
<1> QED BY <1>2, <1>10 DEF GoodStep

-----------------------------------------------------------------------------
(* The call of advance at the top of a stack.                              *)

(* The places of advance, named one by one, are no places of run or        *)
(* recurse.                                                                *)
LEMMA PcFacts ==
    /\ AdvancePcs = {"advance"} \cup OnDoc \cup {"setPrepared", "reloadPrepared"} \cup Rescanning \cup Asserting \cup Aborting
                      \cup Inserting \cup {"applyUpdate", "removeStash", "removeMark", "removeCopy", "removeDoc", "setApplied"}
    /\ \A pc \in AdvancePcs : pc \notin {"run", "order", "recurse"}
BY DEF AdvancePcs, Preparing, Rescanning, Asserting, Aborting, Applying, Writing, Inserting, OnDoc

(* A call at a place of advance is a call of advance.                      *)
LEMMA AdvanceIs ==
    ASSUME NEW f \in Frames, f.pc \in AdvancePcs
    PROVE  f \in AdvanceFrames
BY PcFacts DEF Frames, RunFrames, RecurseFrames

(* What the invariant says of the call a runner is in, when that is one of *)
(* advance.                                                                *)
LEMMA TopIs ==
    ASSUME IInv, NEW r \in Runners, NEW pc \in AdvancePcs, At(r, pc)
    PROVE  /\ stack[r] # <<>> /\ Top(r).pc = pc
           /\ Top(r) \in AdvanceFrames /\ AdvanceOk(Top(r), txns, nonces, ops)
<1>1. StackOk(stack[r], txns, nonces, ops, seen[r]) /\ stack[r] # <<>> /\ Top(r).pc = pc
  BY DEF IInv, At
<1>2. Top(r) \in Frames /\ FrameOk(Top(r), txns, nonces, ops, seen[r])
  BY <1>1, FrontFacts DEF Top
<1> QED BY <1>1, <1>2, AdvanceIs DEF FrameOk

(* A call of advance that is right is a call that is right.                *)
LEMMA AdvanceFrameOk ==
    ASSUME NEW f \in AdvanceFrames, NEW T, NEW N, NEW O, NEW S, AdvanceOk(f, T, N, O)
    PROVE  f \in Frames /\ FrameOk(f, T, N, O, S) /\ f.pc \in AdvancePcs
<1>1. f \in Frames /\ f.pc \in AdvancePcs
  BY DEF Frames, AdvanceFrames
<1>2. f.pc \notin {"run", "order", "recurse"}
  BY <1>1, PcFacts
<1> QED BY <1>1, <1>2 DEF FrameOk

(* All parts of a step that moves a runner on within one call.             *)
Parts(r) ==
    /\ TxnPart /\ DocPart /\ LogPart /\ EndPart /\ QueuePart(r) /\ SeenPart(r)
    /\ \A x \in Txns : seen[r][x].id # 0 => seen'[r][x].id # 0

(* A step that moves the call of advance on keeps the invariant, when the  *)
(* call is right where it arrives.                                         *)
LEMMA SetTopKeeps ==
    ASSUME IInv, NEW r \in Runners, Parts(r), stack[r] # <<>>, Top(r).pc \in AdvancePcs,
           NEW g \in AdvanceFrames, AdvanceOk(g, txns', nonces', ops), SetTop(r, g)
    PROVE  GoodStep
<1>1. StackOk(stack[r], txns', nonces', ops, seen'[r])
  BY StackLater DEF Parts
<1>2. g \in Frames /\ FrameOk(g, txns', nonces', ops, seen'[r]) /\ g.pc \notin {"run", "order"}
  BY AdvanceFrameOk, PcFacts
<1>3. Last(stack[r]).pc \notin {"run", "order"}
  BY PcFacts DEF Top
<1>4. StackOk(Append(Front(stack[r]), g), txns', nonces', ops, seen'[r])
  BY <1>1, <1>2, <1>3, TopFacts
<1>5. stack \in [Runners -> Seq(Frames)]
  BY DEF IInv, TypeInv
<1>6. stack' = [stack EXCEPT ![r] = Append(Front(stack[r]), g)]
  BY <1>5 DEF SetTop
<1> QED BY <1>4, <1>6, StepKeeps DEF Parts

(* So does one that calls advance for another transaction.                 *)
LEMMA CallKeeps ==
    ASSUME IInv, NEW r \in Runners, Parts(r), stack[r] # <<>>, Top(r).pc \in AdvancePcs,
           NEW g \in AdvanceFrames, AdvanceOk(g, txns', nonces', ops),
           NEW c \in AdvanceFrames, AdvanceOk(c, txns', nonces', ops), Call(r, g, c)
    PROVE  GoodStep
<1>1. StackOk(stack[r], txns', nonces', ops, seen'[r])
  BY StackLater DEF Parts
<1>2. /\ g \in Frames /\ FrameOk(g, txns', nonces', ops, seen'[r]) /\ g.pc \notin {"run", "order"}
      /\ c \in Frames /\ FrameOk(c, txns', nonces', ops, seen'[r]) /\ c.pc \notin {"run", "order"}
  BY AdvanceFrameOk, PcFacts
<1>3. Last(stack[r]).pc \notin {"run", "order"}
  BY PcFacts DEF Top
<1>4. StackOk(Append(Front(stack[r]), g), txns', nonces', ops, seen'[r]) /\ Append(Front(stack[r]), g) # <<>>
  BY <1>1, <1>2, <1>3, TopFacts
<1>5. StackOk(Append(Append(Front(stack[r]), g), c), txns', nonces', ops, seen'[r])
  BY <1>2, <1>4, AppendFacts
<1>6. stack \in [Runners -> Seq(Frames)]
  BY DEF IInv, TypeInv
<1>7. stack' = [stack EXCEPT ![r] = Append(Append(Front(stack[r]), g), c)]
  BY <1>6 DEF Call
<1> QED BY <1>5, <1>7, StepKeeps DEF Parts

(* A new call of advance on a copy of a transaction.                       *)
LEMMA AdvanceFrameFacts ==
    ASSUME NEW T, NEW N, NEW O, NEW t \in TxnRecs, Backed(t, T), NEW pull \in SUBSET Nat, NEW force \in BOOLEAN
    PROVE  /\ AdvanceFrame(t, pull, force) \in AdvanceFrames
           /\ AdvanceOk(AdvanceFrame(t, pull, force), T, N, O)
           /\ AdvanceFrame(t, pull, force).t = t
           /\ AdvanceFrame(t, pull, force).copy = <<>>
<1> DEFINE f == AdvanceFrame(t, pull, force)
<1>1. f = [pc |-> "advance", t |-> t, pull |-> pull, force |-> force, i |-> 0, retry |-> 0, tt |-> <<0, 0>>,
           revno |-> [d \in Docs |-> 0], revnos |-> <<>>, nonce |-> 0, copy |-> <<>>]
  <2> DEFINE none == <<>>
             zero == <<0, 0>>
             start == [d \in Docs |-> 0]
             e == [pc |-> "advance", t |-> NoTxn, pull |-> {}, force |-> FALSE, i |-> 0, retry |-> 0,
                   tt |-> zero, revno |-> start, revnos |-> none, nonce |-> 0, copy |-> none]
  <2>1. f = [e EXCEPT !.t = t, !.pull = pull, !.force = force]
    BY Zenon DEF AdvanceFrame, EmptyFrame
  <2> HIDE DEF none, zero, start, f
  <2>2. f = [pc |-> "advance", t |-> t, pull |-> pull, force |-> force, i |-> 0, retry |-> 0, tt |-> zero,
             revno |-> start, revnos |-> none, nonce |-> 0, copy |-> none]
    BY <2>1
  <2> QED BY <2>2 DEF none, zero, start
<1>2. "advance" \in AdvancePcs /\ <<0, 0>> \in Nat \X Nat /\ [d \in Docs |-> 0] \in [Docs -> Int]
  BY PcFacts
<1>3. <<>> \in Seq(Int) /\ <<>> \in Seq(Tokens)
  OBVIOUS
<1>4. f \in AdvanceFrames /\ f.pc = "advance" /\ f.t = t /\ f.copy = <<>>
  BY <1>1, <1>2, <1>3 DEF AdvanceFrames
<1>5. TokensOk(f.copy, T)
  BY <1>4 DEF TokensOk
<1> HIDE DEF f
<1>6. AdvanceOk(f, T, N, O)
  BY <1>4, <1>5 DEF AdvanceOk, Preparing, Rescanning, Asserting, Aborting, Applying, Writing, Inserting, OnDoc
<1> QED BY <1>4, <1>6 DEF f

(* A transaction that was started may be loaded.                           *)
LEMMA LoadFacts ==
    ASSUME IInv, NEW x, Started(x, txns)
    PROVE  x \in Txns /\ txns[x] \in TxnRecs /\ txns[x].id = x /\ Backed(txns[x], txns)
<1>1. x \in Txns /\ txns[x] \in TxnRecs /\ TxnOk(x, txns, nonces, ops) /\ txns[x].s # "none"
  BY DEF IInv, TypeInv, Started
<1>2. txns[x].id = x
  BY <1>1 DEF TxnOk
<1>3. Extends(txns[x], txns[x])
  BY <1>1, ExtendsSelf
<1> QED BY <1>1, <1>2, <1>3 DEF Backed

-----------------------------------------------------------------------------
(* What a step leaves alone.                                               *)

(* What a runner knows, when it reads nothing.                             *)
LEMMA KnownSame ==
    ASSUME IInv, NEW r \in Runners, TxnPart, UNCHANGED <<queue, seen, faults, outcome>>
    PROVE  QueuePart(r) /\ SeenPart(r) /\ EndPart /\ \A x \in Txns : seen[r][x].id # 0 => seen'[r][x].id # 0
BY QueueSame, SeenSame, EndSame

(* A step that only moves the runner on.                                   *)
LEMMA PartsSame ==
    ASSUME IInv, NEW r \in Runners,
           UNCHANGED <<work, txns, docs, stash, queue, seen, nonces, faults, outcome, log>>
    PROVE  Parts(r)
BY TxnSame, DocSame, LogSame, KnownSame DEF Parts

(* A step that reads or writes documents or stashes.                       *)
LEMMA PartsDoc ==
    ASSUME IInv, NEW r \in Runners, UNCHANGED <<work, txns, queue, seen, nonces, faults, outcome, log>>, DocPart
    PROVE  Parts(r)
BY TxnSame, LogSame, KnownSame DEF Parts

(* A step that writes a document for a transaction.                        *)
LEMMA PartsWrite ==
    ASSUME IInv, NEW r \in Runners, UNCHANGED <<work, txns, queue, seen, nonces, faults, outcome>>, DocPart, LogPart
    PROVE  Parts(r)
BY TxnSame, KnownSame DEF Parts

(* A step that changes the record of a transaction.                        *)
LEMMA PartsTxn ==
    ASSUME IInv, NEW r \in Runners, UNCHANGED <<docs, stash, queue, seen, faults, outcome, log>>, TxnPart
    PROVE  Parts(r)
BY DocSame, LogSame, KnownSame DEF Parts

-----------------------------------------------------------------------------
(* Queues of tokens.                                                       *)

(* addToSet adds a token of a transaction that was started.                *)
LEMMA AddFacts ==
    ASSUME NEW T, NEW q \in Seq(Tokens), TokensOk(q, T), NEW tt \in Tokens, Started(tt[1], T)
    PROVE  addToSet(q, tt) \in Seq(Tokens) /\ TokensOk(addToSet(q, tt), T)
<1>1. CASE hasToken(q, tt)
  BY <1>1 DEF addToSet
<1>2. CASE ~hasToken(q, tt)
  <2> HIDE DEF Tokens
  <2>1. addToSet(q, tt) = Append(q, tt)
    BY <1>2 DEF addToSet
  <2>2. Append(q, tt) \in Seq(Tokens) /\ Len(Append(q, tt)) = Len(q) + 1 /\ Len(q) \in Nat
    OBVIOUS
  <2>3. /\ \A k \in 1..Len(q) : Append(q, tt)[k] = q[k]
        /\ Append(q, tt)[Len(q) + 1] = tt
    OBVIOUS
  <2>4. ASSUME NEW k \in DOMAIN Append(q, tt) PROVE Started(Append(q, tt)[k][1], T)
    <3>1. CASE k = Len(q) + 1
      BY <2>3, <3>1
    <3>2. CASE k # Len(q) + 1
      <4>1. k \in 1..Len(q) /\ k \in DOMAIN q
        BY <2>2, <3>2
      <4> QED BY <2>3, <4>1 DEF TokensOk
    <3> QED BY <3>1, <3>2
  <2> QED BY <2>1, <2>2, <2>4 DEF TokensOk
<1> QED BY <1>1, <1>2

(* pullAll leaves tokens that were there.                                  *)
LEMMA PullFacts ==
    ASSUME NEW T, NEW q \in Seq(Tokens), TokensOk(q, T), NEW gone
    PROVE  pullAll(q, gone) \in Seq(Tokens) /\ TokensOk(pullAll(q, gone), T)
<1> DEFINE S == ToSet(q) \ gone
           K == {x \in Range(q) : x \in S}
           p == pullAll(q, gone)
<1>1. p \in Seq(K)
  BY KeepFacts DEF pullAll
<1>2. \A x \in K : x \in Tokens /\ Started(x[1], T)
  BY DEF TokensOk, Range
<1> HIDE DEF K, p
<1>3. \A k \in DOMAIN p : p[k] \in K
  BY <1>1
<1>4. p \in Seq(Tokens)
  BY <1>1, <1>2
<1> QED BY <1>2, <1>3, <1>4 DEF p, TokensOk

-----------------------------------------------------------------------------
(* The places of advance.                                                  *)

(* A copy of a transaction in a call of advance.                           *)
LEMMA CopyFacts ==
    ASSUME IInv, NEW f \in AdvanceFrames, AdvanceOk(f, txns, nonces, ops)
    PROVE  /\ f.t \in TxnRecs /\ Backed(f.t, txns) /\ f.t.id \in Txns /\ f.t.id \in Nat /\ f.t.id # 0
           /\ txns[f.t.id] \in TxnRecs /\ txns[f.t.id].id = f.t.id /\ Started(f.t.id, txns)
           /\ Backed(txns[f.t.id], txns) /\ f.t.s # "none" /\ Extends(f.t, txns[f.t.id])
           /\ f.pull \in SUBSET Nat /\ f.force \in BOOLEAN
<1>1. f.t \in TxnRecs /\ f.pull \in SUBSET Nat /\ f.force \in BOOLEAN
  BY DEF AdvanceFrames
<1>2. Backed(f.t, txns)
  BY DEF AdvanceOk
<1>3. f.t.id \in Txns /\ f.t.s # "none" /\ Extends(f.t, txns[f.t.id]) /\ txns \in [Txns -> TxnRecs]
  BY <1>2 DEF Backed, IInv, TypeInv
<1>4. txns[f.t.id].s # "none"
  BY <1>1, <1>3 DEF Extends, Onward, TxnRecs, States
<1>5. Started(f.t.id, txns)
  BY <1>3, <1>4 DEF Started
<1>6. f.t.id \in Nat /\ f.t.id # 0
  BY <1>3, TxnsAssumption
<1> QED BY <1>1, <1>2, <1>3, <1>5, <1>6, LoadFacts

(* A call starts over with a copy of the transaction.                      *)
LEMMA AgainFacts ==
    ASSUME NEW T, NEW N, NEW O, NEW f \in AdvanceFrames, NEW t \in TxnRecs, Backed(t, T)
    PROVE  /\ Again(f, t) \in AdvanceFrames /\ AdvanceOk(Again(f, t), T, N, O)
           /\ Again(f, t).t = t /\ Again(f, t).copy = <<>>
<1>1. f.pull \in SUBSET Nat /\ f.force \in BOOLEAN
  BY DEF AdvanceFrames
<1> QED BY <1>1, AdvanceFrameFacts DEF Again

(* Another transaction is loaded and applied first.                        *)
LEMMA LoadApplyFacts ==
    ASSUME IInv, NEW x, Started(x, txns)
    PROVE  loadAndApply(x) \in AdvanceFrames /\ AdvanceOk(loadAndApply(x), txns, nonces, ops)
<1>1. x \in Txns /\ txns[x] \in TxnRecs /\ Backed(txns[x], txns)
  BY LoadFacts
<1>2. {x} \in SUBSET Nat
  BY <1>1, TxnsAssumption
<1> QED BY <1>1, <1>2, AdvanceFrameFacts DEF loadAndApply

(* The next operation that needs the database, of an assertion.            *)
LEMMA AssertFromFacts ==
    ASSUME NEW T, NEW N, NEW f \in AdvanceFrames, Backed(f.t, T), f.t.s = "prepared", TypeInv,
           Len(f.revnos) = Len(ops[f.t.id]), NEW j \in Nat, j >= 1
    PROVE  AssertFrom(f, j) \in AdvanceFrames /\ AdvanceOk(AssertFrom(f, j), T, N, ops)
<1> DEFINE o == ops[f.t.id]
           S == {i \in j..Len(o) : \/ o[i].assert = "exists"
                                   \/ o[i].assert = "missing" /\ f.revnos[i] >= 0}
           k == FirstOf(S)
           a == Again(f, f.t)
           next == [a EXCEPT !.revnos = f.revnos]
           g == AssertFrom(f, j)
<1>0. f.t.id \in Txns /\ f.t \in TxnRecs /\ f.revnos \in Seq(Int)
  BY DEF Backed, AdvanceFrames
<1>1. Len(o) \in Nat
  BY <1>0, OpsFacts DEF OpsOk
<1>2. k = 0 \/ k \in 1..Len(o)
  <2>1. S \subseteq Nat
    BY <1>1
  <2> HIDE DEF S
  <2>2. k = 0 \/ k \in S
    BY <2>1, FirstOfFacts
  <2> HIDE DEF k
  <2>3. k \in S => k \in j..Len(o)
    BY DEF S
  <2> QED BY <1>1, <2>2, <2>3
<1>3. a \in AdvanceFrames /\ a.t = f.t /\ a.copy = <<>>
  BY <1>0, AgainFacts
<1>4. g = IF k = 0 THEN [next EXCEPT !.pc = "setApplying"]
          ELSE [next EXCEPT !.pc = IF o[k].assert = "exists" THEN "assertDoc" ELSE "setAborting", !.i = k]
  BY DEF AssertFrom
<1> HIDE DEF a, k, o, g
<1>5. next \in AdvanceFrames /\ next.t = f.t /\ next.copy = <<>> /\ next.revnos = f.revnos
  BY <1>0, <1>3 DEF AdvanceFrames
<1> HIDE DEF next
<1>6. "setApplying" \in AdvancePcs /\ "assertDoc" \in AdvancePcs /\ "setAborting" \in AdvancePcs
  BY PcFacts DEF Asserting
<1>7. /\ g \in AdvanceFrames /\ g.t = f.t /\ g.copy = <<>> /\ g.revnos = f.revnos
      /\ \/ g.pc = "setApplying"
         \/ g.pc \in {"assertDoc", "setAborting"} /\ g.i \in 1..Len(o)
  <2>1. CASE k = 0
    <3>1. g = [next EXCEPT !.pc = "setApplying"]
      BY <1>4, <2>1
    <3> QED BY <1>5, <1>6, <3>1 DEF AdvanceFrames
  <2>2. CASE k # 0
    <3>1. PICK p \in {"assertDoc", "setAborting"} : g = [next EXCEPT !.pc = p, !.i = k]
      BY <1>4, <2>2
    <3>2. k \in 1..Len(o) /\ k \in Nat /\ p \in AdvancePcs
      BY <1>1, <1>2, <1>6, <2>2
    <3> QED BY <1>5, <3>1, <3>2 DEF AdvanceFrames
  <2> QED BY <2>1, <2>2
<1>8. TokensOk(g.copy, T)
  BY <1>7 DEF TokensOk
<1> QED BY <1>7, <1>8 DEF g, o, AdvanceOk, Preparing, Rescanning, Asserting, Aborting, Applying, Writing, Inserting, OnDoc

(* The next operation that needs the database, of an application.          *)
LEMMA ApplyFromFacts ==
    ASSUME NEW T, NEW N, NEW f \in AdvanceFrames, Backed(f.t, T), f.t.s = "applying", TypeInv,
           TxnOk(f.t.id, T, N, ops), T[f.t.id] \in TxnRecs, NEW j \in Nat, j >= 1
    PROVE  ApplyFrom(f, j) \in AdvanceFrames /\ AdvanceOk(ApplyFrom(f, j), T, N, ops)
<1> DEFINE o == ops[f.t.id]
           S == {i \in j..Len(o) : NextRevno(o[i], f.t.r[i]) # f.t.r[i]}
           k == FirstOf(S)
           a == Again(f, f.t)
           g == ApplyFrom(f, j)
<1>0. f.t.id \in Txns /\ f.t \in TxnRecs
  BY DEF Backed, AdvanceFrames
<1>1. Len(o) \in Nat /\ \A i \in 1..Len(o) : o[i] \in OpRecords
  <2>1. o \in Seq(OpRecords)
    BY <1>0, OpsFacts DEF OpsOk
  <2> QED BY <2>1
<1>2. Len(f.t.r) = Len(o) /\ f.t.r \in Seq(Int)
  <2>1. T[f.t.id].s \in {"applying", "applied"} /\ T[f.t.id].r = f.t.r
    BY DEF Backed, Extends, Onward
  <2> QED BY <1>0, <2>1 DEF TxnOk, TxnRecs
<1>3. k = 0 \/ (k \in 1..Len(o) /\ NextRevno(o[k], f.t.r[k]) # f.t.r[k])
  <2>1. S \subseteq Nat
    BY <1>1
  <2> HIDE DEF S
  <2>2. k = 0 \/ k \in S
    BY <2>1, FirstOfFacts
  <2> HIDE DEF k
  <2>3. k \in S => k \in j..Len(o) /\ NextRevno(o[k], f.t.r[k]) # f.t.r[k]
    BY DEF S
  <2>4. k \in j..Len(o) => k \in 1..Len(o)
    BY <1>1
  <2> QED BY <2>2, <2>3, <2>4
<1>4. a \in AdvanceFrames /\ a.t = f.t /\ a.copy = <<>>
  BY <1>0, AgainFacts
<1>5. g = IF k = 0 THEN [a EXCEPT !.pc = "setApplied"]
          ELSE [a EXCEPT !.i = k,
                         !.pc = CASE o[k].kind = "update" -> "applyUpdate"
                                  [] o[k].kind = "remove" -> "removeStash"
                                  [] o[k].kind = "insert" -> "insertMark"]
  BY DEF ApplyFrom
<1> HIDE DEF a, k, o, g
<1>6. k # 0 => /\ o[k].kind \in {"update", "remove", "insert"}
               /\ o[k].kind = "insert" => f.t.r[k] < 0
  <2> SUFFICES ASSUME k \in 1..Len(o), NextRevno(o[k], f.t.r[k]) # f.t.r[k]
               PROVE  /\ o[k].kind \in {"update", "remove", "insert"}
                      /\ o[k].kind = "insert" => f.t.r[k] < 0
    BY <1>3
  <2>1. o[k] \in OpRecords
    BY <1>1
  <2>2. f.t.r[k] \in Int
    BY <1>2
  <2> QED BY <2>1, <2>2, NextRevnoFacts
<1>7. {"setApplied", "applyUpdate", "removeStash", "insertMark"} \subseteq AdvancePcs
  BY PcFacts DEF Inserting
<1>8. /\ g \in AdvanceFrames /\ g.t = f.t /\ g.copy = <<>>
      /\ \/ g.pc = "setApplied"
         \/ /\ g.pc \in {"applyUpdate", "removeStash", "insertMark"} /\ g.i = k /\ k \in 1..Len(o)
            /\ g.pc = "insertMark" => f.t.r[k] < 0
  <2>1. CASE k = 0
    <3>1. g = [a EXCEPT !.pc = "setApplied"]
      BY <1>5, <2>1
    <3> QED BY <1>4, <1>7, <3>1 DEF AdvanceFrames
  <2>2. CASE k # 0
    <3>1. PICK p \in {"applyUpdate", "removeStash", "insertMark"} :
            g = [a EXCEPT !.i = k, !.pc = p] /\ (p = "insertMark" => o[k].kind = "insert")
      BY <1>5, <1>6, <2>2
    <3>2. k \in 1..Len(o) /\ k \in Nat /\ p \in AdvancePcs /\ (p = "insertMark" => f.t.r[k] < 0)
      BY <1>1, <1>3, <1>6, <1>7, <2>2, <3>1
    <3>3. g \in AdvanceFrames /\ g.t = a.t /\ g.copy = a.copy /\ g.pc = p /\ g.i = k
      BY <1>4, <3>1, <3>2 DEF AdvanceFrames
    <3> QED BY <1>4, <3>2, <3>3
  <2> QED BY <2>1, <2>2
<1>9. TokensOk(g.copy, T)
  BY <1>8 DEF TokensOk
<1> QED BY <1>8, <1>9 DEF g, o, AdvanceOk, Preparing, Rescanning, Asserting, Aborting, Applying, Writing, Inserting, OnDoc

(* The next document whose tokens an abort takes away.                     *)
LEMMA PullFromFacts ==
    ASSUME NEW T, NEW N, NEW r, NEW f \in AdvanceFrames, Backed(f.t, T), f.t.s = "aborting", TokensOk(f.copy, T), TypeInv,
           NEW j \in Nat, j >= 1
    PROVE  PullFrom(r, f, j) \in AdvanceFrames /\ AdvanceOk(PullFrom(r, f, j), T, N, ops)
<1> DEFINE o == ops[f.t.id]
           S == {i \in j..Len(ops[f.t.id]) : /\ FirstOpOn(f.t.id, ops[f.t.id][i].doc) = i
                                             /\ AbortPulls(r, f, i) # {}}
           k == FirstOf(S)
           g == PullFrom(r, f, j)
<1>0. f.t.id \in Txns
  BY DEF Backed
<1>1. Len(o) \in Nat
  BY <1>0, OpsFacts DEF OpsOk
<1>2. k = 0 \/ k \in 1..Len(o)
  <2>1. S \subseteq Nat
    BY <1>1
  <2> HIDE DEF S
  <2>2. k = 0 \/ k \in S
    BY <2>1, FirstOfFacts
  <2> HIDE DEF k
  <2>3. k \in S => k \in j..Len(o)
    BY DEF S
  <2> QED BY <1>1, <2>2, <2>3
<1>3. g = [f EXCEPT !.pc = IF k = 0 THEN "setAborted" ELSE "pullTokens", !.i = k]
  BY DEF PullFrom
<1> HIDE DEF k, o, g
<1>4. PICK p \in Aborting : g = [f EXCEPT !.pc = p, !.i = k] /\ (p = "pullTokens" => k # 0)
  BY <1>3 DEF Aborting
<1>5. p \in AdvancePcs /\ k \in Nat /\ (p = "pullTokens" => k \in 1..Len(o))
  BY <1>1, <1>2, <1>4, PcFacts
<1>6. g \in AdvanceFrames /\ g.t = f.t /\ g.copy = f.copy /\ g.pc = p /\ g.i = k
  BY <1>4, <1>5 DEF AdvanceFrames
<1> QED BY <1>5, <1>6 DEF g, o, AdvanceOk, Preparing, Rescanning, Asserting, Aborting, Applying, Writing, Inserting, OnDoc

-----------------------------------------------------------------------------
(* advance returns.                                                        *)

(* recurse is asked for the pre-requisites; run has no use for them.       *)
LEMMA CallerFacts ==
    ASSUME NEW T, NEW N, NEW O, NEW S, NEW c \in Frames, FrameOk(c, T, N, O, S), ~InAdvance(c), NEW has \in BOOLEAN
    PROVE  LET d == IF has THEN [c EXCEPT !.i = 0] ELSE c
           IN  d \in Frames /\ FrameOk(d, T, N, O, S) /\ d.pc = c.pc
<1> DEFINE d == [c EXCEPT !.i = 0]
<1>1. CASE c.pc = "recurse"
  <2>1. c \in RecurseFrames
    BY <1>1, PcFacts DEF Frames, RunFrames, AdvanceFrames
  <2>2. d \in RecurseFrames /\ d.pc = c.pc /\ d.id = c.id /\ d.todo = c.todo
    BY <2>1 DEF RecurseFrames
  <2> HIDE DEF d
  <2>3. c.pc \notin AdvancePcs /\ c.pc \notin {"run", "order"}
    BY <1>1, PcFacts
  <2>4. d \in Frames /\ FrameOk(d, T, N, O, S)
    BY <1>1, <2>2, <2>3 DEF FrameOk, Frames
  <2> QED BY <2>2, <2>4 DEF d
<1>2. CASE c.pc # "recurse"
  <2>1. c \in RunFrames
    BY <1>2, PcFacts DEF Frames, RecurseFrames, AdvanceFrames, InAdvance
  <2>2. d = c
    BY <2>1 DEF RunFrames
  <2> QED BY <2>2
<1> QED BY <1>1, <1>2

(* A runner takes over a copy of a transaction.                            *)
LEMMA SeenRead ==
    ASSUME IInv, NEW r \in Runners, TxnPart, NEW t \in TxnRecs, Backed(t, txns'), seen' = [seen EXCEPT ![r][t.id] = t]
    PROVE  SeenPart(r) /\ \A x \in Txns : seen[r][x].id # 0 => seen'[r][x].id # 0
<1> DEFINE S == [seen[r] EXCEPT ![t.id] = t]
<1>0. /\ seen \in [Runners -> [Txns -> TxnRecs]] /\ SeenOk(seen[r], txns) /\ seen[r] \in [Txns -> TxnRecs]
      /\ txns \in [Txns -> TxnRecs] /\ txns' \in [Txns -> TxnRecs] /\ Forward(txns, txns')
  BY DEF IInv, TypeInv, TxnPart
<1>1. t.id \in Txns /\ t.id # 0
  BY TxnsAssumption DEF Backed
<1>2. S \in [Txns -> TxnRecs] /\ seen' = [seen EXCEPT ![r] = S]
  BY <1>0, <1>1
<1>3. \A x \in Txns : S[x] = IF x = t.id THEN t ELSE seen[r][x]
  BY <1>0, <1>1
<1>4. SeenOk(seen[r], txns')
  BY <1>0, SeenForward
<1> HIDE DEF S
<1>5. SeenOk(S, txns')
  BY <1>3, <1>4 DEF SeenOk
<1>6. seen' \in [Runners -> [Txns -> TxnRecs]] /\ seen'[r] = S /\ \A q \in Runners \ {r} : seen'[q] = seen[q]
  BY <1>0, <1>2
<1> QED BY <1>1, <1>3, <1>5, <1>6 DEF SeenPart

(* A return from advance, with its record and its answer, keeps the        *)
(* invariant.                                                              *)
LEMMA ReturnKeeps ==
    ASSUME IInv, NEW r \in Runners, TxnPart, DocPart, LogPart, EndPart, QueuePart(r),
           stack[r] # <<>>, Top(r).pc \in AdvancePcs,
           NEW f, f.t \in TxnRecs, Backed(f.t, txns'), NEW has \in BOOLEAN, Return(r, f, has)
    PROVE  GoodStep
<1> DEFINE rest == Front(stack[r])
           caller == Last(rest)
           t == f.t
<1>1. Last(stack[r]).pc \notin {"run", "order"}
  BY PcFacts DEF Top
<1>2. CASE InAdvance(caller)
  <2>1. stack' = [stack EXCEPT ![r] = rest] /\ UNCHANGED seen
    BY <1>2 DEF Return
  <2>2. SeenPart(r)
    BY <2>1, SeenSame
  <2>3. \A x \in Txns : seen[r][x].id # 0 => seen'[r][x].id # 0
    BY <2>1
  <2>4. StackOk(stack[r], txns', nonces', ops, seen'[r])
    BY <2>2, <2>3, StackLater
  <2>5. StackOk(rest, txns', nonces', ops, seen'[r])
    BY <2>4, FrontFacts
  <2> HIDE DEF rest
  <2> QED BY <2>1, <2>2, <2>5, StepKeeps
<1>3. CASE ~InAdvance(caller)
  <2> DEFINE back == IF has THEN [caller EXCEPT !.i = 0] ELSE caller
  <2>1. stack' = [stack EXCEPT ![r] = Append(Front(rest), back)] /\ seen' = [seen EXCEPT ![r][t.id] = t]
    BY <1>3 DEF Return
  <2>2. SeenPart(r) /\ \A x \in Txns : seen[r][x].id # 0 => seen'[r][x].id # 0
    BY <2>1, SeenRead
  <2>3. StackOk(stack[r], txns', nonces', ops, seen'[r])
    BY <2>2, StackLater
  <2>4. StackOk(rest, txns', nonces', ops, seen'[r]) /\ rest # <<>>
    BY <1>1, <2>3, FrontFacts
  <2>5. caller \in Frames /\ FrameOk(caller, txns', nonces', ops, seen'[r])
    BY <2>4, FrontFacts
  <2> HIDE DEF rest, caller
  <2>6. back \in Frames /\ FrameOk(back, txns', nonces', ops, seen'[r]) /\ back.pc = caller.pc
    BY <1>3, <2>5, CallerFacts
  <2> HIDE DEF back
  <2>7. StackOk(Append(Front(rest), back), txns', nonces', ops, seen'[r])
    BY <2>4, <2>6, TopFacts DEF caller
  <2> QED BY <2>1, <2>2, <2>7, StepKeeps
<1> QED BY <1>2, <1>3

(* All queues of a prepared transaction are known.                         *)
LEMMA ScannedKeeps ==
    ASSUME IInv, NEW r \in Runners, TxnPart, DocPart, LogPart, EndPart, QueuePart(r), ops' = ops,
           stack[r] # <<>>, Top(r).pc \in AdvancePcs,
           NEW f \in AdvanceFrames, Backed(f.t, txns'), f.t.s = "prepared", NEW q, Scanned(r, f, q)
    PROVE  GoodStep
<1>1. f.t \in TxnRecs /\ f.t.id \in Txns /\ f.revno \in [Docs -> Int] /\ ops[f.t.id] \in Seq(OpRecords)
  BY OpsFacts DEF AdvanceFrames, Backed, IInv, OpsOk
<1>2. CASE prereqs(q, f.tt) /\ ~f.force
  <2>1. Return(r, f, TRUE)
    BY <1>2 DEF Scanned
  <2> QED BY <1>1, <2>1, ReturnKeeps
<1>3. CASE ~(prereqs(q, f.tt) /\ ~f.force)
  <2> DEFINE revnos == assembledRevnos(ops[f.t.id], f.revno)
             h == [f EXCEPT !.revnos = revnos]
             g == AssertFrom(h, 1)
  <2>1. revnos \in Seq(Int) /\ Len(revnos) = Len(ops[f.t.id])
    BY <1>1, AssembledFacts
  <2>2. SetTop(r, g) /\ UNCHANGED seen
    BY <1>3 DEF Scanned
  <2> HIDE DEF revnos
  <2>3. h \in AdvanceFrames /\ h.t = f.t /\ h.revnos = revnos
    BY <2>1 DEF AdvanceFrames
  <2> HIDE DEF h
  <2>4. g \in AdvanceFrames /\ AdvanceOk(g, txns', nonces', ops)
    BY <2>1, <2>3, AssertFromFacts DEF IInv
  <2> HIDE DEF g
  <2>5. Parts(r)
    BY <2>2, SeenSame DEF Parts
  <2> QED BY <2>2, <2>4, <2>5, SetTopKeeps
<1> QED BY <1>2, <1>3

-----------------------------------------------------------------------------
(* Writes to documents and stashes, and what a runner knows of them.       *)

(* One document written,                                                   *)
LEMMA DocWrite ==
    ASSUME IInv, TxnPart, NEW d \in Docs, NEW e \in DocRecs, DocOk(e, txns'),
           docs' = [docs EXCEPT ![d] = e], UNCHANGED stash
    PROVE  DocPart
<1>1. /\ txns \in [Txns -> TxnRecs] /\ txns' \in [Txns -> TxnRecs] /\ Forward(txns, txns')
      /\ docs \in [Docs -> DocRecs] /\ stash \in [Docs -> StashRecs]
      /\ \A x \in Docs : DocOk(docs[x], txns) /\ DocOk(stash[x], txns)
  BY DEF IInv, TypeInv, TxnPart
<1>2. \A x \in Docs : DocOk(docs[x], txns') /\ DocOk(stash[x], txns')
  BY <1>1, DocForward
<1>3. docs' \in [Docs -> DocRecs] /\ \A x \in Docs : docs'[x] = IF x = d THEN e ELSE docs[x]
  BY <1>1
<1> QED BY <1>1, <1>2, <1>3 DEF DocPart

(* and one stash.                                                          *)
LEMMA StashWrite ==
    ASSUME IInv, TxnPart, NEW d \in Docs, NEW e \in StashRecs, DocOk(e, txns'),
           stash' = [stash EXCEPT ![d] = e], UNCHANGED docs
    PROVE  DocPart
<1>1. /\ txns \in [Txns -> TxnRecs] /\ txns' \in [Txns -> TxnRecs] /\ Forward(txns, txns')
      /\ docs \in [Docs -> DocRecs] /\ stash \in [Docs -> StashRecs]
      /\ \A x \in Docs : DocOk(docs[x], txns) /\ DocOk(stash[x], txns)
  BY DEF IInv, TypeInv, TxnPart
<1>2. \A x \in Docs : DocOk(docs[x], txns') /\ DocOk(stash[x], txns')
  BY <1>1, DocForward
<1>3. stash' \in [Docs -> StashRecs] /\ \A x \in Docs : stash'[x] = IF x = d THEN e ELSE stash[x]
  BY <1>1
<1> QED BY <1>1, <1>2, <1>3 DEF DocPart

(* A document or a stash as it is.                                         *)
LEMMA DocFacts ==
    ASSUME IInv, NEW d \in Docs
    PROVE  /\ docs[d] \in DocRecs /\ stash[d] \in StashRecs
           /\ docs[d].queue \in Seq(Tokens) /\ TokensOk(docs[d].queue, txns)
           /\ stash[d].queue \in Seq(Tokens) /\ TokensOk(stash[d].queue, txns)
           /\ docs[d].mark # 0 => Started(docs[d].mark, txns)
           /\ stash[d].mark # 0 => Started(stash[d].mark, txns)
           /\ docs[d].revno \in Nat /\ docs[d].revno \in Int /\ StashRevno(stash[d]) \in Int
<1>1. docs[d] \in DocRecs /\ stash[d] \in StashRecs /\ DocOk(docs[d], txns) /\ DocOk(stash[d], txns)
  BY DEF IInv, TypeInv
<1>2. docs[d].queue \in Seq(Tokens) /\ stash[d].queue \in Seq(Tokens) /\ docs[d].revno \in Nat /\ stash[d].revno \in Int
  BY <1>1 DEF DocRecs, StashRecs
<1>3. StashRevno(stash[d]) \in Int /\ docs[d].revno \in Int
  BY <1>2 DEF StashRevno
<1> QED BY <1>1, <1>2, <1>3 DEF DocOk

(* A document whose queue was replaced.                                    *)
LEMMA DocQueueFacts ==
    ASSUME IInv, NEW d \in Docs, NEW q \in Seq(Tokens), TokensOk(q, txns)
    PROVE  [docs[d] EXCEPT !.queue = q] \in DocRecs /\ DocOk([docs[d] EXCEPT !.queue = q], txns)
<1>1. docs[d] \in DocRecs /\ DocOk(docs[d], txns)
  BY DEF IInv, TypeInv
<1>2. [docs[d] EXCEPT !.queue = q] \in DocRecs /\ [docs[d] EXCEPT !.queue = q].mark = docs[d].mark
      /\ [docs[d] EXCEPT !.queue = q].queue = q
  BY <1>1 DEF DocRecs
<1> QED BY <1>1, <1>2 DEF DocOk

(* A stash whose queue was replaced.                                       *)
LEMMA StashQueueFacts ==
    ASSUME IInv, NEW d \in Docs, NEW q \in Seq(Tokens), TokensOk(q, txns), NEW in \in BOOLEAN
    PROVE  /\ [stash[d] EXCEPT !.queue = q] \in StashRecs /\ DocOk([stash[d] EXCEPT !.queue = q], txns)
           /\ [stash[d] EXCEPT !.in = in, !.queue = q] \in StashRecs
           /\ DocOk([stash[d] EXCEPT !.in = in, !.queue = q], txns)
<1>1. stash[d] \in StashRecs /\ DocOk(stash[d], txns)
  BY DEF IInv, TypeInv
<1>2. [stash[d] EXCEPT !.queue = q] \in StashRecs /\ [stash[d] EXCEPT !.queue = q].mark = stash[d].mark
      /\ [stash[d] EXCEPT !.queue = q].queue = q
  BY <1>1 DEF StashRecs
<1>3. /\ [stash[d] EXCEPT !.in = in, !.queue = q] \in StashRecs
      /\ [stash[d] EXCEPT !.in = in, !.queue = q].mark = stash[d].mark
      /\ [stash[d] EXCEPT !.in = in, !.queue = q].queue = q
  BY <1>1 DEF StashRecs
<1> QED BY <1>1, <1>2, <1>3 DEF DocOk

(* A runner reads the queue of a document.                                 *)
LEMMA QueueRead ==
    ASSUME IInv, TxnPart, NEW r \in Runners, NEW d \in Docs, NEW q \in Seq(Tokens), TokensOk(q, txns'),
           queue' = [queue EXCEPT ![r][d] = q]
    PROVE  QueuePart(r)
<1> DEFINE Q == [queue[r] EXCEPT ![d] = q]
<1>1. /\ txns \in [Txns -> TxnRecs] /\ txns' \in [Txns -> TxnRecs] /\ Forward(txns, txns')
      /\ queue \in [Runners -> [Docs -> Seq(Tokens)]] /\ queue[r] \in [Docs -> Seq(Tokens)]
      /\ \A x \in Docs : TokensOk(queue[r][x], txns)
  BY DEF IInv, TypeInv, TxnPart
<1>2. Q \in [Docs -> Seq(Tokens)] /\ \A x \in Docs : Q[x] = IF x = d THEN q ELSE queue[r][x]
  BY <1>1
<1>3. queue' = [queue EXCEPT ![r] = Q]
  BY <1>1
<1> HIDE DEF Q
<1>4. queue' \in [Runners -> [Docs -> Seq(Tokens)]] /\ queue'[r] = Q /\ \A x \in Runners \ {r} : queue'[x] = queue[x]
  BY <1>1, <1>2, <1>3
<1>5. \A x \in Docs : TokensOk(queue[r][x], txns')
  BY <1>1, TokensForward
<1> QED BY <1>2, <1>4, <1>5 DEF QueuePart

-----------------------------------------------------------------------------
(* prepare.                                                                *)

(* From one place of prepare to another, on the same document.             *)
LEMMA PrepareFacts ==
    ASSUME NEW T, NEW N, NEW O, NEW f \in AdvanceFrames, AdvanceOk(f, T, N, O), f.pc \in OnDoc, NEW p \in OnDoc
    PROVE  [f EXCEPT !.pc = p] \in AdvanceFrames /\ AdvanceOk([f EXCEPT !.pc = p], T, N, O)
<1> DEFINE g == [f EXCEPT !.pc = p]
<1>1. p \in AdvancePcs
  BY PcFacts
<1>2. g \in AdvanceFrames /\ g.t = f.t /\ g.i = f.i /\ g.tt = f.tt /\ g.copy = f.copy /\ g.pc = p
  BY <1>1 DEF AdvanceFrames
<1> HIDE DEF g
<1>3. AdvanceOk(g, T, N, O)
  BY <1>2 DEF AdvanceOk, Preparing, Rescanning, Asserting, Aborting, Applying, Writing, Inserting, OnDoc
<1> QED BY <1>2, <1>3 DEF g

(* What a call of advance on a document knows.                             *)
LEMMA OnDocFacts ==
    ASSUME IInv, NEW r \in Runners, NEW pc \in OnDoc, At(r, pc)
    PROVE  /\ stack[r] # <<>> /\ Top(r).pc = pc /\ Top(r).pc \in AdvancePcs
           /\ Top(r) \in AdvanceFrames /\ AdvanceOk(Top(r), txns, nonces, ops)
           /\ Top(r).i \in Docs /\ Top(r).tt \in Tokens /\ Started(Top(r).tt[1], txns)
<1>1. pc \in AdvancePcs
  BY PcFacts
<1>2. /\ stack[r] # <<>> /\ Top(r).pc = pc
      /\ Top(r) \in AdvanceFrames /\ AdvanceOk(Top(r), txns, nonces, ops)
  BY <1>1, TopIs
<1>3. Top(r).i \in Docs /\ Top(r).tt \in Nat \X Nat /\ Top(r).tt[1] = Top(r).t.id
  BY <1>2 DEF AdvanceOk, AdvanceFrames, Preparing
<1>4. Top(r).t.id \in Txns /\ Started(Top(r).t.id, txns)
  BY <1>2, CopyFacts
<1> QED BY <1>1, <1>2, <1>3, <1>4 DEF Tokens

(* A document is prepared or confirmed: the token is on its queue and its  *)
(* revision known.                                                         *)
LEMMA PreparedDocKeeps ==
    ASSUME IInv, NEW r \in Runners, stack[r] # <<>>, Top(r) \in AdvanceFrames, Top(r).pc \in OnDoc,
           AdvanceOk(Top(r), txns, nonces, ops), UNCHANGED <<work, txns, seen, nonces, faults, outcome, log>>, DocPart,
           NEW revno \in Int, NEW q \in Seq(Tokens), TokensOk(q, txns), PreparedDoc(r, Top(r), revno, q)
    PROVE  GoodStep
<1> DEFINE f == Top(r)
           next == docKeys(f.t.id, f.i)
           g == [f EXCEPT !.revno[f.i] = revno, !.i = next, !.pc = IF next = 0 THEN "setPrepared" ELSE "prepareDoc"]
<1>1. TxnPart
  BY TxnSame
<1>2. f.i \in Docs /\ f.i \in Nat /\ f.t.id \in Txns
  BY CopyFacts, DocsAssumption DEF AdvanceOk
<1>3. Parts(r)
  BY <1>1, <1>2, QueueRead, SeenSame, LogSame, EndSame DEF PreparedDoc, Parts
<1>4. next \in Docs \cup {0} /\ next \in Nat
  <2>1. TypeInv
    BY DEF IInv
  <2>2. next \in Docs \cup {0}
    BY <1>2, <2>1, DocKeysFacts
  <2>3. \A x \in Docs \cup {0} : x \in Nat
    BY DocsAssumption
  <2> HIDE DEF next
  <2> QED BY <2>2, <2>3
<1> HIDE DEF next
<1>5. PICK p \in Preparing : g = [f EXCEPT !.revno[f.i] = revno, !.i = next, !.pc = p] /\ (p # "setPrepared" => p = "prepareDoc" /\ next # 0)
  BY DEF Preparing, OnDoc
<1>6. p \in AdvancePcs /\ [f.revno EXCEPT ![f.i] = revno] \in [Docs -> Int]
  BY <1>2, PcFacts DEF Preparing, AdvanceFrames
<1> DEFINE revnos == [f.revno EXCEPT ![f.i] = revno]
<1>7. g = [f EXCEPT !.revno = revnos, !.i = next, !.pc = p]
  BY <1>5
<1> HIDE DEF revnos, g, f
<1>8. g \in AdvanceFrames /\ g.t = f.t /\ g.tt = f.tt /\ g.copy = f.copy /\ g.pc = p /\ g.i = next
  BY <1>4, <1>6, <1>7 DEF AdvanceFrames, revnos, f
<1>9. AdvanceOk(f, txns, nonces, ops) /\ f.pc \in Preparing
  BY DEF f, Preparing
<1>10. AdvanceOk(g, txns, nonces, ops)
  BY <1>4, <1>5, <1>8, <1>9 DEF AdvanceOk, Preparing, Rescanning, Asserting, Aborting, Applying, Writing, Inserting, OnDoc
<1>11. SetTop(r, g)
  BY DEF PreparedDoc, g, f, next
<1> QED BY <1>3, <1>8, <1>10, <1>11, SetTopKeeps, PcFacts

(* Preparing puts the token of the transaction on the queue of each of its *)
(* documents,                                                              *)
LEMMA prepareDocKeeps == ASSUME IInv, NEW r \in Runners, prepareDoc(r) PROVE GoodStep
<1> DEFINE f == Top(r)
           d == docs[f.i]
           q == addToSet(d.queue, f.tt)
<1>1. At(r, "prepareDoc") /\ "prepareDoc" \in OnDoc /\ UNCHANGED <<work, txns, stash, seen, nonces, faults, outcome, log>>
  BY DEF prepareDoc, OnDoc
<1>2. /\ stack[r] # <<>> /\ f.pc \in OnDoc /\ f.pc \in AdvancePcs /\ f \in AdvanceFrames
      /\ AdvanceOk(f, txns, nonces, ops) /\ f.i \in Docs /\ f.tt \in Tokens /\ Started(f.tt[1], txns)
  BY <1>1, OnDocFacts
<1>3. TxnPart
  BY <1>1, TxnSame
<1>4. CASE ~d.in
  <2>1. SetTop(r, [f EXCEPT !.pc = "prepareStash"]) /\ UNCHANGED <<docs, queue>>
    BY <1>4, Zenon DEF prepareDoc
  <2>2. Parts(r)
    BY <1>1, <2>1, PartsSame
  <2>3. "prepareStash" \in OnDoc
    BY DEF OnDoc
  <2> HIDE DEF f
  <2>4. [f EXCEPT !.pc = "prepareStash"] \in AdvanceFrames /\ AdvanceOk([f EXCEPT !.pc = "prepareStash"], txns', nonces', ops)
    BY <1>1, <1>2, <2>3, PrepareFacts
  <2> QED BY <1>2, <2>1, <2>2, <2>4, SetTopKeeps DEF f
<1>5. CASE d.in
  <2>1. /\ docs' = [docs EXCEPT ![f.i].queue = q]
        /\ IF d.mark = 0 THEN PreparedDoc(r, f, d.revno, q) ELSE Call(r, f, loadAndApply(d.mark)) /\ UNCHANGED queue
    BY <1>5, Zenon DEF prepareDoc
  <2>2. q \in Seq(Tokens) /\ TokensOk(q, txns) /\ d.revno \in Int
    BY <1>2, DocFacts, AddFacts
  <2> HIDE DEF f, q
  <2>3. docs' = [docs EXCEPT ![f.i] = [docs[f.i] EXCEPT !.queue = q]]
    BY <2>1
  <2>4. DocPart
    BY <1>1, <1>2, <1>3, <2>2, <2>3, DocQueueFacts, DocWrite
  <2>5. CASE d.mark = 0
    BY <1>1, <1>2, <2>1, <2>2, <2>4, <2>5, PreparedDocKeeps DEF f
  <2>6. CASE d.mark # 0
    <3>1. Call(r, f, loadAndApply(d.mark)) /\ UNCHANGED queue
      BY <2>1, <2>6
    <3>2. loadAndApply(d.mark) \in AdvanceFrames /\ AdvanceOk(loadAndApply(d.mark), txns, nonces, ops)
      BY <1>2, <2>6, DocFacts, LoadApplyFacts
    <3>3. Parts(r)
      BY <1>1, <2>4, <3>1, PartsDoc
    <3> QED BY <1>1, <1>2, <3>1, <3>2, <3>3, CallKeeps DEF f
  <2> QED BY <2>5, <2>6
<1>6. d.in \in BOOLEAN
  BY <1>2, DocFacts DEF DocRecs
<1> QED BY <1>4, <1>5, <1>6

(* or on the one of the stash, when the document does not exist;           *)
LEMMA prepareStashKeeps == ASSUME IInv, NEW r \in Runners, prepareStash(r) PROVE GoodStep
<1> DEFINE f == Top(r)
           d == stash[f.i]
           q == addToSet(d.queue, f.tt)
<1>1. /\ At(r, "prepareStash") /\ "prepareStash" \in OnDoc
      /\ UNCHANGED <<work, txns, docs, queue, seen, nonces, faults, outcome, log>>
  BY DEF prepareStash, OnDoc
<1>2. /\ stack[r] # <<>> /\ f.pc \in OnDoc /\ f.pc \in AdvancePcs /\ f \in AdvanceFrames
      /\ AdvanceOk(f, txns, nonces, ops) /\ f.i \in Docs /\ f.tt \in Tokens /\ Started(f.tt[1], txns)
  BY <1>1, OnDocFacts
<1>3. TxnPart
  BY <1>1, TxnSame
<1>4. /\ stash' = [stash EXCEPT ![f.i].in = TRUE, ![f.i].queue = q]
      /\ IF d.mark = 0 THEN SetTop(r, [f EXCEPT !.pc = "confirmDoc"])
         ELSE Call(r, [f EXCEPT !.pc = "prepareDoc"], loadAndApply(d.mark))
  <2>1. stash \in [Docs -> StashRecs]
    BY DEF IInv, TypeInv
  <2>2. stash' = [stash EXCEPT ![f.i].in = TRUE, ![f.i].queue = addToSet(@, f.tt)]
    BY Zenon DEF prepareStash
  <2>3. IF d.mark = 0 THEN SetTop(r, [f EXCEPT !.pc = "confirmDoc"])
        ELSE Call(r, [f EXCEPT !.pc = "prepareDoc"], loadAndApply(d.mark))
    BY Zenon DEF prepareStash
  <2>4. stash[f.i] \in StashRecs
    BY <1>2, <2>1
  <2> HIDE DEF f
  <2>5. [stash[f.i] EXCEPT !.in = TRUE].queue = stash[f.i].queue
    BY <2>4 DEF StashRecs
  <2> QED BY <1>2, <2>1, <2>2, <2>3, <2>5
<1>5. q \in Seq(Tokens) /\ TokensOk(q, txns)
  BY <1>2, DocFacts, AddFacts
<1> HIDE DEF f, q
<1>6. stash' = [stash EXCEPT ![f.i] = [stash[f.i] EXCEPT !.in = TRUE, !.queue = q]]
  <2>1. stash \in [Docs -> StashRecs]
    BY DEF IInv, TypeInv
  <2> QED BY <1>2, <1>4, <2>1
<1>7. Parts(r)
  <2>1. DocPart
    BY <1>1, <1>2, <1>3, <1>5, <1>6, StashQueueFacts, StashWrite
  <2> QED BY <1>1, <2>1, PartsDoc
<1>8. \A p \in OnDoc : [f EXCEPT !.pc = p] \in AdvanceFrames /\ AdvanceOk([f EXCEPT !.pc = p], txns', nonces', ops)
  BY <1>1, <1>2, PrepareFacts
<1>9. "confirmDoc" \in OnDoc /\ "prepareDoc" \in OnDoc
  BY DEF OnDoc
<1>10. CASE d.mark = 0
  BY <1>2, <1>4, <1>7, <1>8, <1>9, <1>10, SetTopKeeps DEF f
<1>11. CASE d.mark # 0
  <2>1. Call(r, [f EXCEPT !.pc = "prepareDoc"], loadAndApply(d.mark))
    BY <1>4, <1>11
  <2>2. loadAndApply(d.mark) \in AdvanceFrames /\ AdvanceOk(loadAndApply(d.mark), txns', nonces', ops)
    BY <1>1, <1>2, <1>11, DocFacts, LoadApplyFacts
  <2> QED BY <1>2, <1>7, <1>8, <1>9, <2>1, <2>2, CallKeeps DEF f
<1> QED BY <1>10, <1>11

(* a document that could not be written is looked at again,                *)
LEMMA confirmDocKeeps == ASSUME IInv, NEW r \in Runners, confirmDoc(r) PROVE GoodStep
<1> DEFINE f == Top(r)
           d == docs[f.i]
<1>1. /\ At(r, "confirmDoc") /\ "confirmDoc" \in OnDoc
      /\ UNCHANGED <<work, txns, docs, stash, seen, nonces, faults, outcome, log>>
  BY DEF confirmDoc, OnDoc
<1>2. /\ stack[r] # <<>> /\ f.pc \in OnDoc /\ f.pc \in AdvancePcs /\ f \in AdvanceFrames
      /\ AdvanceOk(f, txns, nonces, ops) /\ f.i \in Docs
  BY <1>1, OnDocFacts
<1>3. DocPart
  BY <1>1, TxnSame, DocSame
<1>4. CASE d.in /\ d.mark = 0 /\ hasToken(d.queue, f.tt)
  <2>1. PreparedDoc(r, f, d.revno, d.queue)
    BY <1>4, Zenon DEF confirmDoc
  <2>2. d.queue \in Seq(Tokens) /\ TokensOk(d.queue, txns) /\ d.revno \in Int
    BY <1>2, DocFacts
  <2> QED BY <1>1, <1>2, <1>3, <2>1, <2>2, PreparedDocKeeps
<1>5. CASE ~(d.in /\ d.mark = 0 /\ hasToken(d.queue, f.tt))
  <2>1. SetTop(r, [f EXCEPT !.pc = IF d.in THEN "unstash" ELSE "confirmStash"]) /\ UNCHANGED queue
    BY <1>5, Zenon DEF confirmDoc
  <2> DEFINE p == IF d.in THEN "unstash" ELSE "confirmStash"
  <2>2. p \in OnDoc
    BY DEF OnDoc
  <2> HIDE DEF f, p
  <2>3. [f EXCEPT !.pc = p] \in AdvanceFrames /\ AdvanceOk([f EXCEPT !.pc = p], txns', nonces', ops)
    BY <1>1, <1>2, <2>2, PrepareFacts
  <2>4. Parts(r)
    BY <1>1, <2>1, PartsSame
  <2> QED BY <1>2, <2>1, <2>3, <2>4, SetTopKeeps DEF f, p
<1> QED BY <1>4, <1>5

(* and so is a stash,                                                      *)
LEMMA confirmStashKeeps == ASSUME IInv, NEW r \in Runners, confirmStash(r) PROVE GoodStep
<1> DEFINE f == Top(r)
           d == stash[f.i]
<1>1. /\ At(r, "confirmStash") /\ "confirmStash" \in OnDoc /\ "unstash" \in OnDoc
      /\ UNCHANGED <<work, txns, docs, stash, seen, nonces, faults, outcome, log>>
  BY DEF confirmStash, OnDoc
<1>2. /\ stack[r] # <<>> /\ f.pc \in OnDoc /\ f.pc \in AdvancePcs /\ f \in AdvanceFrames
      /\ AdvanceOk(f, txns, nonces, ops) /\ f.i \in Docs
  BY <1>1, OnDocFacts
<1>3. DocPart
  BY <1>1, TxnSame, DocSame
<1>4. CASE d.in /\ d.mark = 0 /\ hasToken(d.queue, f.tt)
  <2>1. PreparedDoc(r, f, StashRevno(d), d.queue)
    BY <1>4, Zenon DEF confirmStash
  <2>2. d.queue \in Seq(Tokens) /\ TokensOk(d.queue, txns) /\ StashRevno(d) \in Int
    BY <1>2, DocFacts
  <2> QED BY <1>1, <1>2, <1>3, <2>1, <2>2, PreparedDocKeeps
<1>5. CASE ~(d.in /\ d.mark = 0 /\ hasToken(d.queue, f.tt))
  <2>1. SetTop(r, [f EXCEPT !.pc = "unstash"]) /\ UNCHANGED queue
    BY <1>5, Zenon DEF confirmStash
  <2> HIDE DEF f
  <2>2. [f EXCEPT !.pc = "unstash"] \in AdvanceFrames /\ AdvanceOk([f EXCEPT !.pc = "unstash"], txns', nonces', ops)
    BY <1>1, <1>2, PrepareFacts
  <2>3. Parts(r)
    BY <1>1, <2>1, PartsSame
  <2> QED BY <1>2, <2>1, <2>2, <2>3, SetTopKeeps DEF f
<1> QED BY <1>4, <1>5

(* whose token is taken off again when the document exists after all.      *)
LEMMA unstashTokenKeeps == ASSUME IInv, NEW r \in Runners, unstashToken(r) PROVE GoodStep
<1> DEFINE f == Top(r)
           q == pullAll(stash[f.i].queue, {f.tt})
<1>1. /\ At(r, "unstash") /\ "unstash" \in OnDoc /\ "prepareDoc" \in OnDoc
      /\ UNCHANGED <<work, txns, docs, queue, seen, nonces, faults, outcome, log>>
      /\ stash' = [stash EXCEPT ![f.i].queue = q] /\ SetTop(r, [f EXCEPT !.pc = "prepareDoc"])
  BY DEF unstashToken, OnDoc
<1>2. /\ stack[r] # <<>> /\ f.pc \in OnDoc /\ f.pc \in AdvancePcs /\ f \in AdvanceFrames
      /\ AdvanceOk(f, txns, nonces, ops) /\ f.i \in Docs
  BY <1>1, OnDocFacts
<1>3. q \in Seq(Tokens) /\ TokensOk(q, txns)
  BY <1>2, DocFacts, PullFacts
<1> HIDE DEF f, q
<1>4. stash' = [stash EXCEPT ![f.i] = [stash[f.i] EXCEPT !.queue = q]]
  BY <1>1
<1>5. DocPart
  BY <1>1, <1>2, <1>3, <1>4, TxnSame, StashQueueFacts, StashWrite
<1>6. [f EXCEPT !.pc = "prepareDoc"] \in AdvanceFrames /\ AdvanceOk([f EXCEPT !.pc = "prepareDoc"], txns', nonces', ops)
  BY <1>1, <1>2, PrepareFacts
<1> QED BY <1>1, <1>2, <1>5, <1>6, PartsDoc, SetTopKeeps DEF f

-----------------------------------------------------------------------------
(* The record of a transaction.                                            *)

(* A record is written: it goes forward, and a copy that is no newer than  *)
(* it is backed by it.                                                     *)
LEMMA TxnWrite ==
    ASSUME IInv, NEW x \in Txns, NEW u \in TxnRecs, Extends(txns[x], u), u.s # "none", u.id = x, u.n <= nonces[x],
           u.s \in {"applying", "applied"} => Len(u.r) = Len(ops[x]),
           txns' = [txns EXCEPT ![x] = u], UNCHANGED <<work, nonces>>
    PROVE  TxnPart /\ ops' = ops /\ \A v : v.id = x /\ v.s # "none" /\ Extends(v, u) => Backed(v, txns')
<1>1. txns \in [Txns -> TxnRecs] /\ nonces \in [Txns -> Nat] /\ \A y \in Txns : TxnOk(y, txns, nonces, ops)
  BY DEF IInv, TypeInv
<1>2. txns' \in [Txns -> TxnRecs] /\ \A y \in Txns : txns'[y] = IF y = x THEN u ELSE txns[y]
  BY <1>1
<1>3. Forward(txns, txns')
  BY <1>1, <1>2, ExtendsSelf DEF Forward
<1>4. \A y \in Txns : TxnOk(y, txns', nonces', ops)
  BY <1>1, <1>2 DEF TxnOk
<1>5. \A v : v.id = x /\ v.s # "none" /\ Extends(v, u) => Backed(v, txns')
  BY <1>2 DEF Backed
<1>6. ops' = ops
  BY DEF ops
<1>7. \A y \in Txns : nonces[y] <= nonces'[y]
  BY <1>1
<1> QED BY <1>1, <1>2, <1>3, <1>4, <1>5, <1>6, <1>7 DEF TxnPart

(* A call of advance takes over a newer copy of the record.                *)
LEMMA ReloadFacts ==
    ASSUME IInv, NEW f \in AdvanceFrames, AdvanceOk(f, txns, nonces, ops)
    PROVE  LET g == [f EXCEPT !.t = txns[f.t.id]]
           IN  /\ g \in AdvanceFrames /\ g.t = txns[f.t.id] /\ g.t \in TxnRecs /\ g.t.id = f.t.id
               /\ Backed(g.t, txns) /\ g.copy = f.copy /\ g.revnos = f.revnos /\ g.pc = f.pc /\ g.i = f.i
               /\ g.tt = f.tt /\ g.revno = f.revno /\ g.pull = f.pull /\ g.force = f.force
<1>1. txns[f.t.id] \in TxnRecs /\ Backed(txns[f.t.id], txns) /\ txns[f.t.id].id = f.t.id
  BY CopyFacts
<1> DEFINE u == txns[f.t.id]
           g == [f EXCEPT !.t = u]
<1> HIDE DEF u
<1>2. u \in TxnRecs
  BY <1>1 DEF u
<1>3. /\ g \in AdvanceFrames /\ g.t = u /\ g.copy = f.copy /\ g.revnos = f.revnos /\ g.pc = f.pc /\ g.i = f.i
      /\ g.tt = f.tt /\ g.revno = f.revno /\ g.pull = f.pull /\ g.force = f.force
  BY <1>2 DEF AdvanceFrames
<1> QED BY <1>1, <1>3 DEF u

(* A call of flush ends.                                                   *)
LEMMA LeaveKeeps ==
    ASSUME IInv, NEW r \in Runners, NEW what \in {"ok", "lost", "panic"}, Leave(r, what), faults' \in Nat,
           UNCHANGED <<work, txns, docs, stash, nonces, log>>
    PROVE  GoodStep
<1>1. /\ queue \in [Runners -> [Docs -> Seq(Tokens)]] /\ seen \in [Runners -> [Txns -> TxnRecs]]
      /\ outcome \in [Runners -> {"ok", "lost", "panic"}]
  BY DEF IInv, TypeInv
<1>2. TxnPart /\ DocPart /\ LogPart
  BY TxnSame, DocSame, LogSame
<1>3. QueuePart(r)
  <2>1. NothingRead \in [Docs -> Seq(Tokens)] /\ \A d \in Docs : NothingRead[d] = <<>>
    BY DEF NothingRead
  <2>2. \A d \in Docs : TokensOk(NothingRead[d], txns')
    BY <2>1 DEF TokensOk
  <2>3. queue' = [queue EXCEPT ![r] = NothingRead]
    BY DEF Leave
  <2> QED BY <1>1, <2>1, <2>2, <2>3 DEF QueuePart
<1>4. SeenPart(r)
  <2> DEFINE none == <<>>
             t == [id |-> 0, s |-> "none", n |-> 0, r |-> none]
  <2>0. none \in Seq(Int)
    OBVIOUS
  <2>1. NothingSeen = [x \in Txns |-> t]
    BY DEF NothingSeen, NoTxn
  <2> HIDE DEF none
  <2>2. t \in TxnRecs /\ t.id = 0
    BY <2>0 DEF TxnRecs, States
  <2> HIDE DEF t
  <2>3. NothingSeen \in [Txns -> TxnRecs] /\ \A x \in Txns : NothingSeen[x].id = 0
    BY <2>1, <2>2
  <2>4. seen' = [seen EXCEPT ![r] = NothingSeen]
    BY DEF Leave
  <2>5. SeenOk(NothingSeen, txns')
    BY <2>3 DEF SeenOk
  <2> QED BY <1>1, <2>3, <2>4, <2>5 DEF SeenPart
<1>5. EndPart
  BY <1>1 DEF Leave, EndPart
<1>6. stack' = [stack EXCEPT ![r] = <<>>]
  BY DEF Leave
<1>7. StackOk(<<>>, txns', nonces', ops, seen'[r])
  BY DEF StackOk
<1> QED BY <1>2, <1>3, <1>4, <1>5, <1>6, <1>7, StepKeeps

-----------------------------------------------------------------------------
(* The end of prepare, and rescan.                                         *)

(* The first runner to have prepared all documents writes the nonce,       *)
LEMMA setPreparedKeeps == ASSUME IInv, NEW r \in Runners, setPrepared(r) PROVE GoodStep
<1> DEFINE f == Top(r)
           x == f.t.id
           t == [f.t EXCEPT !.s = "prepared", !.n = f.tt[2]]
<1>1. /\ At(r, "setPrepared") /\ "setPrepared" \in AdvancePcs /\ "reloadPrepared" \in AdvancePcs
      /\ UNCHANGED <<work, docs, stash, queue, nonces, faults, outcome, log>>
  BY PcFacts DEF setPrepared
<1>2. /\ stack[r] # <<>> /\ f.pc = "setPrepared" /\ f.pc \in AdvancePcs /\ f \in AdvanceFrames
      /\ AdvanceOk(f, txns, nonces, ops)
  BY <1>1, TopIs
<1>3. f.t.s = "preparing" /\ f.tt[1] = x /\ f.tt[2] <= nonces[x] /\ f.tt[2] \in Nat
  BY <1>2 DEF AdvanceOk, Preparing, AdvanceFrames
<1>4. x \in Txns /\ f.t \in TxnRecs /\ txns[x] \in TxnRecs /\ txns[x].id = x
  BY <1>2, CopyFacts
<1>5. t \in TxnRecs /\ t.id = x /\ t.s = "prepared" /\ t.n = f.tt[2]
  BY <1>3, <1>4 DEF TxnRecs, States
<1>6. CASE txns[t.id].s = "preparing"
  <2>1. txns' = [txns EXCEPT ![t.id] = t] /\ Scanned(r, [f EXCEPT !.t = t], queue[r])
    BY <1>6, Zenon DEF setPrepared
  <2> DEFINE g == [f EXCEPT !.t = t]
  <2> HIDE DEF t, f
  <2>2. g \in AdvanceFrames /\ g.t = t
    BY <1>2, <1>5 DEF AdvanceFrames
  <2>3. Extends(txns[x], t)
    BY <1>4, <1>5, <1>6 DEF Extends, Onward, States
  <2>4. Extends(t, t)
    BY <1>5, ExtendsSelf
  <2>5. TxnPart /\ ops' = ops /\ Backed(t, txns')
    BY <1>1, <1>3, <1>4, <1>5, <2>1, <2>3, <2>4, TxnWrite
  <2>6. DocPart /\ LogPart /\ EndPart /\ QueuePart(r)
    BY <1>1, <2>5, DocSame, LogSame, EndSame, QueueSame
  <2> HIDE DEF g
  <2>7. Scanned(r, g, queue[r])
    BY <2>1 DEF g
  <2> QED BY <1>2, <1>5, <2>2, <2>5, <2>6, <2>7, ScannedKeeps DEF f
<1>7. CASE txns[t.id].s # "preparing"
  <2> DEFINE g == [f EXCEPT !.pc = "reloadPrepared"]
  <2>1. SetTop(r, g) /\ UNCHANGED <<txns, seen>>
    BY <1>7, Zenon DEF setPrepared
  <2>2. Parts(r)
    BY <1>1, <2>1, PartsSame
  <2> HIDE DEF t, f
  <2>3. g \in AdvanceFrames /\ g.t = f.t /\ g.tt = f.tt /\ g.copy = f.copy /\ g.pc = "reloadPrepared"
    BY <1>1, <1>2 DEF AdvanceFrames
  <2> HIDE DEF g
  <2>4. AdvanceOk(g, txns', nonces', ops)
    BY <1>1, <1>2, <2>1, <2>3 DEF AdvanceOk, Preparing, Rescanning, Asserting, Aborting, Applying, Writing, Inserting, OnDoc
  <2> QED BY <1>2, <2>1, <2>2, <2>3, <2>4, SetTopKeeps DEF f
<1> QED BY <1>6, <1>7

(* and the others take the one that was written.                           *)
LEMMA reloadPreparedKeeps == ASSUME IInv, NEW r \in Runners, reloadPrepared(r) PROVE GoodStep
<1> DEFINE f == [Top(r) EXCEPT !.t = txns[Top(r).t.id]]
           g == [f EXCEPT !.tt = token(f.t)]
<1>1. /\ At(r, "reloadPrepared") /\ "reloadPrepared" \in AdvancePcs
      /\ UNCHANGED <<work, txns, docs, stash, queue, nonces, faults, outcome, log>>
  BY PcFacts DEF reloadPrepared
<1>2. /\ stack[r] # <<>> /\ Top(r).pc \in AdvancePcs /\ Top(r) \in AdvanceFrames
      /\ AdvanceOk(Top(r), txns, nonces, ops)
  BY <1>1, TopIs
<1>3. f \in AdvanceFrames /\ f.t \in TxnRecs /\ f.t.id \in Txns /\ Backed(f.t, txns)
  BY <1>2, ReloadFacts, CopyFacts
<1>4. TxnPart /\ DocPart /\ LogPart /\ EndPart /\ QueuePart(r) /\ ops' = ops
  BY <1>1, TxnSame, DocSame, LogSame, EndSame, QueueSame DEF ops
<1>5. CASE f.t.s = "prepared" /\ found(queue[r], g.tt)
  <2>1. Scanned(r, g, queue[r])
    BY <1>5, Zenon DEF reloadPrepared
  <2> HIDE DEF f
  <2>2. token(f.t) \in Nat \X Nat
    BY <1>3 DEF token, TxnRecs
  <2>3. g \in AdvanceFrames /\ g.t = f.t
    BY <1>3, <2>2 DEF AdvanceFrames
  <2> HIDE DEF g
  <2> QED BY <1>1, <1>2, <1>3, <1>4, <1>5, <2>1, <2>3, ScannedKeeps
<1>6. CASE ~(f.t.s = "prepared" /\ found(queue[r], g.tt))
  <2>1. SetTop(r, Again(f, f.t)) /\ UNCHANGED seen
    BY <1>6, Zenon DEF reloadPrepared
  <2> HIDE DEF f
  <2>2. Again(f, f.t) \in AdvanceFrames /\ AdvanceOk(Again(f, f.t), txns', nonces', ops)
    BY <1>1, <1>3, AgainFacts
  <2>3. Parts(r)
    BY <1>1, <2>1, PartsSame
  <2> QED BY <1>2, <2>1, <2>2, <2>3, SetTopKeeps
<1> QED BY <1>5, <1>6

(* What a call of advance that rescans knows.                              *)
LEMMA RescanningFacts ==
    ASSUME IInv, NEW r \in Runners, NEW pc \in Rescanning, At(r, pc)
    PROVE  /\ stack[r] # <<>> /\ Top(r).pc = pc /\ Top(r).pc \in AdvancePcs
           /\ Top(r) \in AdvanceFrames /\ AdvanceOk(Top(r), txns, nonces, ops)
           /\ Top(r).i \in Docs /\ Top(r).t.s = "prepared" /\ Top(r).tt = token(Top(r).t)
           /\ Top(r).t \in TxnRecs /\ Top(r).t.id \in Txns
<1>1. pc \in AdvancePcs
  BY PcFacts
<1>2. /\ stack[r] # <<>> /\ Top(r).pc = pc
      /\ Top(r) \in AdvanceFrames /\ AdvanceOk(Top(r), txns, nonces, ops)
  BY <1>1, TopIs
<1>3. Top(r).i \in Docs /\ Top(r).t.s = "prepared" /\ Top(r).tt = token(Top(r).t)
  BY <1>2 DEF AdvanceOk
<1>4. Top(r).t.id \in Txns /\ Top(r).t \in TxnRecs
  BY <1>2, CopyFacts
<1> QED BY <1>1, <1>2, <1>3, <1>4

(* From one place of rescan to another.                                    *)
LEMMA RescanFacts ==
    ASSUME NEW T, NEW N, NEW O, NEW f \in AdvanceFrames, Backed(f.t, T), TokensOk(f.copy, T), f.t.s = "prepared",
           f.tt = token(f.t), NEW p \in Rescanning, NEW retry \in Nat, NEW i \in Docs,
           NEW revno \in [Docs -> Int]
    PROVE  LET g == [f EXCEPT !.pc = p, !.retry = retry, !.i = i, !.revno = revno]
           IN  g \in AdvanceFrames /\ AdvanceOk(g, T, N, O)
<1> DEFINE g == [f EXCEPT !.pc = p, !.retry = retry, !.i = i, !.revno = revno]
<1>1. p \in AdvancePcs /\ i \in Nat
  BY PcFacts, DocsAssumption
<1>2. g \in AdvanceFrames /\ g.t = f.t /\ g.i = i /\ g.tt = f.tt /\ g.copy = f.copy /\ g.pc = p
  BY <1>1 DEF AdvanceFrames
<1> HIDE DEF g
<1>3. AdvanceOk(g, T, N, O)
  BY <1>2 DEF AdvanceOk, Preparing, Rescanning, Asserting, Aborting, Applying, Writing, Inserting, OnDoc
<1> QED BY <1>2, <1>3 DEF g

(* A rescan that looks at its document again, having waited, is the same   *)
(* call.                                                                   *)
LEMMA RetryFacts ==
    ASSUME NEW T, NEW N, NEW O, NEW f \in AdvanceFrames, Backed(f.t, T), TokensOk(f.copy, T), f.t.s = "prepared",
           f.tt = token(f.t), f.i \in Docs
    PROVE  Retry(f) \in AdvanceFrames /\ AdvanceOk(Retry(f), T, N, O)
<1> DEFINE retry == Min({f.retry + 1, Retries + 1})
<1>1. retry \in Nat
  <2>1. f.retry + 1 \in Nat /\ Retries + 1 \in Nat
    BY RetriesAssumption DEF AdvanceFrames
  <2>2. {f.retry + 1, Retries + 1} \subseteq Nat /\ {f.retry + 1, Retries + 1} # {}
    BY <2>1
  <2> QED BY <2>2, MinFacts
<1>2. Retry(f) = [f EXCEPT !.pc = "rescanDoc", !.retry = retry]
  BY DEF Retry, AdvanceFrames
<1> HIDE DEF retry
<1>3. "rescanDoc" \in Rescanning /\ "rescanDoc" \in AdvancePcs
  BY PcFacts DEF Rescanning
<1> DEFINE g == [f EXCEPT !.pc = "rescanDoc", !.retry = retry]
<1>4. g \in AdvanceFrames /\ g.t = f.t /\ g.i = f.i /\ g.tt = f.tt /\ g.copy = f.copy /\ g.pc = "rescanDoc"
  BY <1>1, <1>3 DEF AdvanceFrames
<1> HIDE DEF g
<1>5. AdvanceOk(g, T, N, O)
  BY <1>4 DEF AdvanceOk, Preparing, Rescanning, Asserting, Aborting, Applying, Writing, Inserting, OnDoc
<1> QED BY <1>2, <1>4, <1>5 DEF g

(* A document or a stash was rescanned: the queue that was read is         *)
(* remembered.                                                             *)
LEMMA RescannedKeeps ==
    ASSUME IInv, NEW r \in Runners, NEW pc \in Rescanning, At(r, pc),
           UNCHANGED <<work, txns, docs, stash, nonces, faults, outcome, log>>,
           NEW revno \in Int, NEW q \in Seq(Tokens), TokensOk(q, txns), Rescanned(r, Top(r), revno, q)
    PROVE  GoodStep
<1> DEFINE f == Top(r)
           next == docKeys(f.t.id, f.i)
           newQueue == [queue[r] EXCEPT ![f.i] = q]
           g == [f EXCEPT !.revno[f.i] = revno, !.i = next, !.retry = 0, !.pc = "rescanDoc"]
<1>1. /\ stack[r] # <<>> /\ f.pc \in AdvancePcs /\ f \in AdvanceFrames /\ AdvanceOk(f, txns, nonces, ops)
      /\ f.i \in Docs /\ f.t.s = "prepared" /\ f.tt = token(f.t) /\ f.t \in TxnRecs /\ f.t.id \in Txns
  BY RescanningFacts
<1>2. Backed(f.t, txns) /\ TokensOk(f.copy, txns)
  BY <1>1 DEF AdvanceOk
<1>3. TxnPart /\ DocPart /\ LogPart /\ EndPart /\ ops' = ops
  BY TxnSame, DocSame, LogSame, EndSame DEF ops
<1>4. queue' = [queue EXCEPT ![r] = newQueue]
  BY DEF Rescanned
<1>5. QueuePart(r)
  <2>1. queue' = [queue EXCEPT ![r][f.i] = q]
    <3>1. queue \in [Runners -> [Docs -> Seq(Tokens)]]
      BY DEF IInv, TypeInv
    <3> QED BY <1>4, <3>1
  <2> QED BY <1>1, <1>3, <2>1, QueueRead
<1>6. next \in Docs \cup {0} /\ next \in Nat
  <2>1. TypeInv /\ f.i \in Nat
    BY <1>1, DocsAssumption DEF IInv
  <2>2. next \in Docs \cup {0}
    BY <1>1, <2>1, DocKeysFacts
  <2>3. \A x \in Docs \cup {0} : x \in Nat
    BY DocsAssumption
  <2> HIDE DEF next
  <2> QED BY <2>2, <2>3
<1> DEFINE revnos == [f.revno EXCEPT ![f.i] = revno]
<1>7. revnos \in [Docs -> Int]
  BY <1>1 DEF AdvanceFrames
<1>8. g = [f EXCEPT !.revno = revnos, !.i = next, !.retry = 0, !.pc = "rescanDoc"]
  OBVIOUS
<1>9. ~hasToken(q, f.tt) => SetTop(r, [f EXCEPT !.pc = "rescanReload"]) /\ UNCHANGED seen
  BY Zenon DEF Rescanned
<1>10. hasToken(q, f.tt) /\ next # 0 => SetTop(r, g) /\ UNCHANGED seen
  BY Zenon DEF Rescanned
<1>11. hasToken(q, f.tt) /\ next = 0 => Scanned(r, g, newQueue)
  BY DEF Rescanned
<1>12. UNCHANGED seen => Parts(r)
  BY <1>3, <1>5, SeenSame DEF Parts
<1>13. "rescanReload" \in Rescanning /\ "rescanDoc" \in Rescanning /\ "rescanDoc" \in AdvancePcs /\ "rescanReload" \in AdvancePcs
  BY PcFacts DEF Rescanning
<1> HIDE DEF f, next, newQueue, revnos, g
<1>14. g \in AdvanceFrames /\ g.t = f.t /\ g.i = next /\ g.tt = f.tt /\ g.copy = f.copy /\ g.pc = "rescanDoc"
  BY <1>1, <1>6, <1>7, <1>8, <1>13 DEF AdvanceFrames
<1>15. CASE ~hasToken(q, f.tt)
  <2> DEFINE h == [f EXCEPT !.pc = "rescanReload"]
  <2>1. h \in AdvanceFrames /\ h.t = f.t /\ h.i = f.i /\ h.tt = f.tt /\ h.copy = f.copy /\ h.pc = "rescanReload"
    BY <1>1, <1>13 DEF AdvanceFrames
  <2>2. SetTop(r, h) /\ Parts(r)
    BY <1>9, <1>12, <1>15
  <2> HIDE DEF h
  <2>3. AdvanceOk(h, txns', nonces', ops)
    BY <1>1, <1>2, <2>1 DEF AdvanceOk, Preparing, Rescanning, Asserting, Aborting, Applying, Writing, Inserting, OnDoc
  <2> QED BY <1>1, <2>1, <2>2, <2>3, SetTopKeeps DEF f
<1>16. CASE hasToken(q, f.tt) /\ next # 0
  <2>1. SetTop(r, g) /\ Parts(r)
    BY <1>10, <1>12, <1>16
  <2>2. AdvanceOk(g, txns', nonces', ops)
    BY <1>1, <1>2, <1>6, <1>14, <1>16 DEF AdvanceOk, Preparing, Rescanning, Asserting, Aborting, Applying, Writing, Inserting, OnDoc
  <2> QED BY <1>1, <1>14, <2>1, <2>2, SetTopKeeps DEF f
<1>17. CASE hasToken(q, f.tt) /\ next = 0
  <2>1. Scanned(r, g, newQueue) /\ Backed(g.t, txns') /\ g.t.s = "prepared"
    BY <1>1, <1>2, <1>11, <1>14, <1>17
  <2> QED BY <1>1, <1>3, <1>5, <1>14, <2>1, ScannedKeeps DEF f
<1> QED BY <1>15, <1>16, <1>17

(* Rescanning reads each document,                                         *)
LEMMA rescanDocKeeps == ASSUME IInv, NEW r \in Runners, rescanDoc(r) PROVE GoodStep
<1> DEFINE f == Top(r)
           d == docs[f.i]
<1>1. /\ At(r, "rescanDoc") /\ "rescanDoc" \in Rescanning /\ "rescanStash" \in Rescanning
      /\ UNCHANGED <<work, txns, docs, stash, nonces, faults, outcome, log>>
  BY DEF rescanDoc, Rescanning
<1>2. /\ stack[r] # <<>> /\ f.pc \in AdvancePcs /\ f \in AdvanceFrames /\ AdvanceOk(f, txns, nonces, ops)
      /\ f.i \in Docs /\ f.t.s = "prepared" /\ f.tt = token(f.t)
  BY <1>1, RescanningFacts
<1>3. Backed(f.t, txns) /\ TokensOk(f.copy, txns)
  BY <1>2 DEF AdvanceOk
<1>4. CASE ~d.in
  <2>1. SetTop(r, [f EXCEPT !.pc = "rescanStash"]) /\ UNCHANGED <<queue, seen>>
    BY <1>4, Zenon DEF rescanDoc
  <2> HIDE DEF f
  <2> DEFINE h == [f EXCEPT !.pc = "rescanStash"]
  <2>2. "rescanStash" \in AdvancePcs
    BY PcFacts DEF Rescanning
  <2>3. h \in AdvanceFrames /\ h.t = f.t /\ h.i = f.i /\ h.tt = f.tt /\ h.copy = f.copy /\ h.pc = "rescanStash"
    BY <1>2, <2>2 DEF AdvanceFrames
  <2> HIDE DEF h
  <2>4. AdvanceOk(h, txns', nonces', ops)
    BY <1>1, <1>2, <1>3, <2>3 DEF AdvanceOk, Preparing, Rescanning, Asserting, Aborting, Applying, Writing, Inserting, OnDoc
  <2> QED BY <1>1, <1>2, <2>1, <2>3, <2>4, PartsSame, SetTopKeeps DEF f, h
<1>5. CASE d.in /\ d.mark # 0
  <2>1. Call(r, Retry(f), loadAndApply(d.mark)) /\ UNCHANGED <<queue, seen>>
    BY <1>5, Zenon DEF rescanDoc
  <2> HIDE DEF f
  <2>2. loadAndApply(d.mark) \in AdvanceFrames /\ AdvanceOk(loadAndApply(d.mark), txns', nonces', ops)
    BY <1>1, <1>2, <1>5, DocFacts, LoadApplyFacts
  <2>3. Retry(f) \in AdvanceFrames /\ AdvanceOk(Retry(f), txns', nonces', ops)
    BY <1>1, <1>2, <1>3, RetryFacts
  <2>4. Parts(r)
    BY <1>1, <2>1, PartsSame
  <2> QED BY <1>2, <2>1, <2>2, <2>3, <2>4, CallKeeps DEF f
<1>6. CASE d.in /\ d.mark = 0
  <2>1. Rescanned(r, f, d.revno, d.queue)
    BY <1>6 DEF rescanDoc
  <2>2. d.queue \in Seq(Tokens) /\ TokensOk(d.queue, txns) /\ d.revno \in Int
    BY <1>2, DocFacts
  <2> QED BY <1>1, <2>1, <2>2, RescannedKeeps
<1> QED BY <1>4, <1>5, <1>6

(* or its stash,                                                           *)
LEMMA rescanStashKeeps == ASSUME IInv, NEW r \in Runners, rescanStash(r) PROVE GoodStep
<1> DEFINE f == Top(r)
           d == stash[f.i]
<1>1. /\ At(r, "rescanStash") /\ "rescanStash" \in Rescanning /\ "rescanReload" \in Rescanning
      /\ UNCHANGED <<work, txns, docs, stash, nonces, faults, outcome, log>>
  BY DEF rescanStash, Rescanning
<1>2. /\ stack[r] # <<>> /\ f.pc \in AdvancePcs /\ f \in AdvanceFrames /\ AdvanceOk(f, txns, nonces, ops)
      /\ f.i \in Docs /\ f.t.s = "prepared" /\ f.tt = token(f.t)
  BY <1>1, RescanningFacts
<1>3. Backed(f.t, txns) /\ TokensOk(f.copy, txns)
  BY <1>2 DEF AdvanceOk
<1>4. CASE ~d.in
  <2>1. SetTop(r, [f EXCEPT !.pc = "rescanReload"]) /\ UNCHANGED <<queue, seen>>
    BY <1>4, Zenon DEF rescanStash
  <2> HIDE DEF f
  <2> DEFINE h == [f EXCEPT !.pc = "rescanReload"]
  <2>2. "rescanReload" \in AdvancePcs
    BY PcFacts DEF Rescanning
  <2>3. h \in AdvanceFrames /\ h.t = f.t /\ h.i = f.i /\ h.tt = f.tt /\ h.copy = f.copy /\ h.pc = "rescanReload"
    BY <1>2, <2>2 DEF AdvanceFrames
  <2> HIDE DEF h
  <2>4. AdvanceOk(h, txns', nonces', ops)
    BY <1>1, <1>2, <1>3, <2>3 DEF AdvanceOk, Preparing, Rescanning, Asserting, Aborting, Applying, Writing, Inserting, OnDoc
  <2> QED BY <1>1, <1>2, <2>1, <2>3, <2>4, PartsSame, SetTopKeeps DEF f, h
<1>5. CASE d.in /\ d.mark # 0
  <2>1. Call(r, Retry(f), loadAndApply(d.mark)) /\ UNCHANGED <<queue, seen>>
    BY <1>5, Zenon DEF rescanStash
  <2> HIDE DEF f
  <2>2. loadAndApply(d.mark) \in AdvanceFrames /\ AdvanceOk(loadAndApply(d.mark), txns', nonces', ops)
    BY <1>1, <1>2, <1>5, DocFacts, LoadApplyFacts
  <2>3. Retry(f) \in AdvanceFrames /\ AdvanceOk(Retry(f), txns', nonces', ops)
    BY <1>1, <1>2, <1>3, RetryFacts
  <2>4. Parts(r)
    BY <1>1, <2>1, PartsSame
  <2> QED BY <1>2, <2>1, <2>2, <2>3, <2>4, CallKeeps DEF f
<1>6. CASE d.in /\ d.mark = 0
  <2>1. Rescanned(r, f, StashRevno(d), d.queue)
    BY <1>6 DEF rescanStash
  <2>2. d.queue \in Seq(Tokens) /\ TokensOk(d.queue, txns) /\ StashRevno(d) \in Int
    BY <1>2, DocFacts
  <2> QED BY <1>1, <2>1, <2>2, RescannedKeeps
<1> QED BY <1>4, <1>5, <1>6

(* and the record when a token is missing.                                 *)
LEMMA rescanReloadKeeps == ASSUME IInv, NEW r \in Runners, rescanReload(r) PROVE GoodStep
<1> DEFINE f == [Top(r) EXCEPT !.t = txns[Top(r).t.id]]
<1>1. /\ At(r, "rescanReload") /\ "rescanReload" \in Rescanning
      /\ UNCHANGED <<work, txns, docs, stash, nonces, faults, log>>
  BY DEF rescanReload, Rescanning
<1>2. /\ stack[r] # <<>> /\ Top(r).pc \in AdvancePcs /\ Top(r) \in AdvanceFrames
      /\ AdvanceOk(Top(r), txns, nonces, ops)
      /\ Top(r).i \in Docs /\ Top(r).t.s = "prepared" /\ Top(r).tt = token(Top(r).t)
  BY <1>1, RescanningFacts
<1>3. /\ f \in AdvanceFrames /\ f.t = txns[Top(r).t.id] /\ f.t \in TxnRecs /\ f.t.id = Top(r).t.id /\ Backed(f.t, txns)
      /\ f.copy = Top(r).copy /\ f.i = Top(r).i /\ f.tt = Top(r).tt
  BY <1>2, ReloadFacts
<1>4. f.tt = token(f.t)
  <2>1. Extends(Top(r).t, f.t)
    BY <1>2, <1>3, CopyFacts
  <2>2. f.t.n = Top(r).t.n
    BY <1>2, <2>1 DEF Extends
  <2> QED BY <1>2, <1>3, <2>2 DEF token
<1>5. TokensOk(f.copy, txns)
  BY <1>2, <1>3 DEF AdvanceOk
<1>6. CASE f.t.s # "prepared"
  <2>1. SetTop(r, Again(f, f.t)) /\ UNCHANGED <<queue, seen, outcome>>
    BY <1>6, Zenon DEF rescanReload
  <2> HIDE DEF f
  <2>2. Again(f, f.t) \in AdvanceFrames /\ AdvanceOk(Again(f, f.t), txns', nonces', ops)
    BY <1>1, <1>3, AgainFacts
  <2> QED BY <1>1, <1>2, <2>1, <2>2, PartsSame, SetTopKeeps
<1>7. CASE f.t.s = "prepared" /\ f.retry < Retries
  <2>1. SetTop(r, Retry(f)) /\ UNCHANGED <<queue, seen, outcome>>
    BY <1>7, Zenon DEF rescanReload
  <2> HIDE DEF f
  <2>2. Retry(f) \in AdvanceFrames /\ AdvanceOk(Retry(f), txns', nonces', ops)
    BY <1>1, <1>2, <1>3, <1>4, <1>5, <1>7, RetryFacts
  <2> QED BY <1>1, <1>2, <2>1, <2>2, PartsSame, SetTopKeeps
<1>8. CASE f.t.s = "prepared" /\ ~(f.retry < Retries)
  <2>1. Leave(r, "lost")
    BY <1>8, Zenon DEF rescanReload
  <2>2. faults' \in Nat
    BY <1>1 DEF IInv, TypeInv
  <2> QED BY <1>1, <2>1, <2>2, LeaveKeeps
<1> QED BY <1>6, <1>7, <1>8

-----------------------------------------------------------------------------
(* advance, and the agreement on an outcome.                               *)

(* advance goes on from the state of the record it holds.                  *)
LEMMA advanceKeeps == ASSUME IInv, NEW r \in Runners, advance(r) PROVE GoodStep
<1> DEFINE f == Top(r)
           t == f.t
<1>1. /\ At(r, "advance") /\ "advance" \in AdvancePcs
      /\ UNCHANGED <<work, txns, docs, stash, queue, faults, outcome, log>>
  BY PcFacts DEF advance
<1>2. /\ stack[r] # <<>> /\ f.pc \in AdvancePcs /\ f \in AdvanceFrames /\ AdvanceOk(f, txns, nonces, ops)
  BY <1>1, TopIs
<1>3. t \in TxnRecs /\ t.id \in Txns /\ Backed(t, txns) /\ TokensOk(f.copy, txns) /\ t.s # "none" /\ t.n \in Nat /\ t.id \in Nat
  <2>1. t \in TxnRecs /\ t.id \in Txns /\ Backed(t, txns) /\ t.s # "none" /\ TokensOk(f.copy, txns) /\ t.id \in Nat
    BY <1>2, CopyFacts DEF AdvanceOk
  <2> QED BY <2>1 DEF TxnRecs
<1> DEFINE i == docKeys(t.id, 0)
<1>4. i \in Docs /\ i \in Nat
  <2>1. TypeInv
    BY DEF IInv
  <2>2. i \in Docs
    BY <1>3, <2>1, DocKeysFacts
  <2> HIDE DEF i
  <2> QED BY <2>2, DocsAssumption
<1>5. nonces \in [Txns -> Nat] /\ txns \in [Txns -> TxnRecs] /\ \A x \in Txns : TxnOk(x, txns, nonces, ops)
  BY DEF IInv, TypeInv
<1>6. UNCHANGED nonces => /\ TxnPart /\ DocPart /\ LogPart /\ EndPart /\ QueuePart(r) /\ ops' = ops
                          /\ UNCHANGED seen => Parts(r)
  <2> SUFFICES ASSUME UNCHANGED nonces PROVE /\ TxnPart /\ DocPart /\ LogPart /\ EndPart /\ QueuePart(r) /\ ops' = ops
                                             /\ UNCHANGED seen => Parts(r)
    OBVIOUS
  <2>1. TxnPart /\ DocPart /\ LogPart /\ EndPart /\ QueuePart(r) /\ ops' = ops
    BY <1>1, TxnSame, DocSame, LogSame, EndSame, QueueSame DEF ops
  <2> QED BY <1>1, <2>1, PartsSame
<1>7. CASE /\ t.s = "preparing"
           /\ nonces' = [nonces EXCEPT ![t.id] = @ + 1]
           /\ SetTop(r, [f EXCEPT !.pc = "prepareDoc", !.i = i, !.tt = <<t.id, nonces[t.id] + 1>>])
           /\ UNCHANGED seen
  <2> DEFINE tt == <<t.id, nonces[t.id] + 1>>
             g == [f EXCEPT !.pc = "prepareDoc", !.i = i, !.tt = tt]
  <2>1. nonces' \in [Txns -> Nat] /\ (\A x \in Txns : nonces[x] <= nonces'[x]) /\ nonces'[t.id] = nonces[t.id] + 1
    BY <1>3, <1>5, <1>7
  <2>2. TxnPart /\ ops' = ops
    <3>1. ops' = ops
      BY <1>1 DEF ops
    <3>2. \A x \in Txns : TxnOk(x, txns, nonces', ops)
      <4>1. \A x \in Txns : txns[x].n \in Nat
        BY <1>5 DEF TxnRecs
      <4>2. \A x \in Txns : nonces[x] \in Nat /\ nonces'[x] \in Nat
        BY <1>5, <2>1
      <4> QED BY <1>5, <2>1, <4>1, <4>2 DEF TxnOk
    <3>3. Forward(txns, txns)
      BY <1>5, ExtendsSelf DEF Forward
    <3> QED BY <1>1, <1>5, <2>1, <3>1, <3>2, <3>3 DEF TxnPart
  <2>3. Parts(r)
    BY <1>1, <1>7, <2>2, PartsTxn
  <2>4. tt \in Nat \X Nat /\ tt[1] = t.id /\ tt[2] <= nonces'[t.id]
    BY <1>3, <1>5, <2>1
  <2> HIDE DEF f, i, tt
  <2>5. "prepareDoc" \in AdvancePcs /\ "prepareDoc" \in OnDoc
    BY PcFacts DEF OnDoc
  <2>6. g \in AdvanceFrames /\ g.t = t /\ g.i = i /\ g.tt = tt /\ g.copy = f.copy /\ g.pc = "prepareDoc"
    BY <1>2, <1>4, <2>4, <2>5 DEF AdvanceFrames
  <2>7. SetTop(r, g)
    BY <1>7 DEF f, i, tt
  <2> HIDE DEF g
  <2>8. AdvanceOk(g, txns', nonces', ops)
    BY <1>1, <1>3, <1>4, <1>7, <2>4, <2>6 DEF AdvanceOk, Preparing, Rescanning, Asserting, Aborting, Applying, Writing, Inserting, OnDoc
  <2> QED BY <1>2, <2>3, <2>6, <2>7, <2>8, SetTopKeeps DEF f
<1>8. CASE /\ t.s = "prepared"
           /\ IF ~f.force /\ found(queue[r], token(t)) /\ prereqs(queue[r], token(t))
              THEN Return(r, f, TRUE)
              ELSE /\ SetTop(r, [f EXCEPT !.pc = "rescanDoc", !.i = i, !.tt = token(t), !.retry = 0])
                   /\ UNCHANGED seen
           /\ UNCHANGED nonces
  <2>1. CASE ~f.force /\ found(queue[r], token(t)) /\ prereqs(queue[r], token(t))
    <3>1. Return(r, f, TRUE)
      BY <1>8, <2>1
    <3> QED BY <1>1, <1>2, <1>3, <1>6, <1>8, <3>1, ReturnKeeps
  <2>2. CASE ~(~f.force /\ found(queue[r], token(t)) /\ prereqs(queue[r], token(t)))
    <3> DEFINE tt == token(t)
               g == [f EXCEPT !.pc = "rescanDoc", !.i = i, !.tt = tt, !.retry = 0]
    <3>1. SetTop(r, g) /\ UNCHANGED seen
      BY <1>8, <2>2
    <3>2. tt \in Nat \X Nat
      BY <1>3 DEF token
    <3> HIDE DEF f, i, tt
    <3>3. "rescanDoc" \in AdvancePcs /\ "rescanDoc" \in Rescanning
      BY PcFacts DEF Rescanning
    <3>4. g \in AdvanceFrames /\ g.t = t /\ g.i = i /\ g.tt = tt /\ g.copy = f.copy /\ g.pc = "rescanDoc"
      BY <1>2, <1>4, <3>2, <3>3 DEF AdvanceFrames
    <3> HIDE DEF g
    <3>5. AdvanceOk(g, txns', nonces', ops)
      BY <1>1, <1>3, <1>4, <1>8, <3>4 DEF tt, AdvanceOk, Preparing, Rescanning, Asserting, Aborting, Applying, Writing, Inserting, OnDoc
    <3> QED BY <1>2, <1>6, <1>8, <3>1, <3>4, <3>5, SetTopKeeps DEF f
  <2> QED BY <2>1, <2>2
<1>9. CASE t.s = "applying" /\ SetTop(r, ApplyFrom(f, 1)) /\ UNCHANGED <<seen, nonces>>
  <2>1. TxnOk(t.id, txns, nonces, ops) /\ txns[t.id] \in TxnRecs /\ TypeInv
    BY <1>3, <1>5 DEF IInv
  <2> DEFINE g == ApplyFrom(f, 1)
  <2>2. g \in AdvanceFrames /\ AdvanceOk(g, txns, nonces, ops)
    BY <1>2, <1>3, <1>9, <2>1, ApplyFromFacts
  <2>3. SetTop(r, g)
    BY <1>9
  <2> HIDE DEF g
  <2> QED BY <1>1, <1>2, <1>6, <1>9, <2>2, <2>3, SetTopKeeps
<1>10. CASE t.s = "aborting" /\ SetTop(r, [f EXCEPT !.pc = "setAborted"]) /\ UNCHANGED <<seen, nonces>>
  <2> DEFINE g == [f EXCEPT !.pc = "setAborted"]
  <2>1. "setAborted" \in AdvancePcs /\ SetTop(r, g)
    BY <1>10, PcFacts DEF Aborting
  <2> HIDE DEF f
  <2>2. g \in AdvanceFrames /\ g.t = f.t /\ g.copy = f.copy /\ g.pc = "setAborted"
    BY <1>2, <2>1 DEF AdvanceFrames
  <2> HIDE DEF g
  <2>3. AdvanceOk(g, txns', nonces', ops)
    BY <1>1, <1>3, <1>10, <2>2 DEF AdvanceOk, Preparing, Rescanning, Asserting, Aborting, Applying, Writing, Inserting, OnDoc
  <2> QED BY <1>2, <1>6, <1>10, <2>1, <2>2, <2>3, SetTopKeeps DEF f
<1>11. CASE t.s \in Done /\ Return(r, f, FALSE) /\ UNCHANGED nonces
  BY <1>1, <1>2, <1>3, <1>6, <1>11, ReturnKeeps
<1> HIDE DEF i
<1>12. \/ /\ t.s = "preparing"
          /\ nonces' = [nonces EXCEPT ![t.id] = @ + 1]
          /\ SetTop(r, [f EXCEPT !.pc = "prepareDoc", !.i = i, !.tt = <<t.id, nonces[t.id] + 1>>])
          /\ UNCHANGED seen
       \/ /\ t.s = "prepared"
          /\ IF ~f.force /\ found(queue[r], token(t)) /\ prereqs(queue[r], token(t))
             THEN Return(r, f, TRUE)
             ELSE /\ SetTop(r, [f EXCEPT !.pc = "rescanDoc", !.i = i, !.tt = token(t), !.retry = 0])
                  /\ UNCHANGED seen
          /\ UNCHANGED nonces
       \/ t.s = "applying" /\ SetTop(r, ApplyFrom(f, 1)) /\ UNCHANGED <<seen, nonces>>
       \/ t.s = "aborting" /\ SetTop(r, [f EXCEPT !.pc = "setAborted"]) /\ UNCHANGED <<seen, nonces>>
       \/ t.s \in Done /\ Return(r, f, FALSE) /\ UNCHANGED nonces
  BY Zenon DEF advance, i
<1> QED BY <1>7, <1>8, <1>9, <1>10, <1>11, <1>12

(* What a call of advance on a prepared transaction knows once it has the  *)
(* revisions of its documents.                                             *)
LEMMA AssertingFacts ==
    ASSUME IInv, NEW r \in Runners, NEW pc \in Asserting, At(r, pc)
    PROVE  /\ stack[r] # <<>> /\ Top(r).pc = pc /\ Top(r).pc \in AdvancePcs
           /\ Top(r) \in AdvanceFrames /\ AdvanceOk(Top(r), txns, nonces, ops)
           /\ Top(r).t.s = "prepared" /\ Len(Top(r).revnos) = Len(ops[Top(r).t.id]) /\ Top(r).revnos \in Seq(Int)
           /\ Backed(Top(r).t, txns) /\ TokensOk(Top(r).copy, txns)
           /\ Top(r).t \in TxnRecs /\ Top(r).t.id \in Txns /\ txns[Top(r).t.id] \in TxnRecs
           /\ txns[Top(r).t.id].id = Top(r).t.id /\ txns[Top(r).t.id].n = Top(r).t.n
<1>1. pc \in AdvancePcs
  BY PcFacts
<1>2. /\ stack[r] # <<>> /\ Top(r).pc = pc
      /\ Top(r) \in AdvanceFrames /\ AdvanceOk(Top(r), txns, nonces, ops)
  BY <1>1, TopIs
<1>3. Top(r).t.s = "prepared" /\ Len(Top(r).revnos) = Len(ops[Top(r).t.id]) /\ Top(r).revnos \in Seq(Int) /\ TokensOk(Top(r).copy, txns)
  BY <1>2 DEF AdvanceOk, AdvanceFrames
<1>4. /\ Top(r).t.id \in Txns /\ Top(r).t \in TxnRecs /\ txns[Top(r).t.id] \in TxnRecs /\ Backed(Top(r).t, txns)
      /\ txns[Top(r).t.id].id = Top(r).t.id /\ Extends(Top(r).t, txns[Top(r).t.id])
  BY <1>2, CopyFacts
<1>5. txns[Top(r).t.id].n = Top(r).t.n
  BY <1>3, <1>4 DEF Extends
<1> QED BY <1>1, <1>2, <1>3, <1>4, <1>5

(* From one place of assert to another.                                    *)
LEMMA AssertFacts ==
    ASSUME NEW T, NEW N, NEW O, NEW f \in AdvanceFrames, AdvanceOk(f, T, N, O), f.pc \in Asserting,
           NEW p \in Asserting \ {"assertDoc"}
    PROVE  [f EXCEPT !.pc = p] \in AdvanceFrames /\ AdvanceOk([f EXCEPT !.pc = p], T, N, O)
<1> DEFINE g == [f EXCEPT !.pc = p]
<1>1. p \in AdvancePcs
  BY PcFacts
<1>2. g \in AdvanceFrames /\ g.t = f.t /\ g.i = f.i /\ g.tt = f.tt /\ g.copy = f.copy /\ g.revnos = f.revnos /\ g.pc = p
  BY <1>1 DEF AdvanceFrames
<1> HIDE DEF g
<1>3. AdvanceOk(g, T, N, O)
  BY <1>2 DEF AdvanceOk, Preparing, Rescanning, Asserting, Aborting, Applying, Writing, Inserting, OnDoc
<1> QED BY <1>2, <1>3 DEF g

(* Every assertion is looked at; one that fails aborts.                    *)
LEMMA assertDocKeeps == ASSUME IInv, NEW r \in Runners, assertDoc(r) PROVE GoodStep
<1> DEFINE f == Top(r)
<1>1. /\ At(r, "assertDoc") /\ "assertDoc" \in Asserting /\ "setAborting" \in Asserting \ {"assertDoc"}
      /\ UNCHANGED <<work, txns, docs, stash, queue, seen, nonces, faults, outcome, log>>
  BY DEF assertDoc, Asserting
<1>2. /\ stack[r] # <<>> /\ f.pc = "assertDoc" /\ f.pc \in AdvancePcs /\ f \in AdvanceFrames
      /\ AdvanceOk(f, txns, nonces, ops)
      /\ f.t.s = "prepared" /\ Len(f.revnos) = Len(ops[f.t.id]) /\ Backed(f.t, txns) /\ f.t.id \in Txns
  BY <1>1, AssertingFacts
<1>3. Parts(r) /\ TypeInv
  BY <1>1, PartsSame DEF IInv
<1>4. f.i + 1 \in Nat /\ f.i + 1 >= 1
  BY <1>2 DEF AdvanceFrames
<1>5. SetTop(r, AssertFrom(f, f.i + 1)) \/ SetTop(r, [f EXCEPT !.pc = "setAborting"])
  BY Zenon DEF assertDoc
<1> HIDE DEF f
<1> DEFINE j == f.i + 1
<1>6. j \in Nat /\ j >= 1
  BY <1>4
<1> HIDE DEF j
<1>7. AssertFrom(f, j) \in AdvanceFrames /\ AdvanceOk(AssertFrom(f, j), txns', nonces', ops)
  BY <1>1, <1>2, <1>3, <1>6, AssertFromFacts
<1>8. [f EXCEPT !.pc = "setAborting"] \in AdvanceFrames /\ AdvanceOk([f EXCEPT !.pc = "setAborting"], txns', nonces', ops)
  BY <1>1, <1>2, AssertFacts
<1>9. CASE SetTop(r, AssertFrom(f, f.i + 1))
  BY <1>2, <1>3, <1>7, <1>9, SetTopKeeps DEF f, j
<1>10. CASE SetTop(r, [f EXCEPT !.pc = "setAborting"])
  BY <1>2, <1>3, <1>8, <1>10, SetTopKeeps DEF f
<1> QED BY <1>5, <1>9, <1>10

(* A failed assertion makes the record an aborting one, unless it is late.  *)
LEMMA setAbortingKeeps == ASSUME IInv, NEW r \in Runners, setAborting(r) PROVE GoodStep
<1> DEFINE f == Top(r)
           x == f.t.id
           u == [txns[x] EXCEPT !.s = "aborting"]
           t == [f.t EXCEPT !.s = "aborting"]
<1>1. /\ At(r, "setAborting") /\ "setAborting" \in Asserting /\ "reloadAborting" \in Asserting \ {"assertDoc"}
      /\ UNCHANGED <<work, docs, stash, queue, seen, nonces, faults, outcome, log>>
  BY DEF setAborting, Asserting
<1>2. /\ stack[r] # <<>> /\ f.pc = "setAborting" /\ f.pc \in AdvancePcs /\ f \in AdvanceFrames
      /\ AdvanceOk(f, txns, nonces, ops) /\ f.t.s = "prepared" /\ TokensOk(f.copy, txns)
      /\ f.t \in TxnRecs /\ x \in Txns /\ txns[x] \in TxnRecs /\ txns[x].id = x /\ txns[x].n = f.t.n
  BY <1>1, AssertingFacts
<1>3. CASE txns[x].s = "prepared"
  <2>1. txns' = [txns EXCEPT ![x].s = "aborting"] /\ SetTop(r, PullFrom(r, [f EXCEPT !.t.s = "aborting"], 1))
    BY <1>3, Zenon DEF setAborting
  <2>2. txns' = [txns EXCEPT ![x] = u]
    BY <2>1
  <2>3. u \in TxnRecs /\ u.id = x /\ u.n = txns[x].n /\ u.s = "aborting" /\ u.r = txns[x].r
    BY <1>2 DEF TxnRecs, States
  <2>4. t \in TxnRecs /\ t.id = x /\ t.n = txns[x].n /\ t.s = "aborting"
    BY <1>2 DEF TxnRecs, States
  <2> DEFINE h == [f EXCEPT !.t = t]
             g == PullFrom(r, h, 1)
  <2>5. SetTop(r, g)
    BY <2>1
  <2> HIDE DEF u, t, f
  <2>6. Extends(txns[x], u) /\ Extends(t, u)
    BY <1>2, <1>3, <2>3, <2>4 DEF Extends, Onward, States
  <2>7. u.n <= nonces[x]
    BY <1>2, <2>3 DEF IInv, TxnOk
  <2>8. TxnPart /\ Backed(t, txns')
    BY <1>1, <1>2, <2>2, <2>3, <2>4, <2>6, <2>7, TxnWrite
  <2>9. Parts(r)
    BY <1>1, <2>8, PartsTxn
  <2>10. h \in AdvanceFrames /\ h.t = t /\ h.copy = f.copy
    BY <1>2, <2>4 DEF AdvanceFrames
  <2>11. TokensOk(f.copy, txns') /\ TypeInv
    BY <1>2, <2>8, TokensForward DEF TxnPart, IInv, TypeInv
  <2> HIDE DEF h
  <2>12. g \in AdvanceFrames /\ AdvanceOk(g, txns', nonces', ops)
    BY <2>4, <2>8, <2>10, <2>11, PullFromFacts
  <2> QED BY <1>2, <2>5, <2>9, <2>12, SetTopKeeps DEF f
<1>4. CASE txns[x].s # "prepared"
  <2>1. SetTop(r, [f EXCEPT !.pc = "reloadAborting"]) /\ UNCHANGED txns
    BY <1>4, Zenon DEF setAborting
  <2> HIDE DEF f
  <2>2. [f EXCEPT !.pc = "reloadAborting"] \in AdvanceFrames /\ AdvanceOk([f EXCEPT !.pc = "reloadAborting"], txns', nonces', ops)
    BY <1>1, <1>2, <2>1, AssertFacts
  <2> QED BY <1>1, <1>2, <2>1, <2>2, PartsSame, SetTopKeeps DEF f
<1> QED BY <1>3, <1>4

(* One that was late finds whether others aborted or applied,              *)
LEMMA reloadAbortingKeeps == ASSUME IInv, NEW r \in Runners, reloadAborting(r) PROVE GoodStep
<1> DEFINE f == [Top(r) EXCEPT !.t = txns[Top(r).t.id]]
<1>1. /\ At(r, "reloadAborting") /\ "reloadAborting" \in Asserting
      /\ UNCHANGED <<work, txns, docs, stash, queue, seen, nonces, faults, outcome, log>>
      /\ SetTop(r, IF f.t.s = "aborting" THEN PullFrom(r, f, 1) ELSE Again(f, f.t))
  BY Zenon DEF reloadAborting, Asserting
<1>2. /\ stack[r] # <<>> /\ Top(r).pc \in AdvancePcs /\ Top(r) \in AdvanceFrames
      /\ AdvanceOk(Top(r), txns, nonces, ops) /\ TokensOk(Top(r).copy, txns)
  BY <1>1, AssertingFacts
<1>3. f \in AdvanceFrames /\ f.t \in TxnRecs /\ Backed(f.t, txns) /\ f.copy = Top(r).copy
  BY <1>2, ReloadFacts
<1>4. Parts(r) /\ TypeInv
  BY <1>1, PartsSame DEF IInv
<1> HIDE DEF f
<1>5. CASE f.t.s = "aborting"
  <2>1. PullFrom(r, f, 1) \in AdvanceFrames /\ AdvanceOk(PullFrom(r, f, 1), txns', nonces', ops)
    BY <1>1, <1>2, <1>3, <1>4, <1>5, PullFromFacts
  <2> QED BY <1>1, <1>2, <1>4, <1>5, <2>1, SetTopKeeps
<1>6. CASE f.t.s # "aborting"
  <2>1. Again(f, f.t) \in AdvanceFrames /\ AdvanceOk(Again(f, f.t), txns', nonces', ops)
    BY <1>1, <1>3, AgainFacts
  <2> QED BY <1>1, <1>2, <1>4, <1>6, <2>1, SetTopKeeps
<1> QED BY <1>5, <1>6

(* takes its tokens off all queues,                                        *)
LEMMA pullTokensKeeps == ASSUME IInv, NEW r \in Runners, pullTokens(r) PROVE GoodStep
<1> DEFINE f == Top(r)
           d == ops[f.t.id][f.i].doc
           gone == AbortPulls(r, f, f.i)
           dq == pullAll(docs[d].queue, gone)
           sq == pullAll(stash[d].queue, gone)
<1>1. /\ At(r, "pullTokens") /\ "pullTokens" \in Aborting /\ "pullTokens" \in AdvancePcs
      /\ UNCHANGED <<work, txns, queue, seen, nonces, faults, outcome, log>>
      /\ SetTop(r, PullFrom(r, f, f.i + 1))
  BY PcFacts DEF pullTokens, Aborting
<1>2. /\ stack[r] # <<>> /\ f.pc = "pullTokens" /\ f.pc \in AdvancePcs /\ f \in AdvanceFrames
      /\ AdvanceOk(f, txns, nonces, ops)
  BY <1>1, TopIs
<1>3. /\ f.t.s = "aborting" /\ f.i \in 1..Len(ops[f.t.id]) /\ Backed(f.t, txns) /\ TokensOk(f.copy, txns)
      /\ f.t.id \in Txns /\ f.i \in Nat
  BY <1>1, <1>2, CopyFacts DEF AdvanceOk, AdvanceFrames
<1>4. d \in Docs /\ TypeInv
  <2>1. TypeInv
    BY DEF IInv
  <2>2. ops[f.t.id] \in Seq(OpRecords)
    BY <1>3, <2>1, OpsFacts DEF OpsOk
  <2>3. ops[f.t.id][f.i] \in OpRecords
    BY <1>3, <2>2
  <2> QED BY <2>1, <2>3 DEF OpRecords
<1>5. \/ stash' = [stash EXCEPT ![d].queue = sq] /\ UNCHANGED docs
      \/ docs' = [docs EXCEPT ![d].queue = dq] /\ UNCHANGED stash
  BY Zenon DEF pullTokens
<1>6. dq \in Seq(Tokens) /\ TokensOk(dq, txns) /\ sq \in Seq(Tokens) /\ TokensOk(sq, txns)
  BY <1>4, DocFacts, PullFacts
<1> HIDE DEF dq, sq, d
<1>7. TxnPart
  BY <1>1, TxnSame
<1>8. DocPart
  <2>1. CASE stash' = [stash EXCEPT ![d].queue = sq] /\ UNCHANGED docs
    <3>1. stash' = [stash EXCEPT ![d] = [stash[d] EXCEPT !.queue = sq]]
      BY <2>1
    <3> QED BY <1>1, <1>4, <1>6, <1>7, <2>1, <3>1, StashQueueFacts, StashWrite
  <2>2. CASE docs' = [docs EXCEPT ![d].queue = dq] /\ UNCHANGED stash
    <3>1. docs' = [docs EXCEPT ![d] = [docs[d] EXCEPT !.queue = dq]]
      BY <2>2
    <3> QED BY <1>1, <1>4, <1>6, <1>7, <2>2, <3>1, DocQueueFacts, DocWrite
  <2> QED BY <1>5, <2>1, <2>2
<1>9. Parts(r)
  BY <1>1, <1>8, PartsDoc
<1> DEFINE j == f.i + 1
           g == PullFrom(r, f, j)
<1>10. j \in Nat /\ j >= 1 /\ SetTop(r, g)
  BY <1>1, <1>3
<1> HIDE DEF j, f
<1>11. g \in AdvanceFrames /\ AdvanceOk(g, txns', nonces', ops)
  BY <1>1, <1>2, <1>3, <1>4, <1>10, PullFromFacts
<1> HIDE DEF g
<1>12. stack[r] # <<>> /\ Top(r).pc \in AdvancePcs
  BY <1>2 DEF f
<1> QED BY <1>9, <1>10, <1>11, <1>12, SetTopKeeps

(* and the last step of an abort is its state.                             *)
LEMMA setAbortedKeeps == ASSUME IInv, NEW r \in Runners, setAborted(r) PROVE GoodStep
<1> DEFINE f == Top(r)
           x == f.t.id
           u == [txns[x] EXCEPT !.s = "aborted"]
           t == [f.t EXCEPT !.s = "aborted"]
<1>1. /\ At(r, "setAborted") /\ "setAborted" \in Aborting /\ "setAborted" \in AdvancePcs
      /\ UNCHANGED <<work, docs, stash, queue, seen, nonces, faults, outcome, log>>
      /\ txns' = [txns EXCEPT ![x].s = "aborted"] /\ SetTop(r, Again(f, t))
  BY PcFacts DEF setAborted, Aborting
<1>2. /\ stack[r] # <<>> /\ f.pc \in AdvancePcs /\ f \in AdvanceFrames /\ AdvanceOk(f, txns, nonces, ops)
      /\ f.pc = "setAborted"
  BY <1>1, TopIs
<1>3. /\ f.t.s = "aborting" /\ f.t \in TxnRecs /\ x \in Txns /\ txns[x] \in TxnRecs /\ txns[x].id = x
      /\ Extends(f.t, txns[x])
  BY <1>1, <1>2, CopyFacts DEF AdvanceOk
<1>4. txns[x].s \in {"aborting", "aborted"} /\ txns[x].n = f.t.n
  BY <1>3 DEF Extends, Onward
<1>5. txns' = [txns EXCEPT ![x] = u]
  BY <1>1
<1>6. u \in TxnRecs /\ u.id = x /\ u.n = txns[x].n /\ u.s = "aborted"
  BY <1>3 DEF TxnRecs, States
<1>7. t \in TxnRecs /\ t.id = x /\ t.n = txns[x].n /\ t.s = "aborted"
  BY <1>3, <1>4 DEF TxnRecs, States
<1> HIDE DEF u, t, f
<1>8. Extends(txns[x], u) /\ Extends(t, u)
  BY <1>3, <1>4, <1>6, <1>7 DEF Extends, Onward, States
<1>9. u.n <= nonces[x]
  BY <1>3, <1>6 DEF IInv, TxnOk
<1>10. TxnPart /\ Backed(t, txns')
  BY <1>1, <1>3, <1>5, <1>6, <1>7, <1>8, <1>9, TxnWrite
<1>11. Again(f, t) \in AdvanceFrames /\ AdvanceOk(Again(f, t), txns', nonces', ops)
  BY <1>2, <1>7, <1>10, AgainFacts
<1> QED BY <1>1, <1>2, <1>10, <1>11, PartsTxn, SetTopKeeps DEF f

(* The first runner to find all assertions true writes the revisions,      *)
LEMMA setApplyingKeeps == ASSUME IInv, NEW r \in Runners, setApplying(r) PROVE GoodStep
<1> DEFINE f == Top(r)
           x == f.t.id
           t == [f.t EXCEPT !.s = "applying", !.r = f.revnos]
           u == [txns[x] EXCEPT !.s = "applying", !.r = f.revnos]
<1>1. /\ At(r, "setApplying") /\ "setApplying" \in Asserting /\ "reloadApplying" \in Asserting \ {"assertDoc"}
      /\ UNCHANGED <<work, docs, stash, queue, seen, nonces, faults, outcome, log>>
  BY DEF setApplying, Asserting
<1>2. /\ stack[r] # <<>> /\ f.pc = "setApplying" /\ f.pc \in AdvancePcs /\ f \in AdvanceFrames
      /\ AdvanceOk(f, txns, nonces, ops) /\ f.t.s = "prepared" /\ Len(f.revnos) = Len(ops[x]) /\ f.revnos \in Seq(Int)
      /\ f.t \in TxnRecs /\ x \in Txns /\ txns[x] \in TxnRecs /\ txns[x].id = x /\ txns[x].n = f.t.n
  BY <1>1, AssertingFacts
<1>3. t \in TxnRecs /\ t.id = x /\ t.n = txns[x].n /\ t.s = "applying" /\ t.r = f.revnos
  BY <1>2 DEF TxnRecs, States
<1>4. CASE txns[t.id].s = "prepared"
  <2>1. txns' = [txns EXCEPT ![t.id].s = "applying", ![t.id].r = f.revnos] /\ SetTop(r, Again(f, t))
    BY <1>4, Zenon DEF setApplying
  <2>2. txns \in [Txns -> TxnRecs]
    BY DEF IInv, TypeInv
  <2>3. txns' = [txns EXCEPT ![x] = u]
    <3> DEFINE started == [txns EXCEPT ![x] = [txns[x] EXCEPT !.s = "applying"]]
    <3>1. txns' = [started EXCEPT ![x].r = f.revnos]
      BY <1>3, <2>1
    <3>2. started[x] = [txns[x] EXCEPT !.s = "applying"]
      BY <1>2, <2>2
    <3>3. txns' = [started EXCEPT ![x] = [started[x] EXCEPT !.r = f.revnos]]
      BY <3>1
    <3>4. txns' = [started EXCEPT ![x] = u]
      BY <3>2, <3>3
    <3> HIDE DEF u
    <3> QED BY <1>2, <2>2, <3>4
  <2>4. u \in TxnRecs /\ u.id = x /\ u.n = txns[x].n /\ u.s = "applying" /\ u.r = f.revnos
    BY <1>2 DEF TxnRecs, States
  <2> HIDE DEF u, t, f
  <2>5. Extends(txns[x], u) /\ Extends(t, u)
    BY <1>2, <1>3, <1>4, <2>4 DEF Extends, Onward, States
  <2>6. u.n <= nonces[x]
    BY <1>2, <2>4 DEF IInv, TxnOk
  <2>7. TxnPart /\ Backed(t, txns')
    BY <1>1, <1>2, <1>3, <2>3, <2>4, <2>5, <2>6, TxnWrite
  <2>8. Again(f, t) \in AdvanceFrames /\ AdvanceOk(Again(f, t), txns', nonces', ops)
    BY <1>2, <1>3, <2>7, AgainFacts
  <2> QED BY <1>1, <1>2, <2>1, <2>7, <2>8, PartsTxn, SetTopKeeps DEF f
<1>5. CASE txns[t.id].s # "prepared"
  <2>1. SetTop(r, [f EXCEPT !.pc = "reloadApplying"]) /\ UNCHANGED txns
    BY <1>5, Zenon DEF setApplying
  <2> HIDE DEF f
  <2>2. [f EXCEPT !.pc = "reloadApplying"] \in AdvanceFrames /\ AdvanceOk([f EXCEPT !.pc = "reloadApplying"], txns', nonces', ops)
    BY <1>1, <1>2, <2>1, AssertFacts
  <2> QED BY <1>1, <1>2, <2>1, <2>2, PartsSame, SetTopKeeps DEF f
<1> QED BY <1>4, <1>5

(* and the others take the ones that were written.                         *)
LEMMA reloadApplyingKeeps == ASSUME IInv, NEW r \in Runners, reloadApplying(r) PROVE GoodStep
<1>1. /\ At(r, "reloadApplying") /\ "reloadApplying" \in Asserting
      /\ UNCHANGED <<work, txns, docs, stash, queue, seen, nonces, faults, outcome, log>>
      /\ SetTop(r, Again(Top(r), txns[Top(r).t.id]))
  BY DEF reloadApplying, Asserting
<1>2. /\ stack[r] # <<>> /\ Top(r).pc \in AdvancePcs /\ Top(r) \in AdvanceFrames
      /\ AdvanceOk(Top(r), txns, nonces, ops)
  BY <1>1, AssertingFacts
<1>3. txns[Top(r).t.id] \in TxnRecs /\ Backed(txns[Top(r).t.id], txns)
  BY <1>2, CopyFacts
<1>4. Again(Top(r), txns[Top(r).t.id]) \in AdvanceFrames /\ AdvanceOk(Again(Top(r), txns[Top(r).t.id]), txns', nonces', ops)
  BY <1>1, <1>2, <1>3, AgainFacts
<1> QED BY <1>1, <1>2, <1>4, PartsSame, SetTopKeeps

-----------------------------------------------------------------------------
(* apply.                                                                  *)

(* What a call of advance knows of an operation it is about to apply.      *)
LEMMA WritingFacts ==
    ASSUME IInv, NEW r \in Runners, NEW pc \in Writing, At(r, pc)
    PROVE  /\ stack[r] # <<>> /\ Top(r).pc = pc /\ Top(r).pc \in AdvancePcs
           /\ Top(r) \in AdvanceFrames /\ AdvanceOk(Top(r), txns, nonces, ops)
           /\ Top(r).t.s = "applying" /\ Top(r).t \in TxnRecs /\ Top(r).t.id \in Txns /\ Top(r).t.r \in Seq(Int)
           /\ Top(r).i \in 1..Len(ops[Top(r).t.id]) /\ Top(r).t.r[Top(r).i] \in Int
           /\ Op(Top(r)).doc \in Docs
           /\ txns[Top(r).t.id].s \in {"applying", "applied"}
           /\ Top(r).copy \in Seq(Tokens) /\ TokensOk(Top(r).copy, txns) /\ Top(r).nonce \in Nat
<1>1. pc \in AdvancePcs /\ pc \in Applying
  BY PcFacts DEF AdvancePcs, Applying
<1>2. /\ stack[r] # <<>> /\ Top(r).pc = pc
      /\ Top(r) \in AdvanceFrames /\ AdvanceOk(Top(r), txns, nonces, ops)
  BY <1>1, TopIs
<1> DEFINE f == Top(r)
           x == f.t.id
<1> HIDE DEF f
<1>3. f \in AdvanceFrames /\ AdvanceOk(f, txns, nonces, ops) /\ f.pc = pc
  BY <1>2 DEF f
<1>4. f.t.s = "applying" /\ f.i \in 1..Len(ops[x]) /\ TokensOk(f.copy, txns) /\ f.copy \in Seq(Tokens) /\ f.nonce \in Nat
  BY <1>1, <1>3 DEF AdvanceOk, AdvanceFrames
<1>5. f.t \in TxnRecs /\ x \in Txns /\ Extends(f.t, txns[x])
  BY <1>3, CopyFacts
<1>6. txns[x].s \in {"applying", "applied"} /\ txns[x].r = f.t.r /\ f.t.r \in Seq(Int)
  BY <1>4, <1>5 DEF Extends, Onward, TxnRecs
<1>7. Len(f.t.r) = Len(ops[x]) /\ TypeInv
  BY <1>5, <1>6 DEF IInv, TxnOk
<1>8. ops[x] \in Seq(OpRecords)
  BY <1>5, <1>7, OpsFacts DEF OpsOk
<1>9. f.t.r[f.i] \in Int /\ ops[x][f.i] \in OpRecords
  BY <1>4, <1>6, <1>7, <1>8
<1>10. Op(f).doc \in Docs
  BY <1>9 DEF Op, OpRecords
<1> QED BY <1>1, <1>2, <1>4, <1>5, <1>6, <1>9, <1>10 DEF f

(* The operation is done, and the next one is looked for.                  *)
LEMMA NextOpFacts ==
    ASSUME IInv, NEW r \in Runners, NEW pc \in Writing, At(r, pc)
    PROVE  /\ ApplyFrom(Top(r), Top(r).i + 1) \in AdvanceFrames
           /\ AdvanceOk(ApplyFrom(Top(r), Top(r).i + 1), txns, nonces, ops)
<1>1. /\ Top(r) \in AdvanceFrames /\ AdvanceOk(Top(r), txns, nonces, ops) /\ Top(r).t.s = "applying" /\ Top(r).t.id \in Txns
      /\ Top(r).i \in Nat
  BY WritingFacts DEF AdvanceFrames
<1>2. Backed(Top(r).t, txns) /\ TypeInv /\ TxnOk(Top(r).t.id, txns, nonces, ops) /\ txns[Top(r).t.id] \in TxnRecs
  BY <1>1, CopyFacts DEF IInv
<1> DEFINE j == Top(r).i + 1
<1>3. j \in Nat /\ j >= 1
  BY <1>1
<1> HIDE DEF j
<1>4. ApplyFrom(Top(r), j) \in AdvanceFrames /\ AdvanceOk(ApplyFrom(Top(r), j), txns, nonces, ops)
  BY <1>1, <1>2, <1>3, ApplyFromFacts
<1> QED BY <1>4 DEF j

(* From one request for an operation to the next.                          *)
LEMMA WriteFacts ==
    ASSUME NEW T, NEW N, NEW O, NEW f \in AdvanceFrames, AdvanceOk(f, T, N, O), f.pc \in Writing,
           NEW p \in Writing, p \in Inserting => f.pc \in Inserting,
           NEW nonce \in Nat, NEW copy \in Seq(Tokens), TokensOk(copy, T)
    PROVE  /\ [f EXCEPT !.pc = p, !.nonce = nonce, !.copy = copy] \in AdvanceFrames
           /\ AdvanceOk([f EXCEPT !.pc = p, !.nonce = nonce, !.copy = copy], T, N, O)
           /\ [f EXCEPT !.pc = p, !.copy = copy] \in AdvanceFrames
           /\ AdvanceOk([f EXCEPT !.pc = p, !.copy = copy], T, N, O)
           /\ [f EXCEPT !.pc = p] \in AdvanceFrames
           /\ AdvanceOk([f EXCEPT !.pc = p], T, N, O)
<1>1. p \in AdvancePcs
  BY DEF AdvancePcs, Applying
<1>2. Backed(f.t, T) /\ TokensOk(f.copy, T) /\ f.t.s = "applying" /\ f.i \in 1..Len(O[f.t.id])
  BY DEF AdvanceOk, Applying
<1>3. p \in Inserting => f.t.r[f.i] < 0
  BY DEF AdvanceOk
<1>4. ASSUME NEW g \in AdvanceFrames, g.t = f.t, g.i = f.i, TokensOk(g.copy, T), g.pc = p PROVE AdvanceOk(g, T, N, O)
  BY <1>2, <1>3, <1>4 DEF AdvanceOk, Preparing, Rescanning, Asserting, Aborting, Applying, Writing, Inserting, OnDoc
<1> DEFINE a == [f EXCEPT !.pc = p, !.nonce = nonce, !.copy = copy]
           b == [f EXCEPT !.pc = p, !.copy = copy]
           c == [f EXCEPT !.pc = p]
<1>5. a \in AdvanceFrames /\ a.t = f.t /\ a.i = f.i /\ a.copy = copy /\ a.pc = p
  BY <1>1 DEF AdvanceFrames
<1>6. b \in AdvanceFrames /\ b.t = f.t /\ b.i = f.i /\ b.copy = copy /\ b.pc = p
  BY <1>1 DEF AdvanceFrames
<1>7. c \in AdvanceFrames /\ c.t = f.t /\ c.i = f.i /\ c.copy = f.copy /\ c.pc = p
  BY <1>1 DEF AdvanceFrames
<1> HIDE DEF a, b, c
<1>8. AdvanceOk(a, T, N, O) /\ AdvanceOk(b, T, N, O) /\ AdvanceOk(c, T, N, O)
  BY <1>2, <1>4, <1>5, <1>6, <1>7
<1> QED BY <1>5, <1>6, <1>7, <1>8 DEF a, b, c

(* A write for a transaction that is being applied is recorded.            *)
LEMMA LogWrite ==
    ASSUME IInv, TxnPart, NEW d \in Docs, NEW x \in Txns, txns'[x].s \in {"applying", "applied"}, Changed(d, x)
    PROVE  LogPart
<1> DEFINE s == Append(log[d], x)
<1>1. /\ log \in [Docs -> Seq(Txns)] /\ LogOk(txns, log)
      /\ txns \in [Txns -> TxnRecs] /\ txns' \in [Txns -> TxnRecs] /\ Forward(txns, txns')
  BY DEF IInv, TypeInv, TxnPart
<1>2. LogOk(txns', log)
  BY <1>1, LogForward
<1>3. s \in Seq(Txns) /\ Len(s) = Len(log[d]) + 1 /\ Len(log[d]) \in Nat /\ s[Len(log[d]) + 1] = x
      /\ \A k \in 1..Len(log[d]) : s[k] = log[d][k]
  BY <1>1
<1>4. log' = [log EXCEPT ![d] = s]
  BY <1>1 DEF Changed
<1> HIDE DEF s
<1>5. log' \in [Docs -> Seq(Txns)] /\ \A e \in Docs : log'[e] = IF e = d THEN s ELSE log[e]
  BY <1>1, <1>3, <1>4
<1>6. \A k \in DOMAIN s : txns'[s[k]].s \in {"applying", "applied"}
  <2> SUFFICES ASSUME NEW k \in DOMAIN s PROVE txns'[s[k]].s \in {"applying", "applied"}
    OBVIOUS
  <2>1. CASE k = Len(log[d]) + 1
    BY <1>3, <2>1
  <2>2. CASE k # Len(log[d]) + 1
    <3>1. k \in 1..Len(log[d]) /\ k \in DOMAIN log[d]
      BY <1>1, <1>3, <2>2
    <3> QED BY <1>2, <1>3, <3>1 DEF LogOk
  <2> QED BY <2>1, <2>2
<1>7. LogOk(txns', log')
  BY <1>2, <1>5, <1>6 DEF LogOk
<1> QED BY <1>5, <1>7 DEF LogPart

(* An update bumps the revision of its document and takes its tokens off.  *)
LEMMA applyUpdateKeeps == ASSUME IInv, NEW r \in Runners, applyUpdate(r) PROVE GoodStep
<1> DEFINE f == Top(r)
           d == Op(f).doc
           q == pullAll(docs[d].queue, tokensToPull(queue[r][d], f.pull, token(f.t)))
           e == [docs[d] EXCEPT !.revno = docs[d].revno + 1, !.queue = q]
<1>1. /\ At(r, "applyUpdate") /\ "applyUpdate" \in Writing
      /\ UNCHANGED <<work, txns, stash, queue, seen, nonces, faults, outcome>>
      /\ SetTop(r, ApplyFrom(f, f.i + 1))
  BY DEF applyUpdate, Writing
<1>2. /\ stack[r] # <<>> /\ f.pc \in AdvancePcs /\ d \in Docs /\ f.t.id \in Txns
      /\ txns[f.t.id].s \in {"applying", "applied"}
  BY <1>1, WritingFacts
<1>3. TxnPart
  BY <1>1, TxnSame
<1>4. CASE Matches(f, docs[d])
  <2>1. docs' = [docs EXCEPT ![d].revno = @ + 1, ![d].queue = pullAll(@, tokensToPull(queue[r][d], f.pull, token(f.t)))]
    BY <1>4, Zenon DEF applyUpdate
  <2>2. Changed(d, f.t.id)
    BY <1>4, Zenon DEF applyUpdate
  <2>3. docs \in [Docs -> DocRecs] /\ docs[d] \in DocRecs
    BY <1>2 DEF IInv, TypeInv
  <2>4. docs' = [docs EXCEPT ![d] = e]
    <3> DEFINE grown == [docs EXCEPT ![d] = [docs[d] EXCEPT !.revno = docs[d].revno + 1]]
    <3>1. grown[d] = [docs[d] EXCEPT !.revno = docs[d].revno + 1] /\ grown[d].queue = docs[d].queue
      BY <1>2, <2>3 DEF DocRecs
    <3>2. docs' = [grown EXCEPT ![d].queue = pullAll(@, tokensToPull(queue[r][d], f.pull, token(f.t)))]
      BY <2>1
    <3>3. docs' = [grown EXCEPT ![d] = [grown[d] EXCEPT !.queue = q]]
      BY <3>1, <3>2
    <3>4. [grown[d] EXCEPT !.queue = q] = e
      BY <3>1
    <3>5. docs' = [grown EXCEPT ![d] = e]
      BY <3>3, <3>4
    <3> HIDE DEF e
    <3> QED BY <1>2, <2>3, <3>5
  <2>5. q \in Seq(Tokens) /\ TokensOk(q, txns)
    BY <1>2, DocFacts, PullFacts
  <2> HIDE DEF q
  <2>6. e \in DocRecs /\ e.queue = q /\ e.mark = docs[d].mark
    <3> DEFINE revno == docs[d].revno + 1
    <3>1. revno \in Nat
      BY <2>3 DEF DocRecs
    <3> HIDE DEF revno
    <3>2. \A y \in DocRecs : LET z == [y EXCEPT !.revno = revno, !.queue = q]
                             IN  z \in DocRecs /\ z.queue = q /\ z.mark = y.mark
      BY <2>5, <3>1 DEF DocRecs
    <3>3. e = [docs[d] EXCEPT !.revno = revno, !.queue = q]
      BY DEF revno
    <3> HIDE DEF e
    <3> QED BY <2>3, <3>2, <3>3
  <2> HIDE DEF e
  <2>7. DocOk(e, txns')
    BY <1>1, <1>2, <2>5, <2>6 DEF DocOk, IInv
  <2>8. DocPart
    BY <1>1, <1>2, <1>3, <2>4, <2>6, <2>7, DocWrite
  <2>9. LogPart
    BY <1>1, <1>2, <1>3, <2>2, LogWrite
  <2> QED BY <1>1, <1>2, <2>8, <2>9, NextOpFacts, PartsWrite, SetTopKeeps
<1>5. CASE ~Matches(f, docs[d])
  <2>1. UNCHANGED <<docs, log>>
    BY <1>5, Zenon DEF applyUpdate
  <2> QED BY <1>1, <1>2, <2>1, NextOpFacts, PartsSame, SetTopKeeps
<1> QED BY <1>4, <1>5

(* A remove gives the stash a nonce of its own,                            *)
LEMMA removeStashKeeps == ASSUME IInv, NEW r \in Runners, removeStash(r) PROVE GoodStep
<1> DEFINE f == Top(r)
           d == Op(f).doc
           x == f.t.id
           nonce == nonces[x] + 1
           n == stash[d].n \cup {<<x, nonce>>}
           e == [stash[d] EXCEPT !.in = TRUE, !.n = n]
           g == [f EXCEPT !.pc = "removeMark", !.nonce = nonce, !.copy = stash[d].queue]
<1>1. /\ At(r, "removeStash") /\ "removeStash" \in Writing /\ "removeMark" \in Writing /\ "removeMark" \notin Inserting
      /\ UNCHANGED <<work, txns, docs, queue, seen, faults, outcome, log>>
      /\ nonces' = [nonces EXCEPT ![x] = nonce]
      /\ stash' = [stash EXCEPT ![d].in = TRUE, ![d].n = @ \cup {<<x, nonce>>}]
      /\ SetTop(r, g)
  BY DEF removeStash, Writing, Inserting
<1>2. /\ stack[r] # <<>> /\ f.pc \in AdvancePcs /\ d \in Docs /\ x \in Txns /\ f.pc \in Writing
      /\ f \in AdvanceFrames /\ AdvanceOk(f, txns, nonces, ops)
  BY <1>1, WritingFacts
<1>3. /\ nonces \in [Txns -> Nat] /\ txns \in [Txns -> TxnRecs] /\ stash \in [Docs -> StashRecs]
      /\ \A y \in Txns : TxnOk(y, txns, nonces, ops)
  BY DEF IInv, TypeInv
<1>4. nonce \in Nat /\ x \in Nat
  <2>1. \A y \in Txns : y \in Nat
    BY TxnsAssumption
  <2>2. nonces[x] \in Nat
    BY <1>2, <1>3
  <2> QED BY <1>2, <2>1, <2>2
<1>5. TxnPart /\ ops' = ops
  <2>1. nonces' \in [Txns -> Nat] /\ \A y \in Txns : nonces[y] <= nonces'[y]
    BY <1>1, <1>2, <1>3
  <2>2. \A y \in Txns : TxnOk(y, txns, nonces', ops)
    <3>1. \A y \in Txns : txns[y].n \in Nat
      BY <1>3 DEF TxnRecs
    <3>2. \A y \in Txns : nonces[y] \in Nat /\ nonces'[y] \in Nat
      BY <1>3, <2>1
    <3> QED BY <1>3, <2>1, <3>1, <3>2 DEF TxnOk
  <2>3. Forward(txns, txns)
    BY <1>3, ExtendsSelf DEF Forward
  <2>4. ops' = ops
    BY <1>1 DEF ops
  <2> QED BY <1>1, <1>3, <2>1, <2>2, <2>3, <2>4 DEF TxnPart
<1>6. stash[d].queue \in Seq(Tokens) /\ TokensOk(stash[d].queue, txns) /\ stash[d] \in StashRecs /\ DocOk(stash[d], txns)
  BY <1>2, DocFacts DEF IInv
<1>7. stash' = [stash EXCEPT ![d] = e]
  <2> DEFINE claimed == [stash EXCEPT ![d] = [stash[d] EXCEPT !.in = TRUE]]
  <2>1. claimed[d] = [stash[d] EXCEPT !.in = TRUE] /\ claimed[d].n = stash[d].n
    BY <1>2, <1>3, <1>6 DEF StashRecs
  <2>2. stash' = [claimed EXCEPT ![d].n = @ \cup {<<x, nonce>>}]
    BY <1>1
  <2>3. stash' = [claimed EXCEPT ![d] = [claimed[d] EXCEPT !.n = n]]
    BY <2>1, <2>2
  <2>4. [claimed[d] EXCEPT !.n = n] = e
    BY <2>1
  <2>5. stash' = [claimed EXCEPT ![d] = e]
    BY <2>3, <2>4
  <2> HIDE DEF e
  <2> QED BY <1>2, <1>3, <2>5
<1>8. n \in SUBSET (Nat \X Nat)
  BY <1>4, <1>6 DEF StashRecs
<1> HIDE DEF n, nonce
<1>9. e \in StashRecs /\ e.queue = stash[d].queue /\ e.mark = stash[d].mark
  BY <1>6, <1>8 DEF StashRecs
<1> HIDE DEF e, d, f
<1>10. DocOk(e, txns')
  BY <1>1, <1>6, <1>9 DEF DocOk
<1>11. DocPart
  BY <1>1, <1>2, <1>5, <1>7, <1>9, <1>10, StashWrite
<1>12. Parts(r)
  BY <1>1, <1>5, <1>11, LogSame, KnownSame DEF Parts
<1>13. AdvanceOk(f, txns', nonces', ops)
  <2>1. /\ nonces' \in [Txns -> Nat] /\ Forward(txns, txns') /\ txns' \in [Txns -> TxnRecs] /\ \A y \in Txns : nonces[y] <= nonces'[y]
    BY <1>5 DEF TxnPart
  <2>2. f \in Frames /\ FrameOk(f, txns, nonces, ops, seen[r])
    BY <1>2, AdvanceFrameOk
  <2>3. FrameOk(f, txns', nonces', ops, seen[r])
    BY <1>3, <2>1, <2>2, FrameForward
  <2> QED BY <1>2, <2>3 DEF FrameOk
<1> DEFINE sq == stash[d].queue
<1>14. sq \in Seq(Tokens) /\ TokensOk(sq, txns') /\ g = [f EXCEPT !.pc = "removeMark", !.nonce = nonce, !.copy = sq]
  BY <1>1, <1>6
<1> HIDE DEF sq, g
<1>15. g \in AdvanceFrames /\ AdvanceOk(g, txns', nonces', ops)
  BY <1>1, <1>2, <1>4, <1>13, <1>14, WriteFacts
<1> QED BY <1>1, <1>2, <1>12, <1>15, SetTopKeeps DEF f

(* marks the document as being removed,                                    *)
LEMMA removeMarkKeeps == ASSUME IInv, NEW r \in Runners, removeMark(r) PROVE GoodStep
<1> DEFINE f == Top(r)
           d == Op(f).doc
           x == f.t.id
           e == [docs[d] EXCEPT !.mark = x]
<1>1. /\ At(r, "removeMark") /\ {"removeMark", "removeDoc", "removeCopy"} \subseteq Writing
      /\ "removeDoc" \notin Inserting /\ "removeCopy" \notin Inserting
      /\ UNCHANGED <<work, txns, stash, queue, seen, nonces, faults, outcome, log>>
  BY DEF removeMark, Writing, Inserting
<1>2. /\ stack[r] # <<>> /\ f.pc \in AdvancePcs /\ d \in Docs /\ x \in Txns /\ f.pc \in Writing
      /\ f \in AdvanceFrames /\ AdvanceOk(f, txns, nonces, ops) /\ f.nonce \in Nat
      /\ f.copy \in Seq(Tokens) /\ TokensOk(f.copy, txns)
  BY <1>1, WritingFacts
<1>3. CASE Matches(f, docs[d])
  <2>1. /\ docs' = [docs EXCEPT ![d].mark = x]
        /\ SetTop(r, IF hasToken(f.copy, token(f.t)) THEN [f EXCEPT !.pc = "removeDoc"]
                     ELSE [f EXCEPT !.pc = "removeCopy", !.copy = docs[d].queue])
    BY <1>3, Zenon DEF removeMark
  <2>2. docs' = [docs EXCEPT ![d] = e]
    BY <2>1
  <2>3. docs[d] \in DocRecs /\ DocOk(docs[d], txns)
    BY <1>2 DEF IInv, TypeInv
  <2>4. e \in DocRecs /\ e.queue = docs[d].queue /\ e.mark = x
    BY <1>2, <2>3 DEF DocRecs
  <2>5. Started(x, txns)
    BY <1>2, CopyFacts
  <2> DEFINE q == docs[d].queue
  <2>6. q \in Seq(Tokens) /\ TokensOk(q, txns)
    BY <1>2, DocFacts
  <2> HIDE DEF e, d, q
  <2>7. DocOk(e, txns')
    BY <1>1, <2>3, <2>4, <2>5 DEF DocOk
  <2>8. Parts(r)
    BY <1>1, <1>2, <2>2, <2>4, <2>7, TxnSame, DocWrite, PartsDoc
  <2> HIDE DEF f
  <2>9. [f EXCEPT !.pc = "removeDoc"] \in AdvanceFrames /\ AdvanceOk([f EXCEPT !.pc = "removeDoc"], txns', nonces', ops)
    BY <1>1, <1>2, WriteFacts
  <2>10. /\ [f EXCEPT !.pc = "removeCopy", !.copy = q] \in AdvanceFrames
         /\ AdvanceOk([f EXCEPT !.pc = "removeCopy", !.copy = q], txns', nonces', ops)
    BY <1>1, <1>2, <2>6, WriteFacts
  <2> QED BY <1>2, <2>1, <2>8, <2>9, <2>10, SetTopKeeps DEF f, q
<1>4. CASE ~Matches(f, docs[d])
  <2>1. SetTop(r, ApplyFrom(f, f.i + 1)) /\ UNCHANGED docs
    BY <1>4, Zenon DEF removeMark
  <2> QED BY <1>1, <1>2, <2>1, NextOpFacts, PartsSame, SetTopKeeps
<1> QED BY <1>3, <1>4

(* copies its queue to the stash,                                          *)
LEMMA removeCopyKeeps == ASSUME IInv, NEW r \in Runners, removeCopy(r) PROVE GoodStep
<1> DEFINE f == Top(r)
           d == Op(f).doc
           v == f.t.r[f.i]
           revno == IF v = 0 THEN 0 ELSE -v - 1
           e == [stash[d] EXCEPT !.queue = f.copy, !.n = {}, !.revno = revno]
<1>1. /\ At(r, "removeCopy") /\ {"removeCopy", "removeDoc"} \subseteq Writing /\ "removeDoc" \notin Inserting
      /\ UNCHANGED <<work, txns, docs, queue, seen, nonces, faults, outcome, log>>
      /\ SetTop(r, [f EXCEPT !.pc = "removeDoc"])
  BY DEF removeCopy, Writing, Inserting
<1>2. /\ stack[r] # <<>> /\ f.pc \in AdvancePcs /\ d \in Docs /\ f.pc \in Writing
      /\ f \in AdvanceFrames /\ AdvanceOk(f, txns, nonces, ops) /\ f.nonce \in Nat
      /\ f.copy \in Seq(Tokens) /\ TokensOk(f.copy, txns) /\ v \in Int
  BY <1>1, WritingFacts
<1>3. [f EXCEPT !.pc = "removeDoc"] \in AdvanceFrames /\ AdvanceOk([f EXCEPT !.pc = "removeDoc"], txns', nonces', ops)
  <2> HIDE DEF f
  <2> QED BY <1>1, <1>2, WriteFacts
<1>4. CASE UNCHANGED stash
  BY <1>1, <1>2, <1>3, <1>4, PartsSame, SetTopKeeps
<1>5. CASE stash' = [stash EXCEPT ![d].queue = f.copy, ![d].n = {}, ![d].revno = revno]
  <2>1. stash[d] \in StashRecs /\ DocOk(stash[d], txns) /\ stash \in [Docs -> StashRecs]
    BY <1>2 DEF IInv, TypeInv
  <2>2. revno \in Int
    BY <1>2
  <2> DEFINE copy == f.copy
  <2>3. copy \in Seq(Tokens) /\ TokensOk(copy, txns) /\ e = [stash[d] EXCEPT !.queue = copy, !.n = {}, !.revno = revno]
        /\ stash' = [stash EXCEPT ![d].queue = copy, ![d].n = {}, ![d].revno = revno]
    BY <1>2, <1>5
  <2> HIDE DEF e, d, copy, revno, f
  <2>4. stash' = [stash EXCEPT ![d] = e]
    <3> DEFINE once == [stash EXCEPT ![d] = [stash[d] EXCEPT !.queue = copy]]
               twice == [once EXCEPT ![d] = [stash[d] EXCEPT !.queue = copy, !.n = {}]]
    <3>1. once[d] = [stash[d] EXCEPT !.queue = copy]
      BY <1>2, <2>1
    <3>2. twice[d] = [stash[d] EXCEPT !.queue = copy, !.n = {}]
      BY <1>2, <2>1
    <3>3. stash' = [[once EXCEPT ![d].n = {}] EXCEPT ![d].revno = revno]
      BY <2>3
    <3>4. [once EXCEPT ![d].n = {}] = twice
      BY <3>1
    <3>5. stash' = [twice EXCEPT ![d] = [twice[d] EXCEPT !.revno = revno]]
      BY <3>3, <3>4
    <3>6. stash' = [twice EXCEPT ![d] = e]
      BY <2>3, <3>2, <3>5
    <3> QED BY <1>2, <2>1, <3>6
  <2>5. e \in StashRecs /\ e.queue = copy /\ e.mark = stash[d].mark
    BY <2>1, <2>2, <2>3 DEF StashRecs
  <2>6. DocOk(e, txns')
    BY <1>1, <2>1, <2>3, <2>5 DEF DocOk
  <2>7. Parts(r)
    BY <1>1, <1>2, <2>4, <2>5, <2>6, TxnSame, StashWrite, PartsDoc
  <2> QED BY <1>1, <1>2, <1>3, <2>7, SetTopKeeps DEF f
<1> QED BY <1>4, <1>5, Zenon DEF removeCopy

(* A document that does not exist.                                         *)
LEMMA NoDocFacts ==
    ASSUME NEW T
    PROVE  NoDoc \in DocRecs /\ DocOk(NoDoc, T) /\ NoStash \in StashRecs /\ DocOk(NoStash, T)
<1> DEFINE none == <<>>
           a == [in |-> FALSE, revno |-> 0, queue |-> none, mark |-> 0]
           b == [in |-> FALSE, revno |-> 0, queue |-> none, mark |-> 0, n |-> {}]
<1>1. none \in Seq(Tokens) /\ TokensOk(none, T)
  BY DEF TokensOk
<1>2. NoDoc = a /\ NoStash = b
  BY DEF NoDoc, NoStash
<1> HIDE DEF none
<1>3. a \in DocRecs /\ DocOk(a, T) /\ b \in StashRecs /\ DocOk(b, T)
  BY <1>1 DEF DocRecs, StashRecs, DocOk
<1> QED BY <1>2, <1>3

(* and takes it away.                                                      *)
LEMMA removeDocKeeps == ASSUME IInv, NEW r \in Runners, removeDoc(r) PROVE GoodStep
<1> DEFINE f == Top(r)
           d == Op(f).doc
<1>1. /\ At(r, "removeDoc") /\ "removeDoc" \in Writing
      /\ UNCHANGED <<work, txns, stash, queue, seen, nonces, faults, outcome>>
      /\ SetTop(r, ApplyFrom(f, f.i + 1))
  BY DEF removeDoc, Writing
<1>2. /\ stack[r] # <<>> /\ f.pc \in AdvancePcs /\ d \in Docs /\ f.t.id \in Txns
      /\ txns[f.t.id].s \in {"applying", "applied"}
  BY <1>1, WritingFacts
<1>3. TxnPart
  BY <1>1, TxnSame
<1>4. CASE Matches(f, docs[d])
  <2>1. docs' = [docs EXCEPT ![d] = NoDoc] /\ Changed(d, f.t.id)
    BY <1>4, Zenon DEF removeDoc
  <2>2. DocPart
    BY <1>1, <1>2, <1>3, <2>1, NoDocFacts, DocWrite
  <2>3. LogPart
    BY <1>1, <1>2, <1>3, <2>1, LogWrite
  <2> QED BY <1>1, <1>2, <2>2, <2>3, NextOpFacts, PartsWrite, SetTopKeeps
<1>5. CASE ~Matches(f, docs[d])
  <2>1. UNCHANGED <<docs, log>>
    BY <1>5, Zenon DEF removeDoc
  <2> QED BY <1>1, <1>2, <2>1, NextOpFacts, PartsSame, SetTopKeeps
<1> QED BY <1>4, <1>5

(* An insert marks the stash and copies its queue,                         *)
LEMMA insertMarkKeeps == ASSUME IInv, NEW r \in Runners, insertMark(r) PROVE GoodStep
<1> DEFINE f == Top(r)
           d == Op(f).doc
           x == f.t.id
           e == [stash[d] EXCEPT !.mark = x]
           q == stash[d].queue
<1>1. /\ At(r, "insertMark") /\ {"insertMark", "insertDoc"} \subseteq Writing \cap Inserting
      /\ UNCHANGED <<work, txns, docs, queue, seen, nonces, faults, outcome, log>>
  BY DEF insertMark, Writing, Inserting
<1>2. /\ stack[r] # <<>> /\ f.pc \in AdvancePcs /\ d \in Docs /\ x \in Txns /\ f.pc \in Writing \cap Inserting
      /\ f \in AdvanceFrames /\ AdvanceOk(f, txns, nonces, ops) /\ f.nonce \in Nat
  BY <1>1, WritingFacts
<1>3. CASE MatchesStash(f, stash[d])
  <2>1. stash' = [stash EXCEPT ![d].mark = x] /\ SetTop(r, [f EXCEPT !.pc = "insertDoc", !.copy = q])
    BY <1>3, Zenon DEF insertMark
  <2>2. stash' = [stash EXCEPT ![d] = e]
    BY <2>1
  <2>3. stash[d] \in StashRecs /\ DocOk(stash[d], txns)
    BY <1>2 DEF IInv, TypeInv
  <2>4. e \in StashRecs /\ e.queue = q /\ e.mark = x
    BY <1>2, <2>3 DEF StashRecs
  <2>5. Started(x, txns)
    BY <1>2, CopyFacts
  <2>6. q \in Seq(Tokens) /\ TokensOk(q, txns)
    BY <1>2, DocFacts
  <2> HIDE DEF e, d, q
  <2>7. DocOk(e, txns')
    BY <1>1, <2>4, <2>5, <2>6 DEF DocOk
  <2>8. Parts(r)
    BY <1>1, <1>2, <2>2, <2>4, <2>7, TxnSame, StashWrite, PartsDoc
  <2> HIDE DEF f
  <2>9. /\ [f EXCEPT !.pc = "insertDoc", !.copy = q] \in AdvanceFrames
        /\ AdvanceOk([f EXCEPT !.pc = "insertDoc", !.copy = q], txns', nonces', ops)
    BY <1>1, <1>2, <2>6, WriteFacts
  <2> QED BY <1>2, <2>1, <2>8, <2>9, SetTopKeeps DEF f
<1>4. CASE ~MatchesStash(f, stash[d])
  <2>1. SetTop(r, ApplyFrom(f, f.i + 1)) /\ UNCHANGED stash
    BY <1>4, Zenon DEF insertMark
  <2>2. "insertMark" \in Writing
    BY <1>1
  <2> QED BY <1>1, <1>2, <2>1, <2>2, NextOpFacts, PartsSame, SetTopKeeps
<1> QED BY <1>3, <1>4

(* makes the document,                                                     *)
LEMMA insertDocKeeps == ASSUME IInv, NEW r \in Runners, insertDoc(r) PROVE GoodStep
<1> DEFINE f == Top(r)
           d == Op(f).doc
           x == f.t.id
           revno == -f.t.r[f.i] + 1
           e == [in |-> TRUE, revno |-> revno, queue |-> f.copy, mark |-> 0]
<1>1. /\ At(r, "insertDoc") /\ {"insertDoc", "insertStash"} \subseteq Writing \cap Inserting
      /\ UNCHANGED <<work, txns, stash, queue, seen, nonces, faults, outcome>>
      /\ SetTop(r, [f EXCEPT !.pc = "insertStash"])
  BY DEF insertDoc, Writing, Inserting
<1>2. /\ stack[r] # <<>> /\ f.pc \in AdvancePcs /\ d \in Docs /\ x \in Txns /\ f.pc \in Writing \cap Inserting
      /\ f \in AdvanceFrames /\ AdvanceOk(f, txns, nonces, ops) /\ f.nonce \in Nat
      /\ f.copy \in Seq(Tokens) /\ TokensOk(f.copy, txns) /\ f.t.r[f.i] \in Int
      /\ txns[x].s \in {"applying", "applied"}
  BY <1>1, WritingFacts
<1>3. [f EXCEPT !.pc = "insertStash"] \in AdvanceFrames /\ AdvanceOk([f EXCEPT !.pc = "insertStash"], txns', nonces', ops)
  <2> HIDE DEF f
  <2> QED BY <1>1, <1>2, WriteFacts
<1>4. CASE docs[d].in
  <2>1. UNCHANGED <<docs, log>>
    BY <1>4, Zenon DEF insertDoc
  <2> QED BY <1>1, <1>2, <1>3, <2>1, PartsSame, SetTopKeeps
<1>5. CASE ~docs[d].in
  <2>1. docs' = [docs EXCEPT ![d] = e] /\ Changed(d, x)
    BY <1>5, Zenon DEF insertDoc
  <2>2. revno \in Nat
    <3>1. f.t.r[f.i] < 0
      BY <1>2 DEF AdvanceOk
    <3> QED BY <1>2, <3>1
  <2> DEFINE copy == f.copy
  <2>3. copy \in Seq(Tokens) /\ TokensOk(copy, txns') /\ e = [in |-> TRUE, revno |-> revno, queue |-> copy, mark |-> 0]
    BY <1>1, <1>2
  <2> HIDE DEF e, copy, revno, d, f
  <2>4. e \in DocRecs /\ DocOk(e, txns')
    BY <2>2, <2>3 DEF DocRecs, DocOk
  <2>5. DocPart
    BY <1>1, <1>2, <2>1, <2>4, TxnSame, DocWrite
  <2>6. LogPart
    BY <1>1, <1>2, <2>1, TxnSame, LogWrite
  <2> QED BY <1>1, <1>2, <1>3, <2>5, <2>6, PartsWrite, SetTopKeeps DEF f
<1> QED BY <1>4, <1>5

(* and takes the stash away.                                               *)
LEMMA insertStashKeeps == ASSUME IInv, NEW r \in Runners, insertStash(r) PROVE GoodStep
<1> DEFINE f == Top(r)
           d == Op(f).doc
<1>1. /\ At(r, "insertStash") /\ "insertStash" \in Writing
      /\ UNCHANGED <<work, txns, docs, queue, seen, nonces, faults, outcome, log>>
      /\ SetTop(r, ApplyFrom(f, f.i + 1))
  BY DEF insertStash, Writing, Inserting
<1>2. stack[r] # <<>> /\ f.pc \in AdvancePcs /\ d \in Docs
  BY <1>1, WritingFacts
<1>3. stash' = [stash EXCEPT ![d] = NoStash] \/ UNCHANGED stash
  BY Zenon DEF insertStash
<1>4. Parts(r)
  <2>1. CASE stash' = [stash EXCEPT ![d] = NoStash]
    BY <1>1, <1>2, <2>1, TxnSame, NoDocFacts, StashWrite, PartsDoc
  <2>2. CASE UNCHANGED stash
    BY <1>1, <2>2, PartsSame
  <2> QED BY <1>3, <2>1, <2>2
<1> QED BY <1>1, <1>2, <1>4, NextOpFacts, SetTopKeeps

(* The last step of applying is its state.                                 *)
LEMMA setAppliedKeeps == ASSUME IInv, NEW r \in Runners, setApplied(r) PROVE GoodStep
<1> DEFINE f == Top(r)
           x == f.t.id
           u == [txns[x] EXCEPT !.s = "applied"]
           t == [f.t EXCEPT !.s = "applied"]
<1>1. /\ At(r, "setApplied") /\ "setApplied" \in AdvancePcs /\ "setApplied" \in Applying
      /\ UNCHANGED <<work, docs, stash, queue, seen, nonces, faults, outcome, log>>
      /\ SetTop(r, Again(f, t))
  BY PcFacts DEF setApplied, Applying
<1>2. /\ stack[r] # <<>> /\ f.pc \in AdvancePcs /\ f \in AdvanceFrames /\ AdvanceOk(f, txns, nonces, ops)
      /\ f.pc = "setApplied"
  BY <1>1, TopIs
<1>3. /\ f.t.s = "applying" /\ f.t \in TxnRecs /\ x \in Txns /\ txns[x] \in TxnRecs /\ txns[x].id = x
      /\ Extends(f.t, txns[x])
  BY <1>1, <1>2, CopyFacts DEF AdvanceOk
<1>4. txns[x].s \in {"applying", "applied"} /\ txns[x].n = f.t.n /\ txns[x].r = f.t.r
  BY <1>3 DEF Extends, Onward
<1>5. t \in TxnRecs /\ t.id = x /\ t.n = txns[x].n /\ t.s = "applied" /\ t.r = txns[x].r
  BY <1>3, <1>4 DEF TxnRecs, States
<1>6. CASE txns[x].s = "applying"
  <2>1. txns' = [txns EXCEPT ![x].s = "applied"]
    BY <1>6, Zenon DEF setApplied
  <2>2. txns' = [txns EXCEPT ![x] = u]
    BY <2>1
  <2>3. u \in TxnRecs /\ u.id = x /\ u.n = txns[x].n /\ u.s = "applied" /\ u.r = txns[x].r
    BY <1>3 DEF TxnRecs, States
  <2> HIDE DEF u, t, f
  <2>4. Extends(txns[x], u) /\ Extends(t, u)
    BY <1>3, <1>4, <1>5, <1>6, <2>3 DEF Extends, Onward, States
  <2>5. u.n <= nonces[x] /\ Len(u.r) = Len(ops[x])
    BY <1>3, <1>4, <2>3 DEF IInv, TxnOk
  <2>6. TxnPart /\ Backed(t, txns')
    BY <1>1, <1>3, <1>5, <2>2, <2>3, <2>4, <2>5, TxnWrite
  <2>7. Again(f, t) \in AdvanceFrames /\ AdvanceOk(Again(f, t), txns', nonces', ops)
    BY <1>2, <1>5, <2>6, AgainFacts
  <2> QED BY <1>1, <1>2, <2>6, <2>7, PartsTxn, SetTopKeeps DEF f
<1>7. CASE txns[x].s # "applying"
  <2>1. UNCHANGED txns
    BY <1>7, Zenon DEF setApplied
  <2> HIDE DEF t, f
  <2>2. Backed(t, txns')
    BY <1>3, <1>4, <1>5, <1>7, <2>1 DEF Backed, Extends, Onward
  <2>3. Again(f, t) \in AdvanceFrames /\ AdvanceOk(Again(f, t), txns', nonces', ops)
    BY <1>2, <1>5, <2>2, AgainFacts
  <2> QED BY <1>1, <1>2, <2>1, <2>3, PartsSame, SetTopKeeps DEF f
<1> QED BY <1>6, <1>7

-----------------------------------------------------------------------------
(* run and recurse.                                                        *)

(* flush starts with the calls of run, recurse and advance.                *)
LEMMA FlushKeeps ==
    ASSUME IInv, NEW r \in Runners, TxnPart, UNCHANGED <<docs, stash, log>>, faults' \in Nat,
           NEW t \in TxnRecs, Backed(t, txns'), flush(r, t)
    PROVE  GoodStep
<1> DEFINE none == <<>>
           run == [pc |-> "run", id |-> t.id, todo |-> none]
           visit == RecurseFrame(t.id)
           call == AdvanceFrame(t, {t.id}, FALSE)
           S == [NothingSeen EXCEPT ![t.id] = t]
<1>0. /\ seen \in [Runners -> [Txns -> TxnRecs]] /\ stack \in [Runners -> Seq(Frames)]
      /\ outcome \in [Runners -> {"ok", "lost", "panic"}]
  BY DEF IInv, TypeInv
<1>1. /\ stack' = [stack EXCEPT ![r] = <<run, visit, call>>] /\ seen' = [seen EXCEPT ![r] = S]
      /\ UNCHANGED <<queue, outcome>>
  BY Zenon DEF flush
<1>2. t.id \in Txns /\ t.id # 0 /\ t.id \in Nat /\ t.s # "none" /\ Started(t.id, txns')
  <2>1. t.id \in Txns /\ t.s # "none" /\ Extends(t, txns'[t.id])
    BY DEF Backed
  <2>2. txns'[t.id] \in TxnRecs
    BY <2>1 DEF TxnPart
  <2>3. txns'[t.id].s # "none"
    BY <2>1, <2>2 DEF Extends, Onward, TxnRecs, States
  <2> QED BY <2>1, <2>3, TxnsAssumption DEF Started
<1>3. S \in [Txns -> TxnRecs] /\ \A x \in Txns : S[x] = t \/ S[x].id = 0
  <2> DEFINE zero == [id |-> 0, s |-> "none", n |-> 0, r |-> none]
  <2>1. NothingSeen = [x \in Txns |-> zero] /\ none \in Seq(Int)
    BY DEF NothingSeen, NoTxn
  <2> HIDE DEF none
  <2>2. zero \in TxnRecs /\ zero.id = 0
    BY <2>1 DEF TxnRecs, States
  <2> HIDE DEF zero
  <2> QED BY <1>2, <2>1, <2>2
<1>4. S[t.id] = t
  BY <1>2 DEF NothingSeen
<1> HIDE DEF S
<1>5. SeenPart(r) /\ seen'[r] = S
  <2>1. SeenOk(S, txns')
    <3> SUFFICES ASSUME NEW x \in Txns, S[x].id # 0 PROVE S[x].id = x /\ Backed(S[x], txns')
      BY DEF SeenOk
    <3>1. S[x] = t
      BY <1>3
    <3>2. x = t.id
      <4>1. x # t.id => S[x].id = 0
        BY <1>2, Zenon DEF S, NothingSeen, NoTxn
      <4> QED BY <4>1
    <3> QED BY <3>1, <3>2
  <2> QED BY <1>0, <1>1, <1>3, <2>1 DEF SeenPart
<1>6. DocPart /\ LogPart /\ QueuePart(r) /\ EndPart
  BY <1>0, <1>1, DocSame, LogSame, QueueSame DEF EndPart
<1>7. run \in Frames /\ FrameOk(run, txns', nonces', ops, S) /\ run.pc \in {"run", "order"}
  <2> DEFINE calls == [id : Txns, pull : SUBSET Nat]
  <2>1. none \in Seq(calls) /\ \A k \in DOMAIN none : FALSE
    BY DEF calls
  <2> HIDE DEF none, calls
  <2>2. run \in [pc : {"run", "order"}, id : Txns, todo : Seq(calls)] /\ run.pc = "run" /\ run.id = t.id /\ run.todo = none
    BY <1>2, <2>1
  <2>3. run \in Frames
    BY <2>2 DEF Frames, RunFrames, calls
  <2> HIDE DEF run
  <2>4. run.pc \notin AdvancePcs
    BY <2>2, PcFacts
  <2>5. FrameOk(run, txns', nonces', ops, S)
    BY <1>2, <1>4, <2>1, <2>2, <2>4 DEF FrameOk
  <2> QED BY <2>2, <2>3, <2>5
<1>8. visit \in Frames /\ FrameOk(visit, txns', nonces', ops, S)
  <2>1. visit = [pc |-> "recurse", id |-> t.id, i |-> -1, todo |-> none]
    BY DEF RecurseFrame
  <2>2. none \in Seq(Txns) /\ \A k \in DOMAIN none : FALSE
    OBVIOUS
  <2> HIDE DEF none
  <2>3. visit \in Frames /\ visit.pc = "recurse" /\ visit.id = t.id /\ visit.todo = none
    BY <1>2, <2>1, <2>2 DEF Frames, RecurseFrames
  <2> HIDE DEF visit
  <2> QED BY <1>2, <2>2, <2>3, PcFacts DEF FrameOk
<1>9. call \in Frames /\ FrameOk(call, txns', nonces', ops, S)
  <2>1. {t.id} \in SUBSET Nat /\ FALSE \in BOOLEAN
    BY <1>2
  <2>2. call \in AdvanceFrames /\ AdvanceOk(call, txns', nonces', ops)
    BY <2>1, AdvanceFrameFacts
  <2> QED BY <2>2, AdvanceFrameOk
<1> HIDE DEF run, visit, call
<1>10. StackOk(Append(Append(Append(<<>>, run), visit), call), txns', nonces', ops, S)
  <2>1. StackOk(<<>>, txns', nonces', ops, S)
    BY DEF StackOk
  <2>2. StackOk(Append(<<>>, run), txns', nonces', ops, S) /\ Append(<<>>, run) # <<>>
    BY <1>7, <2>1, AppendFacts
  <2>3. StackOk(Append(Append(<<>>, run), visit), txns', nonces', ops, S) /\ Append(Append(<<>>, run), visit) # <<>>
    BY <1>8, <2>2, AppendFacts
  <2> QED BY <1>9, <2>3, AppendFacts
<1>11. <<run, visit, call>> = Append(Append(Append(<<>>, run), visit), call)
  OBVIOUS
<1> QED BY <1>1, <1>5, <1>6, <1>10, <1>11, StepKeeps

(* Run inserts the record of a new transaction and begins to flush it.     *)
LEMMA RunKeeps == ASSUME IInv, NEW r \in Runners, NEW id \in Txns, Run(r, id) PROVE GoodStep
<1> DEFINE none == <<>>
           t == [id |-> id, s |-> "preparing", n |-> 0, r |-> none]
<1>1. /\ txns[id].s = "none" /\ txns' = [txns EXCEPT ![id] = t] /\ flush(r, t)
      /\ UNCHANGED <<work, docs, stash, nonces, faults, log>>
  BY Zenon DEF Run
<1>2. none \in Seq(Int) /\ id \in Nat
  BY TxnsAssumption
<1> HIDE DEF none
<1>3. t \in TxnRecs /\ t.id = id /\ t.s = "preparing" /\ t.n = 0
  BY <1>2 DEF TxnRecs, States
<1> HIDE DEF t
<1>4. Extends(txns[id], t) /\ Extends(t, t)
  BY <1>1, <1>3, ExtendsSelf DEF Extends, Onward, States
<1>5. t.n <= nonces[id] /\ faults' \in Nat
  BY <1>1, <1>3 DEF IInv, TypeInv
<1>6. TxnPart /\ Backed(t, txns')
  BY <1>1, <1>3, <1>4, <1>5, TxnWrite
<1> QED BY <1>1, <1>3, <1>5, <1>6, FlushKeeps

(* Resume begins to flush a record it found,                               *)
LEMMA ResumeKeeps == ASSUME IInv, NEW r \in Runners, NEW id \in Txns, Resume(r, id) PROVE GoodStep
<1>1. /\ txns[id].s # "none" /\ flush(r, txns[id]) /\ (faults' = faults + 1 \/ faults' = faults)
      /\ UNCHANGED <<work, txns, docs, stash, nonces, log>>
  BY Zenon DEF Resume
<1>2. Started(id, txns) /\ faults' \in Nat
  BY <1>1 DEF Started, IInv, TypeInv
<1>3. txns[id] \in TxnRecs /\ Backed(txns[id], txns)
  BY <1>2, LoadFacts
<1> QED BY <1>1, <1>2, <1>3, TxnSame, FlushKeeps

(* a runner is killed wherever it is,                                      *)
LEMMA CrashKeeps == ASSUME IInv, NEW r \in Runners, Crash(r) PROVE GoodStep
<1>1. Leave(r, "ok") /\ faults' = faults + 1 /\ UNCHANGED <<work, txns, docs, stash, nonces, log>>
  BY DEF Crash
<1>2. faults' \in Nat
  BY <1>1 DEF IInv, TypeInv
<1> QED BY <1>1, <1>2, LeaveKeeps

(* and one that is done leaves.                                            *)
LEMMA runDoneKeeps == ASSUME IInv, NEW r \in Runners, runDone(r) PROVE GoodStep
<1>1. (Leave(r, "ok") \/ Leave(r, "panic")) /\ UNCHANGED <<work, txns, docs, stash, nonces, faults, log>>
  BY Zenon DEF runDone
<1>2. faults' \in Nat
  BY <1>1 DEF IInv, TypeInv
<1> QED BY <1>1, <1>2, LeaveKeeps

(* The first of a sequence and the others.                                 *)
LEMMA HeadFacts ==
    ASSUME NEW X, NEW s \in Seq(X), s # <<>>
    PROVE  Head(s) \in X /\ Tail(s) \in Seq(X)
OBVIOUS

(* The transactions recurse may go to were all started.                    *)
LEMMA VisitFacts ==
    ASSUME IInv, NEW r \in Runners, NEW f \in RecurseFrames, \A k \in DOMAIN f.todo : Started(f.todo[k], txns), Started(f.id, txns)
    PROVE  LET next == NextToVisit(r, f)
           IN  next.id # 0 => /\ Started(next.id, txns) /\ next.i \in Int /\ next.todo \in Seq(Txns)
                              /\ \A k \in DOMAIN next.todo : Started(next.todo[k], txns)
<1> DEFINE X == {x \in Txns : Started(x, txns)}
           next == NextToVisit(r, f)
           left == Unseen(r, f.todo)
           more == {d \in Keys(f.id) : d > f.i /\ Unseen(r, IdsOf(queue[r][d])) # <<>>}
<1>1. ASSUME NEW s \in Seq(X) PROVE Unseen(r, s) \in Seq(X)
  <2> DEFINE S == {id \in Txns : seen[r][id].id = 0}
             Y == {x \in Range(s) : x \in S}
  <2>1. Keep(s, S) \in Seq(Y)
    BY KeepFacts
  <2>2. \A y \in Y : y \in X
    BY DEF Range
  <2> HIDE DEF X, Y, S
  <2>3. Keep(s, S) \in Seq(X)
    BY <2>1, <2>2
  <2> QED BY <2>3 DEF Unseen, S
<1>2. f.todo \in Seq(X) /\ f.id \in Txns /\ f.i \in Int
  <2>1. f.todo \in Seq(Txns) /\ f.id \in Txns /\ f.i \in Int
    BY DEF RecurseFrames
  <2>2. \A k \in DOMAIN f.todo : f.todo[k] \in X
    BY <2>1
  <2> HIDE DEF X
  <2> QED BY <2>1, <2>2
<1>3. left \in Seq(X)
  BY <1>1, <1>2
<1>4. ASSUME NEW d \in Docs PROVE Unseen(r, IdsOf(queue[r][d])) \in Seq(X)
  <2> DEFINE q == queue[r][d]
  <2>1. q \in Seq(Tokens) /\ TokensOk(q, txns)
    BY DEF IInv, TypeInv
  <2>2. \A k \in DOMAIN q : q[k][1] \in X
    BY <2>1 DEF TokensOk, Started
  <2>3. DOMAIN q = 1..Len(q) /\ Len(q) \in Nat
    BY <2>1
  <2> HIDE DEF q, X
  <2>4. IdsOf(q) \in Seq(X)
    BY <2>2, <2>3 DEF IdsOf
  <2> QED BY <1>1, <2>4 DEF q
<1>5. Keys(f.id) \subseteq Docs
  <2>1. TypeInv
    BY DEF IInv
  <2>2. ops[f.id] \in Seq(OpRecords)
    BY <1>2, <2>1, OpsFacts DEF OpsOk
  <2>3. \A k \in DOMAIN ops[f.id] : ops[f.id][k] \in OpRecords
    BY <2>2
  <2> QED BY <2>3 DEF Keys, OpRecords
<1>6. more # {} => Min(more) \in more
  <2>1. more \subseteq Nat
    BY <1>5, DocsAssumption
  <2> HIDE DEF more
  <2> QED BY <2>1, MinFacts
<1> DEFINE m == Min(more)
           u == Unseen(r, IdsOf(queue[r][m]))
<1>7. more # {} => m \in Docs /\ m \in Int /\ u # <<>>
  <2>1. more # {} => m \in Keys(f.id) /\ u # <<>>
    BY <1>6
  <2>2. \A d \in Docs : d \in Int
    BY DocsAssumption
  <2> HIDE DEF m, u, more
  <2> QED BY <1>5, <2>1, <2>2
<1>8. more # {} => u \in Seq(X)
  <2> HIDE DEF m, more
  <2> QED BY <1>4, <1>7
<1>9. \/ next = [id |-> 0]
      \/ left # <<>> /\ next = [id |-> Head(left), i |-> f.i, todo |-> Tail(left)]
      \/ more # {} /\ next = [id |-> Head(u), i |-> m, todo |-> Tail(u)]
  <2>1. CASE f.i < 0
    <3>1. ~(f.i >= 0)
      BY <1>2, <2>1
    <3> QED BY <2>1, <3>1, Zenon DEF NextToVisit
  <2>2. CASE ~(f.i < 0)
    <3>1. f.i >= 0
      BY <1>2, <2>2
    <3> QED BY <2>2, <3>1, Zenon DEF NextToVisit
  <2> QED BY <2>1, <2>2
<1> HIDE DEF left, more, m, u, next
<1>10. CASE next = [id |-> 0]
  BY <1>10 DEF next
<1>11. CASE left # <<>> /\ next = [id |-> Head(left), i |-> f.i, todo |-> Tail(left)]
  <2>1. Head(left) \in X /\ Tail(left) \in Seq(X)
    BY <1>3, <1>11, HeadFacts
  <2>2. next.id \in X /\ next.i \in Int /\ next.todo \in Seq(X)
    BY <1>2, <1>11, <2>1
  <2>3. \A x \in X : x \in Txns /\ Started(x, txns)
    OBVIOUS
  <2> HIDE DEF X
  <2>4. next.todo \in Seq(Txns) /\ \A k \in DOMAIN next.todo : next.todo[k] \in X
    BY <2>2, <2>3
  <2> QED BY <2>2, <2>3, <2>4 DEF next
<1>12. CASE more # {} /\ next = [id |-> Head(u), i |-> m, todo |-> Tail(u)]
  <2>1. Head(u) \in X /\ Tail(u) \in Seq(X)
    BY <1>7, <1>8, <1>12, HeadFacts
  <2>2. next.id \in X /\ next.i \in Int /\ next.todo \in Seq(X)
    BY <1>7, <1>12, <2>1
  <2>3. \A x \in X : x \in Txns /\ Started(x, txns)
    OBVIOUS
  <2> HIDE DEF X
  <2>4. next.todo \in Seq(Txns) /\ \A k \in DOMAIN next.todo : next.todo[k] \in X
    BY <2>2, <2>3
  <2> QED BY <2>2, <2>3, <2>4 DEF next
<1> QED BY <1>9, <1>10, <1>11, <1>12

(* recurse goes on to the next document or visits one more transaction.    *)
LEMMA recurseKeeps == ASSUME IInv, NEW r \in Runners, recurse(r) PROVE GoodStep
<1> DEFINE f == Top(r)
           next == NextToVisit(r, f)
           t == txns[next.id]
           g == [f EXCEPT !.i = next.i, !.todo = next.todo]
<1>1. /\ stack[r] # <<>> /\ f.pc = "recurse" /\ stack \in [Runners -> Seq(Frames)]
      /\ StackOk(stack[r], txns, nonces, ops, seen[r])
      /\ UNCHANGED <<work, txns, docs, stash, queue, nonces, faults, outcome, log>>
  BY DEF recurse, At, IInv, TypeInv
<1>2. f \in Frames /\ FrameOk(f, txns, nonces, ops, seen[r])
  BY <1>1, FrontFacts DEF Top
<1>3. f \in RecurseFrames
  BY <1>1, <1>2, PcFacts DEF Frames, RunFrames, AdvanceFrames
<1>4. Started(f.id, txns) /\ \A k \in DOMAIN f.todo : Started(f.todo[k], txns)
  BY <1>1, <1>2 DEF FrameOk
<1>5. TxnPart /\ DocPart /\ LogPart /\ EndPart /\ QueuePart(r)
  BY <1>1, TxnSame, DocSame, LogSame, EndSame, QueueSame
<1>6. CASE next.id = 0
  <2>1. stack' = [stack EXCEPT ![r] = Front(@)] /\ UNCHANGED seen
    BY <1>6, Zenon DEF recurse
  <2>2. stack' = [stack EXCEPT ![r] = Front(stack[r])]
    BY <2>1
  <2>3. StackOk(Front(stack[r]), txns', nonces', ops, seen'[r])
    BY <1>1, <2>1, FrontFacts
  <2> QED BY <1>5, <2>1, <2>2, <2>3, SeenSame, StepKeeps
<1>7. CASE next.id # 0
  <2> DEFINE visit == RecurseFrame(t.id)
             call == AdvanceFrame(t, {t.id}, FALSE)
  <2>1. seen' = [seen EXCEPT ![r][next.id] = t] /\ stack' = [stack EXCEPT ![r] = Front(@) \o <<g, visit, call>>]
    BY <1>7, Zenon DEF recurse
  <2>2. /\ Started(next.id, txns) /\ next.i \in Int /\ next.todo \in Seq(Txns)
        /\ \A k \in DOMAIN next.todo : Started(next.todo[k], txns)
    BY <1>3, <1>4, <1>7, VisitFacts
  <2>3. t \in TxnRecs /\ t.id = next.id /\ Backed(t, txns) /\ t.id \in Txns /\ t.id \in Nat
    BY <2>2, LoadFacts, TxnsAssumption
  <2> HIDE DEF f, next, t
  <2>4. seen' = [seen EXCEPT ![r][t.id] = t]
    BY <2>1, <2>3
  <2>5. SeenPart(r) /\ \A x \in Txns : seen[r][x].id # 0 => seen'[r][x].id # 0
    BY <1>1, <1>5, <2>3, <2>4, SeenRead
  <2>6. StackOk(stack[r], txns', nonces', ops, seen'[r])
    BY <1>5, <2>5, StackLater
  <2>7. StackOk(Front(stack[r]), txns', nonces', ops, seen'[r]) /\ Front(stack[r]) # <<>>
    BY <1>1, <2>6, FrontFacts DEF f, Top
  <2>8. g \in Frames /\ FrameOk(g, txns', nonces', ops, seen'[r])
    <3>1. g \in RecurseFrames /\ g.pc = "recurse" /\ g.id = f.id /\ g.todo = next.todo
      BY <1>1, <1>3, <2>2 DEF RecurseFrames
    <3> HIDE DEF g
    <3>2. g \in Frames
      BY <3>1 DEF Frames
    <3> QED BY <1>1, <1>4, <2>2, <3>1, <3>2, PcFacts DEF FrameOk
  <2>9. visit \in Frames /\ FrameOk(visit, txns', nonces', ops, seen'[r])
    <3> DEFINE none == <<>>
    <3>1. visit = [pc |-> "recurse", id |-> t.id, i |-> -1, todo |-> none]
      BY DEF RecurseFrame
    <3>2. none \in Seq(Txns) /\ \A k \in DOMAIN none : FALSE
      OBVIOUS
    <3> HIDE DEF none
    <3>3. visit \in Frames /\ visit.pc = "recurse" /\ visit.id = t.id /\ visit.todo = none
      BY <2>3, <3>1, <3>2 DEF Frames, RecurseFrames
    <3> HIDE DEF visit
    <3> QED BY <1>1, <2>2, <2>3, <3>2, <3>3, PcFacts DEF FrameOk
  <2>10. call \in Frames /\ FrameOk(call, txns', nonces', ops, seen'[r])
    <3>1. {t.id} \in SUBSET Nat /\ FALSE \in BOOLEAN
      BY <2>3
    <3>2. call \in AdvanceFrames /\ AdvanceOk(call, txns', nonces', ops)
      BY <1>1, <2>3, <3>1, AdvanceFrameFacts
    <3> QED BY <3>2, AdvanceFrameOk
  <2> DEFINE rest == Front(stack[r])
  <2> HIDE DEF g, visit, call
  <2>11. StackOk(Append(Append(Append(rest, g), visit), call), txns', nonces', ops, seen'[r])
    <3>1. StackOk(Append(rest, g), txns', nonces', ops, seen'[r]) /\ Append(rest, g) # <<>>
      BY <2>7, <2>8, AppendFacts
    <3>2. StackOk(Append(Append(rest, g), visit), txns', nonces', ops, seen'[r]) /\ Append(Append(rest, g), visit) # <<>>
      BY <2>9, <3>1, AppendFacts
    <3> QED BY <2>10, <3>2, AppendFacts
  <2>12. rest \o <<g, visit, call>> = Append(Append(Append(rest, g), visit), call)
    <3>1. rest \in Seq(Frames)
      BY <2>7 DEF StackOk
    <3> HIDE DEF rest
    <3> QED BY <2>8, <2>9, <2>10, <3>1
  <2>13. stack' = [stack EXCEPT ![r] = rest \o <<g, visit, call>>]
    BY <2>1
  <2> HIDE DEF rest
  <2> QED BY <1>5, <2>5, <2>11, <2>12, <2>13, StepKeeps
<1> QED BY <1>6, <1>7

(* The calls of advance in an order, of transactions that were seen.       *)
LEMMA FlushesFacts ==
    ASSUME NEW V, V \subseteq Txns, NEW E, NEW order \in tarjanSort(V, E)
    PROVE  /\ Flushes(V, E, order) \in Seq([id : Txns, pull : SUBSET Nat])
           /\ \A k \in DOMAIN Flushes(V, E, order) : Flushes(V, E, order)[k].id \in V
<1> DEFINE n == Cardinality(V)
           pull(k) == LET scc == Component(V, E, order[k])
                          earlier == {order[j] : j \in 1..(k - 1)} \ scc
                      IN  earlier \cup (IF scc = {order[k]} THEN scc ELSE {})
           calls == [id : Txns, pull : SUBSET Nat]
           fl == Flushes(V, E, order)
<1>1. n \in Nat
  BY TxnsAssumption, FS_Subset, FS_CardinalityType
<1>2. order \in [1..n -> V]
  BY DEF tarjanSort, SetToSeqs
<1>3. fl = [k \in 1..n |-> [id |-> order[k], pull |-> pull(k)]]
  BY <1>2 DEF Flushes
<1>4. \A k \in 1..n : pull(k) \in SUBSET Nat
  <2> SUFFICES ASSUME NEW k \in 1..n PROVE pull(k) \subseteq Nat
    OBVIOUS
  <2>1. Component(V, E, order[k]) \subseteq V
    BY DEF Component
  <2>2. \A j \in 1..(k - 1) : order[j] \in V
    <3>1. \A j \in 1..(k - 1) : j \in 1..n
      BY <1>1
    <3> QED BY <1>2, <3>1
  <2>3. V \subseteq Nat
    BY TxnsAssumption
  <2> QED BY <2>1, <2>2, <2>3
<1> HIDE DEF n, pull, fl
<1>5. \A k \in 1..n : [id |-> order[k], pull |-> pull(k)] \in calls
  BY <1>2, <1>4
<1>6. DOMAIN fl = 1..n /\ \A k \in 1..n : fl[k].id \in V /\ fl[k] = [id |-> order[k], pull |-> pull(k)]
  BY <1>2, <1>3
<1> HIDE DEF calls
<1>7. fl \in Seq(calls)
  BY <1>1, <1>3, <1>5
<1> QED BY <1>6, <1>7 DEF calls, fl

(* What the call of run at the top of a stack says.                        *)
LEMMA RunIs ==
    ASSUME IInv, NEW r \in Runners, NEW pc \in {"run", "order"}, At(r, pc)
    PROVE  /\ stack[r] # <<>> /\ Top(r) \in RunFrames /\ Top(r) \in Frames /\ Top(r).pc = pc
           /\ Top(r).id \in Txns /\ seen[r][Top(r).id].id # 0
           /\ \A k \in DOMAIN Top(r).todo : seen[r][Top(r).todo[k].id].id # 0
<1>1. StackOk(stack[r], txns, nonces, ops, seen[r]) /\ stack[r] # <<>> /\ Top(r).pc = pc
  BY DEF IInv, At
<1>2. Top(r) \in Frames /\ FrameOk(Top(r), txns, nonces, ops, seen[r])
  BY <1>1, FrontFacts DEF Top
<1>3. Top(r) \in RunFrames
  BY <1>1, <1>2, PcFacts DEF Frames, RecurseFrames, AdvanceFrames
<1>4. Top(r).id \in Txns
  BY <1>3 DEF RunFrames
<1> QED BY <1>1, <1>2, <1>3, <1>4 DEF FrameOk

(* run orders what it found and has the calls of advance to make.          *)
LEMMA runOrderKeeps == ASSUME IInv, NEW r \in Runners, runOrder(r) PROVE GoodStep
<1> DEFINE f == Top(r)
           E == successors(r)
           ready == \A e \in E : e[2] # f.id
           V == IF ready THEN {f.id} ELSE Queued(r)
           calls == [id : Txns, pull : SUBSET Nat]
<1>1. At(r, "run") /\ UNCHANGED <<work, txns, docs, stash, queue, seen, nonces, faults, outcome, log>>
  BY DEF runOrder
<1>2. /\ stack[r] # <<>> /\ f \in RunFrames /\ f \in Frames /\ f.pc = "run" /\ f.id \in Txns /\ seen[r][f.id].id # 0
  BY <1>1, RunIs
<1>3. V \subseteq Txns /\ \A x \in V : seen[r][x].id # 0
  <2> SUFFICES ASSUME NEW x \in Queued(r) PROVE x \in Txns /\ seen[r][x].id # 0
    BY <1>2
  <2>1. PICK tt \in Valid(r) : x = tt[1]
    BY DEF Queued
  <2>2. PICK d \in Docs : tt \in ToSet(queue[r][d])
    BY DEF Valid
  <2>3. queue[r][d] \in Seq(Tokens)
    BY DEF IInv, TypeInv
  <2>4. tt \in Tokens
    BY <2>2, <2>3 DEF ToSet
  <2>5. seen[r][tt[1]].id # 0
    BY DEF Valid
  <2> QED BY <2>1, <2>4, <2>5 DEF Tokens
<1>4. PICK order \in tarjanSort(V, E) : SetTop(r, [f EXCEPT !.pc = "order", !.todo = Flushes(V, E, order)])
  BY DEF runOrder
<1> DEFINE fl == Flushes(V, E, order)
           g == [f EXCEPT !.pc = "order", !.todo = fl]
<1> HIDE DEF V, E
<1>5. fl \in Seq(calls) /\ \A k \in DOMAIN fl : fl[k].id \in V
  BY <1>3, FlushesFacts
<1>6. SetTop(r, g) /\ stack \in [Runners -> Seq(Frames)] /\ StackOk(stack[r], txns, nonces, ops, seen[r])
  BY <1>4 DEF IInv, TypeInv
<1> HIDE DEF f, fl, calls
<1>7. g \in RunFrames /\ g.pc = "order" /\ g.id = f.id /\ g.todo = fl
  <2>1. f \in [pc : {"run", "order"}, id : Txns, todo : Seq(calls)]
    BY <1>2 DEF RunFrames, calls
  <2>2. g \in [pc : {"run", "order"}, id : Txns, todo : Seq(calls)] /\ g.pc = "order" /\ g.id = f.id /\ g.todo = fl
    BY <1>5, <2>1
  <2> QED BY <2>2 DEF RunFrames, calls
<1> HIDE DEF g
<1>8. g \in Frames /\ FrameOk(g, txns', nonces', ops, seen'[r]) /\ (g.pc \in {"run", "order"} <=> Last(stack[r]).pc \in {"run", "order"})
  <2>1. g \in Frames
    BY <1>7 DEF Frames
  <2>2. g.pc \notin AdvancePcs
    BY <1>7, PcFacts
  <2>3. FrameOk(g, txns', nonces', ops, seen'[r])
    BY <1>1, <1>2, <1>3, <1>5, <1>7, <2>2 DEF FrameOk
  <2> QED BY <1>2, <1>7, <2>1, <2>3 DEF f, Top
<1>9. Parts(r)
  BY <1>1, PartsSame
<1>10. StackOk(Append(Front(stack[r]), g), txns', nonces', ops, seen'[r])
  <2>1. StackOk(stack[r], txns', nonces', ops, seen'[r])
    BY <1>9, StackLater DEF Parts
  <2> QED BY <1>2, <1>8, <2>1, TopFacts
<1>11. stack' = [stack EXCEPT ![r] = Append(Front(stack[r]), g)]
  BY <1>6 DEF SetTop
<1> QED BY <1>9, <1>10, <1>11, StepKeeps DEF Parts

(* run calls advance for the next transaction it has to flush.             *)
LEMMA runNextKeeps == ASSUME IInv, NEW r \in Runners, runNext(r) PROVE GoodStep
<1> DEFINE f == Top(r)
           next == Head(f.todo)
           rest == Tail(f.todo)
           t == seen[r][next.id]
           g == [f EXCEPT !.todo = rest]
           c == AdvanceFrame(t, next.pull, TRUE)
           calls == [id : Txns, pull : SUBSET Nat]
<1>1. /\ At(r, "order") /\ f.todo # <<>> /\ Call(r, g, c)
      /\ UNCHANGED <<work, txns, docs, stash, queue, seen, nonces, faults, outcome, log>>
  BY DEF runNext
<1>2. /\ stack[r] # <<>> /\ f \in RunFrames /\ f \in Frames /\ f.pc = "order" /\ f.id \in Txns /\ seen[r][f.id].id # 0
      /\ \A k \in DOMAIN f.todo : seen[r][f.todo[k].id].id # 0
  BY <1>1, RunIs
<1> DEFINE todo == f.todo
           S == seen[r]
<1>3. /\ todo \in Seq(calls) /\ todo # <<>> /\ \A k \in DOMAIN todo : S[todo[k].id].id # 0
      /\ f \in [pc : {"run", "order"}, id : Txns, todo : Seq(calls)]
  BY <1>1, <1>2 DEF RunFrames
<1> HIDE DEF calls, todo, S
<1>4. rest \in Seq(calls) /\ next \in calls /\ S[next.id].id # 0 /\ \A k \in DOMAIN rest : S[rest[k].id].id # 0
  <2>1. Head(todo) \in calls /\ Tail(todo) \in Seq(calls) /\ Head(todo) = todo[1] /\ 1 \in DOMAIN todo
    BY <1>3
  <2>2. \A k \in DOMAIN Tail(todo) : k + 1 \in DOMAIN todo /\ Tail(todo)[k] = todo[k + 1]
    BY <1>3
  <2>3. S[Head(todo).id].id # 0 /\ \A k \in DOMAIN Tail(todo) : S[Tail(todo)[k].id].id # 0
    BY <1>3, <2>1, <2>2
  <2> QED BY <2>1, <2>3 DEF todo
<1>5. next.id \in Txns /\ next.pull \in SUBSET Nat
  BY <1>4 DEF calls
<1>6. t \in TxnRecs /\ Backed(t, txns)
  BY <1>4, <1>5 DEF IInv, TypeInv, SeenOk, S
<1> DEFINE pull == next.pull
<1> HIDE DEF next, rest, f, t
<1>7. c \in AdvanceFrames /\ AdvanceOk(c, txns', nonces', ops)
  <2>1. pull \in SUBSET Nat /\ TRUE \in BOOLEAN /\ c = AdvanceFrame(t, pull, TRUE)
    BY <1>5
  <2> HIDE DEF pull, c
  <2>2. AdvanceFrame(t, pull, TRUE) \in AdvanceFrames /\ AdvanceOk(AdvanceFrame(t, pull, TRUE), txns', nonces', ops)
    BY <1>1, <1>6, <2>1, AdvanceFrameFacts
  <2> QED BY <2>1, <2>2
<1>8. g \in RunFrames /\ g.pc = "order" /\ g.id = f.id /\ g.todo = rest
  <2>1. g \in [pc : {"run", "order"}, id : Txns, todo : Seq(calls)] /\ g.pc = "order" /\ g.id = f.id /\ g.todo = rest
    BY <1>2, <1>3, <1>4
  <2> QED BY <2>1 DEF RunFrames, calls
<1> HIDE DEF g, c
<1>9. g \in Frames /\ FrameOk(g, txns', nonces', ops, seen'[r]) /\ (g.pc \in {"run", "order"} <=> Last(stack[r]).pc \in {"run", "order"})
  <2>1. g \in Frames
    BY <1>8 DEF Frames
  <2>2. g.pc \notin AdvancePcs
    BY <1>8, PcFacts
  <2>3. FrameOk(g, txns', nonces', ops, seen'[r])
    BY <1>1, <1>2, <1>4, <1>8, <2>2 DEF FrameOk, S
  <2> QED BY <1>2, <1>8, <2>1, <2>3 DEF f, Top
<1>10. c \in Frames /\ FrameOk(c, txns', nonces', ops, seen'[r])
  BY <1>7, AdvanceFrameOk
<1>11. Parts(r) /\ stack \in [Runners -> Seq(Frames)]
  BY <1>1, PartsSame DEF IInv, TypeInv
<1>12. StackOk(Append(Append(Front(stack[r]), g), c), txns', nonces', ops, seen'[r])
  <2>1. StackOk(stack[r], txns', nonces', ops, seen'[r])
    BY <1>11, StackLater DEF Parts
  <2>2. StackOk(Append(Front(stack[r]), g), txns', nonces', ops, seen'[r]) /\ Append(Front(stack[r]), g) # <<>>
    BY <1>2, <1>9, <2>1, TopFacts
  <2> QED BY <1>10, <2>2, AppendFacts
<1>13. stack' = [stack EXCEPT ![r] = Append(Append(Front(stack[r]), g), c)]
  BY <1>1, <1>11 DEF Call
<1> QED BY <1>11, <1>12, <1>13, StepKeeps DEF Parts
-----------------------------------------------------------------------------
(* The invariant.                                                          *)

(* Whether a document exists is no part of its queue.                      *)
LEMMA InWrite ==
  ASSUME NEW x \in DocRecs, NEW ts, DocOk(x, ts), NEW b \in BOOLEAN
  PROVE  [x EXCEPT !.in = b] \in DocRecs /\ DocOk([x EXCEPT !.in = b], ts)
<1>1. [x EXCEPT !.in = b] \in DocRecs
  BY DEF DocRecs
<1>2. [x EXCEPT !.in = b].queue = x.queue /\ [x EXCEPT !.in = b].mark = x.mark
  BY DEF DocRecs
<1> QED BY <1>1, <1>2 DEF DocOk

(* Nothing was started, and nobody is at work.                             *)
LEMMA InitOk == Init => IInv
<1> SUFFICES ASSUME Init PROVE IInv
  OBVIOUS
<1> DEFINE none == <<>>
           zero == [id |-> 0, s |-> "none", n |-> 0, r |-> none]
           doc(d) == [NoDoc EXCEPT !.in = (d \in Workloads[work].exist)]
<1>1. none \in Seq(Int) /\ none \in Seq(Frames) /\ none \in Seq(Tokens) /\ none \in Seq(Txns) /\ DOMAIN none = {}
  OBVIOUS
<1>2. /\ work \in DOMAIN Workloads /\ docs = [d \in Docs |-> doc(d)] /\ txns = [t \in Txns |-> zero]
      /\ stash = [d \in Docs |-> NoStash] /\ stack = [r \in Runners |-> none]
      /\ queue = [r \in Runners |-> [d \in Docs |-> none]]
      /\ seen = [r \in Runners |-> [t \in Txns |-> zero]]
      /\ nonces = [t \in Txns |-> 0] /\ faults = 0 /\ outcome = [r \in Runners |-> "ok"] /\ log = [d \in Docs |-> none]
  BY DEF Init, NoTxn, NothingRead, NothingSeen
<1>3. NoTxn = zero
  BY DEF NoTxn
<1>4. ASSUME NEW d \in Docs PROVE doc(d) \in DocRecs /\ DocOk(doc(d), txns)
  <2> DEFINE b == (d \in Workloads[work].exist)
  <2>1. b \in BOOLEAN
    BY SMT
  <2>2. doc(d) = [NoDoc EXCEPT !.in = b]
    OBVIOUS
  <2> HIDE DEF b, doc
  <2>3. [NoDoc EXCEPT !.in = b] \in DocRecs /\ DocOk([NoDoc EXCEPT !.in = b], txns)
    BY <2>1, NoDocFacts, InWrite
  <2> QED BY <2>2, <2>3
<1>5. NoStash \in StashRecs /\ DocOk(NoStash, txns)
  BY NoDocFacts
<1> HIDE DEF none, doc
<1>6. zero \in TxnRecs /\ zero.id = 0 /\ zero.s = "none" /\ zero.n = 0
  BY <1>1 DEF TxnRecs, States
<1> HIDE DEF zero
<1>7. TypeInv
  BY <1>1, <1>2, <1>4, <1>5, <1>6 DEF TypeInv
<1>8. \A x \in Txns : TxnOk(x, txns, nonces, ops)
  BY <1>2, <1>3, <1>6 DEF TxnOk
<1>9. \A d \in Docs : DocOk(docs[d], txns) /\ DocOk(stash[d], txns)
  BY <1>2, <1>4, <1>5
<1>10. ASSUME NEW r \in Runners
       PROVE  /\ StackOk(stack[r], txns, nonces, ops, seen[r]) /\ SeenOk(seen[r], txns)
              /\ \A d \in Docs : TokensOk(queue[r][d], txns)
  <2>1. stack[r] = <<>> /\ seen[r] = [t \in Txns |-> zero] /\ \A d \in Docs : queue[r][d] = none
    BY <1>2 DEF none
  <2>2. StackOk(stack[r], txns, nonces, ops, seen[r])
    BY <2>1 DEF StackOk
  <2>3. SeenOk(seen[r], txns)
    BY <1>6, <2>1 DEF SeenOk
  <2>4. \A d \in Docs : TokensOk(queue[r][d], txns)
    BY <1>1, <2>1 DEF TokensOk
  <2> QED BY <2>2, <2>3, <2>4
<1>11. LogOk(txns, log)
  BY <1>1, <1>2 DEF LogOk
<1> QED BY <1>7, <1>8, <1>9, <1>10, <1>11 DEF IInv

(* Every step is.                                                          *)
LEMMA NextOk == IInv /\ [Next]_vars => IInv' /\ Forward(txns, txns')
<1> SUFFICES ASSUME IInv, [Next]_vars PROVE GoodStep
  BY DEF GoodStep
<1>1. CASE UNCHANGED vars
  <2>1. UNCHANGED <<work, txns, docs, stash, stack, queue, seen, nonces, faults, outcome, log>>
    BY <1>1 DEF vars
  <2>2. IInv'
    BY <2>1 DEF IInv, TypeInv, ops
  <2>3. Forward(txns, txns')
    BY <2>1, TxnSame DEF TxnPart
  <2> QED BY <2>2, <2>3 DEF GoodStep
<1>2. CASE Next
  <2>1. PICK r \in Runners : Start(r) \/ Step(r) \/ Crash(r)
    BY <1>2 DEF Next
  <2>2. CASE Start(r)
    BY <2>2, RunKeeps, ResumeKeeps DEF Start
  <2>3. CASE recurse(r) \/ runDone(r) \/ runOrder(r) \/ runNext(r) \/ advance(r)
    BY <2>3, recurseKeeps, runDoneKeeps, runOrderKeeps, runNextKeeps, advanceKeeps
  <2>4. CASE \/ prepareDoc(r) \/ prepareStash(r) \/ confirmDoc(r) \/ confirmStash(r) \/ unstashToken(r)
             \/ setPrepared(r) \/ reloadPrepared(r)
    BY <2>4, prepareDocKeeps, prepareStashKeeps, confirmDocKeeps, confirmStashKeeps, unstashTokenKeeps,
       setPreparedKeeps, reloadPreparedKeeps
  <2>5. CASE \/ rescanDoc(r) \/ rescanStash(r) \/ rescanReload(r)
             \/ assertDoc(r) \/ setAborting(r) \/ reloadAborting(r) \/ pullTokens(r) \/ setAborted(r)
             \/ setApplying(r) \/ reloadApplying(r)
    BY <2>5, rescanDocKeeps, rescanStashKeeps, rescanReloadKeeps, assertDocKeeps, setAbortingKeeps, reloadAbortingKeeps,
       pullTokensKeeps, setAbortedKeeps, setApplyingKeeps, reloadApplyingKeeps
  <2>6. CASE \/ applyUpdate(r) \/ removeStash(r) \/ removeMark(r) \/ removeCopy(r) \/ removeDoc(r)
             \/ insertMark(r) \/ insertDoc(r) \/ insertStash(r) \/ setApplied(r)
    BY <2>6, applyUpdateKeeps, removeStashKeeps, removeMarkKeeps, removeCopyKeeps, removeDocKeeps,
       insertMarkKeeps, insertDocKeeps, insertStashKeeps, setAppliedKeeps
  <2>7. CASE Crash(r)
    BY <2>7, CrashKeeps
  <2> QED BY <2>1, <2>2, <2>3, <2>4, <2>5, <2>6, <2>7, Zenon DEF Step
<1> QED BY <1>1, <1>2

(* A runner, whatever others did meanwhile, is at no place of advance with *)
(* a record in a state that place is not written for, uses no operation or *)
(* revision out of range, and remembers nothing wrong of a record.         *)
THEOREM Invariance == Spec => []IInv
BY InitOk, NextOk, PTL DEF Spec

(* The states are well formed: records, queues, tokens and revisions have  *)
(* the shape the collections give them, and a transaction carries a nonce  *)
(* that was made for it.                                                   *)
THEOREM TypeCorrect == Spec => []TypeOK
<1>1. IInv => TypeOK
  <2> SUFFICES ASSUME IInv PROVE TypeOK
    OBVIOUS
  <2>1. /\ txns \in [Txns -> TxnRecs] /\ nonces \in [Txns -> Nat] /\ docs \in [Docs -> DocRecs]
        /\ stash \in [Docs -> StashRecs] /\ log \in [Docs -> Seq(Txns)]
        /\ outcome \in [Runners -> {"ok", "lost", "panic"}] /\ \A t \in Txns : txns[t].n <= nonces[t]
    BY DEF IInv, TypeInv, TxnOk
  <2>2. ASSUME NEW t \in Txns PROVE txns[t].s \in States /\ txns[t].n \in 0..nonces[t] /\ txns[t].r \in Seq(Int)
    <3>1. txns[t].s \in States /\ txns[t].n \in Nat /\ txns[t].r \in Seq(Int)
      BY <2>1 DEF TxnRecs
    <3>2. nonces[t] \in Nat /\ txns[t].n <= nonces[t]
      BY <2>1
    <3> QED BY <3>1, <3>2
  <2>3. ASSUME NEW d \in Docs
        PROVE  /\ docs[d].in \in BOOLEAN /\ docs[d].revno \in Nat /\ docs[d].mark \in Txns \cup {0}
               /\ docs[d].queue \in Seq(Txns \X Nat) /\ stash[d].queue \in Seq(Txns \X Nat) /\ log[d] \in Seq(Txns)
    <3>1. docs[d] \in DocRecs /\ stash[d] \in StashRecs /\ log[d] \in Seq(Txns)
      BY <2>1
    <3> QED BY <3>1 DEF DocRecs, StashRecs, Tokens
  <2>4. \A r \in Runners : outcome[r] \in {"ok", "lost", "panic"}
    BY <2>1
  <2> QED BY <2>2, <2>3, <2>4 DEF TypeOK
<1> QED BY <1>1, Invariance, PTL

(* A transaction that is aborted has changed no document, whatever other   *)
(* runners were doing for it when it was aborted, and however many were    *)
(* killed: all writes wait for the record to be applying, a state that is  *)
(* never left but to applied.                                              *)
THEOREM Aborted == Spec => []AbortedChangesNothing
<1>1. IInv => AbortedChangesNothing
  <2> SUFFICES ASSUME IInv, NEW t \in Txns, txns[t].s \in {"aborting", "aborted"}, NEW d \in Docs, t \in ToSet(log[d])
               PROVE  FALSE
    BY DEF AbortedChangesNothing
  <2>1. PICK k \in DOMAIN log[d] : log[d][k] = t
    BY DEF ToSet
  <2>2. txns[t].s \in {"applying", "applied"}
    BY <2>1 DEF IInv, LogOk
  <2> QED BY <2>2
<1> QED BY <1>1, Invariance, PTL

(* All runners agree: a step takes a transaction forward, never back and   *)
(* never from applying to aborting or the other way, and no step changes   *)
(* the nonce of a prepared transaction or the revisions of one that is     *)
(* being applied.                                                          *)
THEOREM Agreement == Spec => Agreed
<1>1. IInv /\ [Next]_vars => [\A x \in Txns : Extends(txns[x], txns'[x])]_vars
  <2> SUFFICES ASSUME IInv, Next PROVE \A x \in Txns : Extends(txns[x], txns'[x])
    OBVIOUS
  <2> QED BY NextOk DEF Forward
<1> QED BY <1>1, Invariance, PTL DEF Spec, Agreed
=============================================================================
