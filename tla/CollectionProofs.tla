--------------------------- MODULE CollectionProofs ---------------------------
(***************************************************************************)
(* The theorems about the writes of module Writes and the iterator of      *)
(* module Cursor, as Collection uses them.  The iterator implements        *)
(* ResultStream, asks for no document beyond the limit and leaves no       *)
(* cursor open.  What a bulk or a single operation reports is what was     *)
(* done, and what was written is read.                                     *)
(***************************************************************************)
EXTENDS CollectionInv, FiniteSetTheorems, SequenceTheorems

-----------------------------------------------------------------------------
(* Cursor's instance of FiniteSets counts like the one extended here.      *)
LEMMA SameCardinality == ASSUME NEW S PROVE R!Cardinality(S) = Cardinality(S)
BY Zenon DEF R!Cardinality, Cardinality
-----------------------------------------------------------------------------
(* queue.go: the ring keeps its items in order, also where it grows.       *)

(* The capacity of a ring is the number of its slots.                      *)
LEMMA SlotsFacts == ASSUME NEW n \in Nat, NEW q, DOMAIN q.elems = 0..(n - 1) PROVE R!Slots(q) = n
<1>1. Cardinality(0..(n - 1)) = n
  BY FS_Interval, SameCardinality
<1>2. R!Cardinality(DOMAIN q.elems) = Cardinality(DOMAIN q.elems)
  BY SameCardinality
<1> QED BY <1>1, <1>2 DEF R!Slots

(* A queue without slots is a ring without documents.                      *)
LEMMA EmptyFacts == Ring(R!EmptyQueue) /\ R!EmptyQueue.nelems = 0
<1>1. DOMAIN R!EmptyQueue.elems = 0..(0 - 1)
  BY DEF R!EmptyQueue
<1>2. R!Slots(R!EmptyQueue) = 0
  BY <1>1, SlotsFacts
<1>3. R!EmptyQueue.elems \in [0..(0 - 1) -> Int]
  BY DEF R!EmptyQueue
<1> QED BY <1>2, <1>3 DEF Ring, R!EmptyQueue

(* A record put together from the parts of a ring is one, and its items    *)
(* are where the parts say.                                                *)
LEMMA RingParts ==
    ASSUME NEW q, NEW cap, NEW e, NEW n, NEW popi, NEW pushi, RingOf(cap, e, n, popi, pushi),
           q = [elems |-> e, nelems |-> n, popi |-> popi, pushi |-> pushi]
    PROVE  /\ Ring(q) /\ R!Slots(q) = cap
           /\ \A i \in 1..n : Item(q, i) = e[IF popi + i - 1 < cap THEN popi + i - 1 ELSE popi + i - 1 - cap]
<1>1. q.elems = e /\ q.nelems = n /\ q.popi = popi /\ q.pushi = pushi
  OBVIOUS
<1>2. R!Slots(q) = cap
  BY <1>1, SlotsFacts DEF RingOf
<1>3. Ring(q)
  BY <1>1, <1>2 DEF Ring, RingOf
<1> QED BY <1>1, <1>2, <1>3 DEF Item, Slot

(* A ring taken apart.                                                     *)
LEMMA RingIs ==
    ASSUME NEW q, Ring(q)
    PROVE  /\ RingOf(R!Slots(q), q.elems, q.nelems, q.popi, q.pushi)
           /\ q = [elems |-> q.elems, nelems |-> q.nelems, popi |-> q.popi, pushi |-> q.pushi]
           /\ \A i \in 1..q.nelems : Item(q, i) = q.elems[IF q.popi + i - 1 < R!Slots(q) THEN q.popi + i - 1 ELSE q.popi + i - 1 - R!Slots(q)]
BY DEF Ring, RingOf, Item, Slot

(* Pop takes the first item and leaves the others in order.                *)
LEMMA PopFacts ==
    ASSUME NEW q, Ring(q), q.nelems > 0
    PROVE  /\ R!Head1(q) = Item(q, 1) /\ Item(q, 1) \in Int
           /\ Ring(R!Pop(q)) /\ R!Pop(q).nelems = q.nelems - 1
           /\ \A i \in 1..(q.nelems - 1) : Item(R!Pop(q), i) = Item(q, i + 1)
<1> DEFINE cap == R!Slots(q)
           elems == q.elems
           nelems == q.nelems
           popi == q.popi
           pushi == q.pushi
           e == [elems EXCEPT ![popi] = R!NoDoc]
           p == IF popi + 1 < cap THEN popi + 1 ELSE 0
<1>1. /\ RingOf(cap, elems, nelems, popi, pushi) /\ nelems > 0
      /\ q = [elems |-> elems, nelems |-> nelems, popi |-> popi, pushi |-> pushi]
      /\ \A i \in 1..nelems : Item(q, i) = elems[IF popi + i - 1 < cap THEN popi + i - 1 ELSE popi + i - 1 - cap]
  BY RingIs
<1>2. cap \in Nat \ {0} /\ popi \in 0..(cap - 1) /\ nelems \in 1..cap /\ elems \in [0..(cap - 1) -> Int]
  BY <1>1 DEF RingOf
<1>3. (popi + 1) % cap = p
  BY <1>2, SuccMod
<1>4. R!Pop(q) = [q EXCEPT !.elems[popi] = R!NoDoc, !.nelems = nelems - 1, !.popi = (popi + 1) % cap]
  BY <1>1 DEF R!Pop
<1>5. R!Head1(q) = elems[popi]
  BY DEF R!Head1
<1> HIDE DEF cap, elems, nelems, popi, pushi
<1>6. R!Pop(q) = [elems |-> e, nelems |-> nelems - 1, popi |-> p, pushi |-> pushi]
  BY <1>1, <1>3, <1>4
<1>7. e \in [0..(cap - 1) -> Int] /\ \A j \in 0..(cap - 1) : j # popi => e[j] = elems[j]
  BY <1>2 DEF R!NoDoc
<1> HIDE DEF e
<1>8. RingOf(cap, e, nelems - 1, p, pushi)
  BY <1>1, <1>2, <1>7 DEF RingOf
<1>9. /\ Ring(R!Pop(q))
      /\ \A i \in 1..(nelems - 1) : Item(R!Pop(q), i) = e[IF p + i - 1 < cap THEN p + i - 1 ELSE p + i - 1 - cap]
  BY <1>6, <1>8, RingParts
<1>10. ASSUME NEW i \in 1..(nelems - 1) PROVE Item(R!Pop(q), i) = Item(q, i + 1)
  <2> DEFINE j == IF p + i - 1 < cap THEN p + i - 1 ELSE p + i - 1 - cap
  <2>1. j = (IF popi + i < cap THEN popi + i ELSE popi + i - cap) /\ j # popi /\ j \in 0..(cap - 1)
    BY <1>2
  <2>2. Item(R!Pop(q), i) = e[j]
    BY <1>9
  <2>3. i + 1 \in 1..nelems /\ popi + (i + 1) - 1 = popi + i
    BY <1>2
  <2>4. Item(q, i + 1) = elems[IF popi + i < cap THEN popi + i ELSE popi + i - cap]
    BY <1>1, <2>3
  <2> HIDE DEF j, p
  <2> QED BY <1>7, <2>1, <2>2, <2>4
<1>11. Item(q, 1) = elems[popi] /\ elems[popi] \in Int
  BY <1>1, <1>2
<1>12. R!Pop(q).nelems = nelems - 1
  BY <1>6
<1> QED BY <1>5, <1>9, <1>10, <1>11, <1>12 DEF nelems

(* expand makes room and keeps all items in order, also those that had     *)
(* wrapped around.                                                         *)
LEMMA ExpandFacts ==
    ASSUME NEW q, Ring(q), q.nelems = R!Slots(q)
    PROVE  LET r == R!expand(q) IN
           /\ Ring(r) /\ r.nelems = q.nelems /\ r.nelems < R!Slots(r)
           /\ \A i \in 1..q.nelems : Item(r, i) = Item(q, i)
<1> DEFINE cap == R!Slots(q)
           elems == q.elems
           popi == q.popi
           pushi == q.pushi
           newcap == IF cap = 0 THEN QueueCap ELSE cap * 2
           newpopi == newcap - (cap - popi)
           kept == IF popi = 0 THEN 0..(cap - 1) ELSE (0..(popi - 1)) \cup (newpopi..(newcap - 1))
           Old(i) == IF popi = 0 THEN i ELSE IF i < popi THEN i ELSE i - newpopi + popi
           e == [i \in 0..(newcap - 1) |-> IF i \in kept THEN elems[Old(i)] ELSE R!NoDoc]
           pushi2 == IF popi = 0 THEN cap ELSE pushi
           popi2 == IF popi = 0 THEN 0 ELSE newpopi
           r == R!expand(q)
<1>1. /\ RingOf(cap, elems, cap, popi, pushi)
      /\ q = [elems |-> elems, nelems |-> cap, popi |-> popi, pushi |-> pushi]
      /\ \A i \in 1..cap : Item(q, i) = elems[IF popi + i - 1 < cap THEN popi + i - 1 ELSE popi + i - 1 - cap]
  BY RingIs
<1>2. r = [q EXCEPT !.elems = e, !.pushi = IF popi = 0 THEN cap ELSE @, !.popi = IF @ = 0 THEN 0 ELSE newpopi]
  BY DEF R!expand
<1>3. q.nelems = cap
  OBVIOUS
<1> HIDE DEF cap, elems, popi, pushi, r
<1>4. r = [elems |-> e, nelems |-> cap, popi |-> popi2, pushi |-> pushi2]
  <2> HIDE DEF e, newpopi
  <2> QED BY <1>1, <1>2
<1>5. /\ cap \in Nat /\ popi \in Nat /\ pushi \in Nat /\ elems \in [0..(cap - 1) -> Int]
      /\ cap = 0 => popi = 0 /\ pushi = 0
      /\ cap > 0 => popi < cap /\ pushi = popi
  BY <1>1 DEF RingOf
<1>6. /\ newcap \in Nat /\ cap < newcap
      /\ cap > 0 => newcap = cap + cap /\ newpopi = cap + popi
  BY <1>5, CapsAssumption
<1>7. \A i \in 0..(newcap - 1) : e[i] = IF i \in kept THEN elems[Old(i)] ELSE R!NoDoc
  OBVIOUS
<1>8. DOMAIN e = 0..(newcap - 1) /\ e = [i \in 0..(newcap - 1) |-> e[i]]
  OBVIOUS
<1> HIDE DEF e
<1>9. ASSUME popi = 0
      PROVE  e \in [0..(newcap - 1) -> Int] /\ \A i \in 0..(cap - 1) : e[i] = elems[i]
  <2>1. \A i \in 0..(newcap - 1) : e[i] = IF i \in 0..(cap - 1) THEN elems[i] ELSE R!NoDoc
    BY <1>7, <1>9
  <2> HIDE DEF newcap
  <2> QED BY <1>5, <1>6, <1>8, <2>1 DEF R!NoDoc
<1>10. ASSUME popi # 0
       PROVE  /\ e \in [0..(newcap - 1) -> Int]
              /\ \A i \in 0..(popi - 1) : e[i] = elems[i]
              /\ \A i \in popi..(cap - 1) : e[i + cap] = elems[i]
  <2>0. newcap = cap + cap /\ newpopi = cap + popi
    BY <1>5, <1>6, <1>10
  <2>1. \A i \in 0..(newcap - 1) :
          e[i] = IF i \in (0..(popi - 1)) \cup (newpopi..(newcap - 1))
                 THEN elems[IF i < popi THEN i ELSE i - newpopi + popi] ELSE R!NoDoc
    BY <1>7, <1>10
  <2> HIDE DEF newcap, newpopi
  <2>2. \A i \in 0..(newcap - 1) : e[i] \in Int
    BY <1>5, <1>10, <2>0, <2>1 DEF R!NoDoc
  <2>3. \A i \in 0..(popi - 1) : e[i] = elems[i]
    BY <1>5, <1>10, <2>0, <2>1
  <2>4. ASSUME NEW i \in popi..(cap - 1) PROVE e[i + cap] = elems[i]
    <3> DEFINE j == i + cap
    <3>1. j \in 0..(newcap - 1) /\ j \in newpopi..(newcap - 1) /\ ~(j < popi) /\ j - newpopi + popi = i
      BY <1>5, <1>10, <2>0
    <3> HIDE DEF j
    <3>2. e[j] = elems[i]
      BY <2>1, <3>1
    <3> QED BY <3>2 DEF j
  <2> QED BY <1>8, <2>2, <2>3, <2>4
<1> HIDE DEF newcap, newpopi
<1>11. RingOf(newcap, e, cap, popi2, pushi2)
  BY <1>5, <1>6, <1>9, <1>10, SMTT(40) DEF RingOf
<1>12. /\ Ring(r) /\ R!Slots(r) = newcap
       /\ \A i \in 1..cap : Item(r, i) = e[IF popi2 + i - 1 < newcap THEN popi2 + i - 1 ELSE popi2 + i - 1 - newcap]
  BY <1>4, <1>11, RingParts
<1>13. ASSUME NEW i \in 1..cap PROVE Item(r, i) = Item(q, i)
  <2>1. CASE popi = 0
    <3>1. Item(r, i) = e[i - 1] /\ Item(q, i) = elems[i - 1] /\ i - 1 \in 0..(cap - 1)
      BY <1>1, <1>5, <1>6, <1>12, <2>1
    <3> QED BY <1>9, <2>1, <3>1
  <2>2. CASE popi # 0 /\ popi + i - 1 < cap
    <3>1. popi2 = cap + popi /\ newcap = cap + cap /\ popi2 + i - 1 < newcap /\ popi2 + i - 1 = (popi + i - 1) + cap
          /\ popi + i - 1 \in popi..(cap - 1)
      BY <1>5, <1>6, <2>2
    <3>2. Item(r, i) = e[(popi + i - 1) + cap] /\ Item(q, i) = elems[popi + i - 1]
      BY <1>1, <1>12, <2>2, <3>1
    <3> QED BY <1>10, <2>2, <3>1, <3>2
  <2>3. CASE popi # 0 /\ ~(popi + i - 1 < cap)
    <3>1. popi2 = cap + popi /\ newcap = cap + cap /\ ~(popi2 + i - 1 < newcap) /\ popi2 + i - 1 - newcap = popi + i - 1 - cap
          /\ popi + i - 1 - cap \in 0..(popi - 1)
      BY <1>5, <1>6, <2>3
    <3>2. Item(r, i) = e[popi + i - 1 - cap] /\ Item(q, i) = elems[popi + i - 1 - cap]
      BY <1>1, <1>12, <2>3, <3>1
    <3> QED BY <1>10, <2>3, <3>1, <3>2
  <2> QED BY <2>1, <2>2, <2>3
<1>14. r.nelems = cap
  BY <1>4
<1> QED BY <1>3, <1>6, <1>12, <1>13, <1>14 DEF r

(* With a free slot the item comes last.                                   *)
LEMMA PushRoom ==
    ASSUME NEW q, Ring(q), q.nelems < R!Slots(q), NEW x \in Int, NEW p, Pushed(p, q, x)
    PROVE  /\ Ring(p) /\ p.nelems = q.nelems + 1 /\ Item(p, q.nelems + 1) = x
           /\ \A i \in 1..q.nelems : Item(p, i) = Item(q, i)
<1> DEFINE cap == R!Slots(q)
           elems == q.elems
           nelems == q.nelems
           popi == q.popi
           pushi == q.pushi
           e == [elems EXCEPT ![pushi] = x]
           s == IF pushi + 1 < cap THEN pushi + 1 ELSE 0
<1>1. /\ RingOf(cap, elems, nelems, popi, pushi) /\ nelems < cap
      /\ q = [elems |-> elems, nelems |-> nelems, popi |-> popi, pushi |-> pushi]
      /\ \A i \in 1..nelems : Item(q, i) = elems[IF popi + i - 1 < cap THEN popi + i - 1 ELSE popi + i - 1 - cap]
  BY RingIs
<1>2. /\ cap \in Nat \ {0} /\ popi \in 0..(cap - 1) /\ nelems \in 0..(cap - 1) /\ elems \in [0..(cap - 1) -> Int]
      /\ pushi = IF popi + nelems < cap THEN popi + nelems ELSE popi + nelems - cap
  BY <1>1 DEF RingOf
<1>3. pushi \in 0..(cap - 1)
  BY <1>2
<1>4. (pushi + 1) % cap = s
  BY <1>2, <1>3, SuccMod
<1>0. p = [q EXCEPT !.elems[pushi] = x, !.nelems = nelems + 1, !.pushi = (pushi + 1) % cap]
  BY <1>1 DEF Pushed
<1> HIDE DEF cap, elems, nelems, popi, pushi
<1>5. p = [elems |-> e, nelems |-> nelems + 1, popi |-> popi, pushi |-> s]
  BY <1>0, <1>1, <1>4
<1>6. e \in [0..(cap - 1) -> Int] /\ e[pushi] = x /\ \A j \in 0..(cap - 1) : j # pushi => e[j] = elems[j]
  BY <1>2, <1>3
<1> HIDE DEF e
<1>7. RingOf(cap, e, nelems + 1, popi, s)
  <2>1. s = IF popi + (nelems + 1) < cap THEN popi + (nelems + 1) ELSE popi + (nelems + 1) - cap
    BY <1>2, <1>3
  <2>2. s \in Nat /\ nelems + 1 \in 0..cap /\ popi \in Nat /\ popi < cap /\ cap \in Nat /\ cap # 0
    BY <1>2, <1>3
  <2> HIDE DEF s
  <2> QED BY <1>6, <2>1, <2>2 DEF RingOf
<1>8. /\ Ring(p)
      /\ \A i \in 1..(nelems + 1) : Item(p, i) = e[IF popi + i - 1 < cap THEN popi + i - 1 ELSE popi + i - 1 - cap]
  BY <1>5, <1>7, RingParts
<1>9. ASSUME NEW i \in 1..nelems PROVE Item(p, i) = Item(q, i)
  <2> DEFINE j == IF popi + i - 1 < cap THEN popi + i - 1 ELSE popi + i - 1 - cap
  <2>1. j # pushi /\ j \in 0..(cap - 1)
    BY <1>2
  <2>2. i \in 1..(nelems + 1)
    BY <1>2
  <2> QED BY <1>1, <1>6, <1>8, <2>1, <2>2
<1>10. Item(p, nelems + 1) = x
  <2> DEFINE k == nelems + 1
  <2>1. k \in 1..(nelems + 1) /\ popi + k - 1 = popi + nelems
    BY <1>2
  <2> HIDE DEF k
  <2>2. Item(p, k) = e[IF popi + k - 1 < cap THEN popi + k - 1 ELSE popi + k - 1 - cap]
    BY <1>8, <2>1
  <2>3. Item(p, k) = x
    BY <1>2, <1>6, <2>1, <2>2, SMTT(40)
  <2> QED BY <2>3 DEF k
<1>11. p.nelems = nelems + 1
  BY <1>5
<1> QED BY <1>8, <1>9, <1>10, <1>11 DEF nelems

(* Push adds the item at the end, and expands the ring first when it is    *)
(* full.                                                                   *)
LEMMA PushFacts ==
    ASSUME NEW q, Ring(q), NEW x \in Int
    PROVE  /\ Ring(R!Push(q, x)) /\ R!Push(q, x).nelems = q.nelems + 1 /\ Item(R!Push(q, x), q.nelems + 1) = x
           /\ \A i \in 1..q.nelems : Item(R!Push(q, x), i) = Item(q, i)
<1> DEFINE r == IF q.nelems = R!Slots(q) THEN R!expand(q) ELSE q
           p == R!Push(q, x)
<1>1. Pushed(p, r, x)
  BY DEF R!Push, Pushed
<1>2. Ring(r) /\ r.nelems = q.nelems /\ r.nelems < R!Slots(r) /\ \A i \in 1..q.nelems : Item(r, i) = Item(q, i)
  <2>1. q.nelems \in 0..R!Slots(q) /\ R!Slots(q) \in Nat
    BY DEF Ring
  <2> QED BY <2>1, ExpandFacts
<1> HIDE DEF r, p
<1>3. /\ Ring(p) /\ p.nelems = r.nelems + 1 /\ Item(p, r.nelems + 1) = x
      /\ \A i \in 1..r.nelems : Item(p, i) = Item(r, i)
  BY <1>1, <1>2, PushRoom
<1> QED BY <1>2, <1>3 DEF p

-----------------------------------------------------------------------------
(* What the recursive definitions of the modules compute.                  *)

(* Rings is the set of all rings.                                          *)
LEMMA RingsFacts == ASSUME NEW q PROVE Ring(q) <=> q \in Rings
<1>1. ASSUME Ring(q) PROVE q \in Rings
  <2>1. RingOf(R!Slots(q), q.elems, q.nelems, q.popi, q.pushi) /\ q = [elems |-> q.elems, nelems |-> q.nelems, popi |-> q.popi, pushi |-> q.pushi]
    BY <1>1, RingIs
  <2>2. q.elems \in UNION {[0..(c - 1) -> Int] : c \in Nat} /\ q.nelems \in Nat /\ q.popi \in Nat /\ q.pushi \in Nat
    BY <2>1, SMTT(40) DEF RingOf
  <2> QED BY <1>1, <2>1, <2>2 DEF Rings
<1> QED BY <1>1 DEF Rings

(* The first batch of a command is its first n documents in order.         *)
LEMMA FirstBatchFacts ==
    ASSUME stored \in Seq(Int), NEW n \in 0..Len(stored)
    PROVE  /\ Ring(R!FirstBatch(n)) /\ R!FirstBatch(n).nelems = n
           /\ \A i \in 1..n : Item(R!FirstBatch(n), i) = stored[i]
<1> DEFINE b == R!EmptyQueue
           step == [a \in Rings \X Nat |-> IF a[2] \in 1..n THEN R!Push(a[1], stored[a[2]]) ELSE a[1]]
           g == CHOOSE h : h = [i \in 0..n |-> IF i = 0 THEN b ELSE R!Push(h[i - 1], stored[i])]
<1>0. n \in Nat /\ \A i \in 1..n : stored[i] \in Int
  OBVIOUS
<1>1. step \in [Rings \X Nat -> Rings]
  <2> SUFFICES ASSUME NEW a \in Rings \X Nat PROVE (IF a[2] \in 1..n THEN R!Push(a[1], stored[a[2]]) ELSE a[1]) \in Rings
    OBVIOUS
  <2>1. Ring(a[1])
    BY RingsFacts
  <2>2. CASE a[2] \in 1..n
    BY <1>0, <2>1, <2>2, PushFacts, RingsFacts
  <2> QED BY <2>2
<1>2. \A q \in Rings : \A i \in 1..n : step[<<q, i>>] = R!Push(q, stored[i])
  OBVIOUS
<1>3. b \in Rings /\ Ring(b) /\ b.nelems = 0
  BY EmptyFacts, RingsFacts
<1>4. R!FirstBatch(n) = g[n]
  BY DEF R!FirstBatch
<1> HIDE DEF step, b
<1>5. PICK f \in [0..n -> Rings] : f[0] = b /\ \A i \in 1..n : f[i] = step[<<f[i - 1], i>>]
  <2>1. Iterates(Rings, b, step)
    BY <1>1, <1>3, Iterated
  <2> QED BY <1>0, <2>1 DEF Iterates
<1>6. \A i \in 1..n : f[i] = R!Push(f[i - 1], stored[i])
  <2> SUFFICES ASSUME NEW i \in 1..n PROVE f[i] = R!Push(f[i - 1], stored[i])
    OBVIOUS
  <2>1. i - 1 \in 0..n
    OBVIOUS
  <2>2. f[i - 1] \in Rings
    BY <2>1
  <2> QED BY <1>2, <1>5, <2>2
<1>7. f = [i \in 0..n |-> IF i = 0 THEN b ELSE R!Push(f[i - 1], stored[i])]
  <2>1. \A i \in 0..n : f[i] = IF i = 0 THEN b ELSE R!Push(f[i - 1], stored[i])
    BY <1>5, <1>6
  <2> QED BY <2>1
<1>8. g = [i \in 0..n |-> IF i = 0 THEN b ELSE R!Push(g[i - 1], stored[i])]
  BY <1>7
<1> HIDE DEF g
<1>9. g[0] = b /\ \A i \in 1..n : g[i] = R!Push(g[i - 1], stored[i])
  <2>1. \A i \in 0..n : g[i] = IF i = 0 THEN b ELSE R!Push(g[i - 1], stored[i])
    BY <1>8
  <2> QED BY <2>1
<1> DEFINE Good(i) == Ring(g[i]) /\ g[i].nelems = i /\ \A j \in 1..i : Item(g[i], j) = stored[j]
           S == {i \in Nat : i <= n => Good(i)}
<1>10. Good(0)
  BY <1>3, <1>9
<1>11. ASSUME NEW i \in Nat, i + 1 <= n, Good(i) PROVE Good(i + 1)
  <2> DEFINE k == i + 1
  <2>1. k \in 1..n /\ k - 1 = i /\ stored[k] \in Int
    BY <1>0, <1>11
  <2> HIDE DEF k
  <2>2. g[k] = R!Push(g[i], stored[k])
    BY <1>9, <2>1
  <2>3. /\ Ring(g[k]) /\ g[k].nelems = i + 1 /\ Item(g[k], i + 1) = stored[k]
        /\ \A j \in 1..i : Item(g[k], j) = Item(g[i], j)
    <3> DEFINE q == g[i]
               x == stored[k]
    <3>1. Ring(q) /\ x \in Int /\ q.nelems = i
      BY <1>11, <2>1
    <3> HIDE DEF q, x
    <3>2. /\ Ring(R!Push(q, x)) /\ R!Push(q, x).nelems = i + 1 /\ Item(R!Push(q, x), i + 1) = x
          /\ \A j \in 1..i : Item(R!Push(q, x), j) = Item(q, j)
      BY <3>1, PushFacts
    <3> QED BY <2>2, <3>2 DEF q, x
  <2>4. Ring(g[k]) /\ g[k].nelems = i + 1 /\ \A j \in 1..(i + 1) : Item(g[k], j) = stored[j]
    BY <1>11, <2>3 DEF k
  <2> QED BY <2>4 DEF k
<1> HIDE DEF Good
<1>12. 0 \in S
  BY <1>10
<1>13. \A i \in Nat : i \in S => i + 1 \in S
  BY <1>0, <1>11
<1> HIDE DEF S
<1>14. n \in S
  BY <1>0, <1>12, <1>13, SetInduction
<1> QED BY <1>0, <1>4, <1>14 DEF S, Good

(* Inserting and removing a document leaves a collection.                  *)
LEMMA ContentsFacts ==
    ASSUME NEW S, Contents(S), NEW d \in Documents
    PROVE  Contents(S \cup {d}) /\ Contents(S \ {d})
<1>1. IsFiniteSet(S \cup {d}) /\ IsFiniteSet(S \ {d})
  BY FS_AddElement, FS_RemoveElement DEF Contents
<1> QED BY <1>1 DEF Contents

(* What the server knows while it carries out an operation keeps its type. *)
LEMMA CarryFacts == ASSUME NEW r \in Carryings, NEW op \in Operations PROVE W!Carry(r, op) \in Carryings
<1> DEFINE there == op.doc \in r.docs
           n == IF op.op # "insert" /\ (there \/ op.op = "upsert") THEN 1 ELSE 0
           docs == IF W!Kind(op.op) = "remove" THEN r.docs \ {op.doc}
                   ELSE IF op.op \in {"insert", "upsert"} THEN r.docs \cup {op.doc} ELSE r.docs
           bad == op \in plan.rejected \/ (op.op = "insert" /\ there)
           up == r.upserted \/ (op.op = "upsert" /\ ~there)
<1>1. op.doc \in Documents
  BY DEF Operations
<1>2. /\ r \in [docs : SUBSET Documents, done : Seq(Operations), errors : Seq(Operations), n : Nat,
                upserted : BOOLEAN, stop : BOOLEAN, goOn : BOOLEAN]
      /\ Contents(r.docs)
  BY DEF Carryings
<1>3. Contents(docs) /\ docs \in SUBSET Documents
  <2>1. Contents(docs)
    BY <1>1, <1>2, ContentsFacts
  <2> QED BY <2>1 DEF Contents
<1>4. n \in 0..1 /\ up \in BOOLEAN
  BY <1>2
<1>5. Append(r.errors, op) \in Seq(Operations) /\ Append(r.done, op) \in Seq(Operations)
  BY <1>2
<1>6. W!Carry(r, op) = IF r.stop THEN r
                       ELSE IF bad THEN [r EXCEPT !.errors = Append(r.errors, op), !.stop = ~r.goOn]
                       ELSE [r EXCEPT !.docs = docs, !.done = Append(r.done, op), !.n = r.n + n, !.upserted = up]
  BY DEF W!Carry
<1> HIDE DEF there, n, docs, bad, up
<1>7. [r EXCEPT !.errors = Append(r.errors, op), !.stop = ~r.goOn] \in Carryings
  BY <1>2, <1>5 DEF Carryings
<1>8. [r EXCEPT !.docs = docs, !.done = Append(r.done, op), !.n = r.n + n, !.upserted = up] \in Carryings
  <2> DEFINE v == [r EXCEPT !.docs = docs, !.done = Append(r.done, op), !.n = r.n + n, !.upserted = up]
  <2>1. r.n + n \in Nat
    BY <1>2, <1>4
  <2>2. v.docs = docs
    BY <1>2
  <2>3. v \in [docs : SUBSET Documents, done : Seq(Operations), errors : Seq(Operations), n : Nat,
               upserted : BOOLEAN, stop : BOOLEAN, goOn : BOOLEAN]
    BY <1>2, <1>3, <1>4, <1>5, <2>1
  <2> HIDE DEF v
  <2>4. v \in Carryings
    BY <1>3, <2>2, <2>3 DEF Carryings
  <2> QED BY <2>4 DEF v
<1> QED BY <1>6, <1>7, <1>8

(* A message is carried out operation by operation.                        *)
LEMMA CarriedSteps ==
    ASSUME Contents(collection), NEW ops \in Seq(Operations), NEW goOn \in BOOLEAN
    PROVE  \E g \in [0..Len(ops) -> Carryings] :
             /\ W!Carried(ops, goOn) = g[Len(ops)]
             /\ g[0] = [docs |-> collection, done |-> <<>>, errors |-> <<>>, n |-> 0, upserted |-> FALSE,
                        stop |-> FALSE, goOn |-> goOn]
             /\ \A i \in 1..Len(ops) : g[i] = W!Carry(g[i - 1], ops[i])
<1> DEFINE n == Len(ops)
           b == [docs |-> collection, done |-> <<>>, errors |-> <<>>, n |-> 0, upserted |-> FALSE, stop |-> FALSE, goOn |-> goOn]
           step == [a \in Carryings \X Nat |-> IF a[2] \in 1..n THEN W!Carry(a[1], ops[a[2]]) ELSE a[1]]
           g == CHOOSE h : h = [i \in 0..n |-> IF i = 0 THEN b ELSE W!Carry(h[i - 1], ops[i])]
<1>0. n \in Nat /\ \A i \in 1..n : ops[i] \in Operations
  OBVIOUS
<1>1. step \in [Carryings \X Nat -> Carryings]
  BY <1>0, CarryFacts
<1>2. \A q \in Carryings : \A i \in 1..n : step[<<q, i>>] = W!Carry(q, ops[i])
  OBVIOUS
<1>3. b \in Carryings
  BY DEF Carryings, Contents
<1>4. W!Carried(ops, goOn) = g[n]
  BY DEF W!Carried
<1> HIDE DEF step, b, n
<1>5. PICK f \in [0..n -> Carryings] : f[0] = b /\ \A i \in 1..n : f[i] = step[<<f[i - 1], i>>]
  <2>1. Iterates(Carryings, b, step)
    BY <1>1, <1>3, Iterated
  <2> QED BY <1>0, <2>1 DEF Iterates
<1>6. \A i \in 1..n : f[i] = W!Carry(f[i - 1], ops[i])
  <2> SUFFICES ASSUME NEW i \in 1..n PROVE f[i] = W!Carry(f[i - 1], ops[i])
    OBVIOUS
  <2>1. i - 1 \in 0..n
    BY <1>0
  <2>2. f[i - 1] \in Carryings
    BY <2>1
  <2> QED BY <1>2, <1>5, <2>2
<1>7. f = [i \in 0..n |-> IF i = 0 THEN b ELSE W!Carry(f[i - 1], ops[i])]
  <2>1. \A i \in 0..n : f[i] = IF i = 0 THEN b ELSE W!Carry(f[i - 1], ops[i])
    BY <1>5, <1>6
  <2> QED BY <2>1
<1>8. g = [i \in 0..n |-> IF i = 0 THEN b ELSE W!Carry(g[i - 1], ops[i])]
  BY <1>7
<1> HIDE DEF g
<1>9. g[0] = b /\ \A i \in 1..n : g[i] = W!Carry(g[i - 1], ops[i])
  <2>1. \A i \in 0..n : g[i] = IF i = 0 THEN b ELSE W!Carry(g[i - 1], ops[i])
    BY <1>0, <1>8
  <2> QED BY <1>0, <2>1
<1> DEFINE S == {i \in Nat : i <= n => g[i] \in Carryings}
<1>11. ASSUME NEW i \in Nat, i + 1 <= n, g[i] \in Carryings PROVE g[i + 1] \in Carryings
  <2> DEFINE k == i + 1
  <2>1. k \in 1..n /\ k - 1 = i
    BY <1>0, <1>11
  <2> HIDE DEF k
  <2>2. g[k] \in Carryings
    BY <1>0, <1>9, <1>11, <2>1, CarryFacts
  <2> QED BY <2>2 DEF k
<1>12. 0 \in S
  BY <1>3, <1>9
<1>13. \A i \in Nat : i \in S => i + 1 \in S
  BY <1>0, <1>11
<1> HIDE DEF S
<1>14. \A i \in Nat : i \in S
  BY <1>12, <1>13, SetInduction
<1>15. \A i \in 0..n : g[i] \in Carryings
  BY <1>0, <1>14 DEF S
<1>16. g \in [0..n -> Carryings]
  BY <1>8, <1>15
<1> QED BY <1>4, <1>9, <1>16 DEF b, n

(* And what the server knows after it has its type too.                    *)
LEMMA CarriedFacts ==
    ASSUME Contents(collection), NEW ops \in Seq(Operations), NEW goOn \in BOOLEAN
    PROVE  W!Carried(ops, goOn) \in Carryings
<1>1. Len(ops) \in 0..Len(ops)
  OBVIOUS
<1>2. \E g \in [0..Len(ops) -> Carryings] : W!Carried(ops, goOn) = g[Len(ops)]
  BY CarriedSteps, Zenon
<1> QED BY <1>1, <1>2

(* Every outcome of an exchange leaves a finite collection.                *)
LEMMA OutcomesFacts ==
    ASSUME Contents(collection), wfaults \in Nat, NEW ops \in Seq(Operations), NEW goOn \in BOOLEAN, NEW o \in W!Outcomes(ops, goOn)
    PROVE  Contents(o.r.docs) /\ o.r.n \in Nat /\ (o.fault => wfaults > 0)
<1> DEFINE r == W!Carried(ops, goOn)
           none == [r EXCEPT !.docs = collection, !.done = <<>>, !.errors = <<>>, !.n = 0]
           lost == [r EXCEPT !.errors = <<>>, !.n = 0]
<1>1. r \in Carryings
  BY CarriedFacts
<1>2. \/ o.r = r /\ ~o.fault
      \/ wfaults # 0 /\ (o.r = r \/ o.r = none \/ o.r = lost)
  BY DEF W!Outcomes
<1> HIDE DEF r
<1>3. Contents(none.docs) /\ none.n \in Nat /\ Contents(lost.docs) /\ lost.n \in Nat /\ Contents(r.docs) /\ r.n \in Nat
  BY <1>1 DEF Carryings
<1> HIDE DEF none, lost
<1> QED BY <1>2, <1>3

-----------------------------------------------------------------------------
(* The documents that match, in their order.                               *)

(* Each rank in a collection is taken.                                     *)
LEMMA ContentsRanked == ASSUME NEW S, Contents(S) PROVE Ranked(S)
BY EachRankTaken DEF Contents, Documents, FiniteNumbers

(* A collection in order is increasing: each document is in it once.       *)
LEMMA InOrderFacts ==
    ASSUME NEW S, Contents(S)
    PROVE  InOrder(S) \in Seq(Documents) /\ Increasing(InOrder(S))
<1> DEFINE n == Cardinality(S)
           s == InOrder(S)
<1>0. n \in Nat
  BY FS_CardinalityType DEF Contents
<1>1. s = [i \in 1..n |-> CHOOSE d \in S : Rank(S, d) = i]
  BY DEF InOrder, Rank
<1> HIDE DEF s
<1>2. \A i \in 1..n : s[i] \in S /\ Rank(S, s[i]) = i
  BY <1>1, ContentsRanked DEF Ranked
<1>3. s \in Seq(Documents) /\ DOMAIN s = 1..n
  <2>1. s \in [1..n -> Documents]
    BY <1>1, <1>2 DEF Contents
  <2> QED BY <1>0, <2>1
<1>4. ASSUME NEW i \in 1..n, NEW j \in 1..n, i < j PROVE s[i] < s[j]
  <2> DEFINE A == {e \in S : e <= s[j]}
             B == {e \in S : e <= s[i]}
  <2>0. S \subseteq Nat /\ s[i] \in Nat /\ s[j] \in Nat
    BY <1>2 DEF Contents, Documents
  <2>1. SUFFICES ASSUME s[j] <= s[i] PROVE FALSE
    BY <2>0
  <2>2. A \subseteq B
    <3>1. \A e \in S : e <= s[j] => e <= s[i]
      BY <2>0, <2>1
    <3> QED BY <3>1
  <2>3. IsFiniteSet(B)
    BY FS_Subset DEF Contents
  <2>4. Cardinality(A) = j /\ Cardinality(B) = i
    BY <1>2 DEF Rank
  <2> HIDE DEF A, B
  <2>5. Cardinality(A) <= Cardinality(B)
    BY <2>2, <2>3, FS_Subset
  <2> QED BY <1>4, <2>4, <2>5
<1> QED BY <1>3, <1>4 DEF s, Increasing

-----------------------------------------------------------------------------
(* The writes keep WriteInv.                                               *)

(* The operations of a plan are typed and as many as its calls.            *)
LEMMA PlanFacts ==
    ASSUME WriteInv
    PROVE  /\ Len(W!Queued) = Len(plan.calls) /\ Len(plan.calls) \in Nat
           /\ \A i \in 1..Len(plan.calls) : W!Queued[i] \in Operations
           /\ plan.ordered \in BOOLEAN /\ Contents(collection)
<1>1. plan.calls \in Seq([op : Ops, doc : Documents]) /\ plan.ordered \in BOOLEAN
  BY PlansAssumption DEF WriteInv
<1>2. /\ W!Queued = [i \in 1..Len(plan.calls) |-> W!Op(plan.calls[i].op, plan.calls[i].doc)]
      /\ Len(plan.calls) \in Nat
  BY <1>1 DEF W!Queued
<1>3. ASSUME NEW i \in 1..Len(plan.calls) PROVE W!Queued[i] \in Operations
  <2>1. plan.calls[i] \in [op : Ops, doc : Documents]
    BY <1>1, ElementOfSeq
  <2>2. plan.calls[i].op \in Ops /\ plan.calls[i].doc \in Documents
    BY <2>1
  <2>3. W!Queued[i] = [op |-> plan.calls[i].op, doc |-> plan.calls[i].doc]
    BY <1>2 DEF W!Op
  <2> QED BY <2>2, <2>3 DEF Operations
<1>4. Len(W!Queued) = Len(plan.calls)
  BY <1>2
<1> QED BY <1>1, <1>2, <1>3, <1>4 DEF WriteInv, Contents

(* Every operation is an insert, an update or a remove.                    *)
LEMMA KindFacts == \A op \in Ops : W!Kind(op) \in {"insert", "update", "remove"}
BY DEF Ops, W!Kind

(* checkSuccess goes on to the next action or ends Run.                    *)
LEMMA CheckSuccessFacts ==
    ASSUME WriteInv, writer \in {"acquire", "write"}, NEW errors, NEW err, NEW n \in Nat,
           W!checkSuccess(bulk, errors, err, n)
    PROVE  /\ bulk' \in [actions : Seq(Actions), next : 1..Len(plan.calls) + 1, at : 1..Len(bulk'.actions) + 1,
                         from : Nat, acc : {bulk'.acc}, errs : {bulk'.errs}, failed : BOOLEAN, matched : Nat]
           /\ writer' \in {"acquire", "done"}
           /\ writer' = "acquire" => bulk'.at <= Len(bulk'.actions)
<1> DEFINE new == IF errors # <<>> THEN errors ELSE IF err # "nil" THEN <<W!Op(err, 0)>> ELSE <<>>
           errs == bulk.errs \o new
           failed == bulk.failed \/ new # <<>>
<1>1. /\ bulk' = [bulk EXCEPT !.errs = errs, !.failed = failed, !.matched = bulk.matched + n,
                              !.at = bulk.at + 1, !.from = 0, !.acc = <<>>]
      /\ writer' \in {"acquire", "done"}
      /\ writer' = "acquire" => bulk.at # Len(bulk.actions)
  BY DEF W!checkSuccess
<1>2. /\ bulk \in [actions : Seq(Actions), next : 1..Len(plan.calls) + 1, at : 1..Len(bulk.actions) + 1,
                   from : Nat, acc : {bulk.acc}, errs : {bulk.errs}, failed : BOOLEAN, matched : Nat]
      /\ bulk.at <= Len(bulk.actions) /\ bulk.actions \in Seq(Actions)
  BY DEF WriteInv
<1>3. failed \in BOOLEAN
  BY <1>2
<1> HIDE DEF errs, failed
<1>4. bulk' = [actions |-> bulk.actions, next |-> bulk.next, at |-> bulk.at + 1, from |-> 0, acc |-> <<>>,
               errs |-> errs, failed |-> failed, matched |-> bulk.matched + n]
  BY <1>1, <1>2
<1> QED BY <1>1, <1>2, <1>3, <1>4

(* What writeOp sends at once is a part of the current action.             *)
LEMMA PartFacts ==
    ASSUME WriteInv, writer = "write"
    PROVE  W!Part \in Seq(Operations)
<1> DEFINE s == W!Current.docs
           size == IF W!Splits THEN BatchMax ELSE IF W!OneByOne THEN 1 ELSE Len(s)
           m == bulk.from + 1
           to == bulk.from + size
           n == IF to > Len(s) THEN Len(s) ELSE to
<1>1. s \in Seq(Operations) /\ bulk.from \in Nat
  <2>1. bulk.at \in 1..Len(bulk.actions) /\ bulk.actions \in Seq(Actions) /\ bulk.from \in Nat
    BY DEF WriteInv
  <2>2. W!Current \in Actions
    BY <2>1 DEF W!Current
  <2> QED BY <2>1, <2>2 DEF Actions
<1>2. size \in Nat
  BY <1>1, CapsAssumption
<1>3. W!Part = SubSeq(s, m, n)
  BY DEF W!Part
<1> HIDE DEF s, size
<1>4. m \in Nat /\ m > 0 /\ n \in Nat /\ n <= Len(s)
  BY <1>1, <1>2
<1> HIDE DEF m, n
<1>5. SubSeq(s, m, n) \in Seq(Operations)
  BY <1>1, <1>4
<1> QED BY <1>3, <1>5

(* An answered or lost message leaves a collection.                        *)
LEMMA ExchangeFacts ==
    ASSUME WriteInv, NEW ops \in Seq(Operations), NEW goOn \in BOOLEAN, NEW o \in W!Outcomes(ops, goOn), W!Exchange(o)
    PROVE  Contents(collection') /\ wfaults' \in Nat /\ o.r.n \in Nat
<1>1. wfaults \in Nat /\ Contents(collection)
  BY PlanFacts DEF WriteInv
<1>2. Contents(o.r.docs) /\ o.r.n \in Nat /\ (o.fault => wfaults > 0)
  BY <1>1, OutcomesFacts
<1> QED BY <1>1, <1>2 DEF W!Exchange

(* An operation joins an action of its kind; in an ordered bulk no action  *)
(* but the last.                                                           *)
LEMMA ActionIsSame ==
    ASSUME NEW actions \in Seq(Actions), NEW kind
    PROVE  LET i == W!action(actions, kind) IN
           /\ i \in 1..(Len(actions) + 1)
           /\ i <= Len(actions) => actions[i].op = kind
           /\ plan.ordered => i >= Len(actions)
<1> DEFINE last == Len(actions)
           same == {i \in 1..last : actions[i].op = kind}
           i == W!action(actions, kind)
<1>1. last \in Nat
  OBVIOUS
<1>3. i = IF last \in same THEN last
          ELSE IF ~plan.ordered /\ same # {} THEN CHOOSE j \in same : \A k \in same : j <= k
          ELSE last + 1
  BY DEF W!action
<1>4. ASSUME same # {} PROVE (CHOOSE j \in same : \A k \in same : j <= k) \in same
  <2>0. same \subseteq Nat
    BY <1>1
  <2>1. PICK m \in same : \A y \in same : <<y, m>> \notin OpToRel(<, Nat)
    BY <1>4, <2>0, NatLessThanWellFounded, WFMin
  <2>2. \A y \in same : ~(y < m)
    BY <2>0, <2>1 DEF OpToRel
  <2>3. \E j \in same : \A k \in same : j <= k
    BY <2>0, <2>2
  <2> HIDE DEF same
  <2> QED BY <2>3
<1>5. \A j \in same : actions[j].op = kind
  OBVIOUS
<1> HIDE DEF same, i, last
<1>6. i \in same \/ i = last + 1
  BY <1>3, <1>4
<1>7. plan.ordered => i = last \/ i = last + 1
  BY <1>3
<1>8. last + 1 > last /\ last >= last /\ last + 1 >= last
  BY <1>1
<1>9. i <= last => actions[i].op = kind
  BY <1>1, <1>5, <1>6
<1>10. plan.ordered => i >= last
  BY <1>7, <1>8
<1>2. i \in 1..(last + 1)
  BY <1>1, <1>6 DEF same
<1> QED BY <1>2, <1>9, <1>10 DEF i, last

(* Queueing an operation keeps the types of a bulk.                        *)
LEMMA QueueKeeps ==
    ASSUME WriteInv, W!Queue
    PROVE  WriteInv'
<1> DEFINE op == W!Queued[bulk.next]
           kind == W!Kind(op.op)
           old == bulk.actions
           i == W!action(old, kind)
           new == [op |-> kind, docs |-> <<>>]
           actions == IF i > Len(old) THEN Append(old, new) ELSE old
           then == [actions EXCEPT ![i].docs = Append(@, op)]
           next == bulk.next + 1
<1>1. /\ bulk' = [bulk EXCEPT !.actions = then, !.next = next]
      /\ UNCHANGED <<plan, collection, writer, wfaults>> /\ writer = "queue" /\ bulk.next <= Len(plan.calls)
  BY PlanFacts DEF W!Queue
<1>2. /\ bulk \in [actions : Seq(Actions), next : 1..Len(plan.calls) + 1, at : 1..Len(bulk.actions) + 1,
                   from : Nat, acc : {bulk.acc}, errs : {bulk.errs}, failed : BOOLEAN, matched : Nat]
      /\ old \in Seq(Actions) /\ bulk.at = 1
  BY <1>1 DEF WriteInv
<1>3. op \in Operations
  BY <1>1, <1>2, PlanFacts
<1>4. kind \in {"insert", "update", "remove"}
  BY <1>3, KindFacts DEF Operations
<1>5. i \in 1..(Len(old) + 1)
  BY <1>2, ActionIsSame
<1>6. next \in 1..Len(plan.calls) + 1
  BY <1>1, <1>2, PlanFacts
<1> DEFINE Half == [op : {"insert", "update", "remove"}, docs : Seq(Operations)]
<1>7. new \in Half
  BY <1>4
<1>13. Actions \subseteq Half
  BY DEF Actions
<1>15. \A a \in Half : a \in [op : {"insert", "update", "remove"}, docs : Seq(Operations)]
  OBVIOUS
<1> HIDE DEF op, kind, old, i, new, next, Half
<1>14. old \in Seq(Half)
  BY <1>2, <1>13, SeqMonotonic
<1>8. actions \in Seq(Half) /\ i \in 1..Len(actions) /\ \A j \in 1..Len(actions) : j # i => actions[j] \in Actions
  <2>1. CASE i > Len(old)
    <3>1. Len(actions) = Len(old) + 1 /\ actions = Append(old, new) /\ i = Len(old) + 1
      BY <1>2, <1>5, <2>1
    <3> QED BY <1>2, <1>7, <1>14, <3>1, AppendProperties
  <2>2. CASE ~(i > Len(old))
    BY <1>2, <1>5, <1>14, <2>2
  <2> QED BY <2>1, <2>2
<1> HIDE DEF actions
<1>9. then \in Seq(Actions)
  <2>1. actions[i] \in Half
    BY <1>8
  <2> DEFINE a == [actions[i] EXCEPT !.docs = Append(@, op)]
  <2>8. actions[i] \in [op : {"insert", "update", "remove"}, docs : Seq(Operations)]
    BY <1>15, <2>1
  <2>2. Append(actions[i].docs, op) \in Seq(Operations) \ {<<>>}
    BY <1>3, <2>8
  <2>3. a \in Actions
    BY <2>2, <2>8 DEF Actions
  <2>4. then = [actions EXCEPT ![i] = a]
    OBVIOUS
  <2> HIDE DEF a, then
  <2>9. DOMAIN actions = 1..Len(actions)
    BY <1>8
  <2>5. DOMAIN then = 1..Len(actions) /\ \A j \in 1..Len(actions) : then[j] \in Actions
    BY <1>8, <2>3, <2>4, <2>9
  <2>6. then = [j \in 1..Len(actions) |-> then[j]]
    BY <2>4, <2>9
  <2>7. Len(actions) \in Nat
    BY <1>8
  <2> QED BY <2>5, <2>6, <2>7
<1> HIDE DEF then
<1>10. bulk' = [actions |-> then, next |-> next, at |-> 1, from |-> bulk.from, acc |-> bulk.acc,
                errs |-> bulk.errs, failed |-> bulk.failed, matched |-> bulk.matched]
  BY <1>1, <1>2
<1>11. 1 \in 1..Len(then) + 1 /\ Len(then) \in Nat
  BY <1>9
<1> QED BY <1>1, <1>2, <1>6, <1>9, <1>10, <1>11 DEF WriteInv

(* Every step of the writes keeps WriteInv.                                *)
LEMMA WriteKeeps ==
    ASSUME WriteInv, W!Next
    PROVE  WriteInv'
<1>1. CASE W!Queue
  BY <1>1, QueueKeeps
<1>2. CASE W!Run
  <2>1. bulk.actions # <<>> => 1 <= Len(bulk.actions)
    BY DEF WriteInv
  <2> QED BY <1>2, <2>1 DEF WriteInv, W!Run
<1>3. CASE W!Acquire
  BY <1>3 DEF WriteInv, W!Acquire
<1>4. CASE W!AcquireFails
  <2>1. W!checkSuccess(bulk, <<>>, "net", 0) /\ writer = "acquire" /\ wfaults' = wfaults - 1 /\ wfaults > 0 /\ UNCHANGED <<plan, collection>>
    BY <1>4 DEF W!AcquireFails
  <2> QED BY <2>1, CheckSuccessFacts, SMTT(40) DEF WriteInv
<1>5. CASE W!writeOpCommand
  <2>1. /\ writer = "write" /\ UNCHANGED plan
        /\ W!Part \in Seq(Operations) /\ (~plan.ordered) \in BOOLEAN
    <3>1. writer = "write" /\ UNCHANGED plan
      BY <1>5, Zenon DEF W!writeOpCommand
    <3> QED BY <3>1, PartFacts, PlanFacts
  <2> DEFINE n(o) == IF plan.safe /\ W!Current.op # "insert" THEN o.r.n ELSE 0
             errors(o) == IF o.err = "write" THEN o.r.errors ELSE <<>>
             acc(o) == bulk.acc \o errors(o)
             goes(o) == bulk' = [bulk EXCEPT !.acc = acc(o), !.from = @ + Len(W!Part)] /\ UNCHANGED writer
  <2>2. PICK o \in W!Outcomes(W!Part, ~plan.ordered) :
          /\ W!Exchange(o)
          /\ \/ W!checkSuccess(bulk, errors(o), o.err, n(o))
             \/ W!checkSuccess(bulk, acc(o), o.err, 0)
             \/ W!checkSuccess(bulk, acc(o), IF acc(o) = <<>> THEN "nil" ELSE "write", 0)
             \/ goes(o)
    <3>1. PICK o \in W!Outcomes(W!Part, ~plan.ordered) :
            /\ W!Exchange(o)
            /\ IF ~W!Splits THEN W!checkSuccess(bulk, errors(o), o.err, n(o))
               ELSE IF o.err # "nil" /\ plan.ordered THEN W!checkSuccess(bulk, acc(o), o.err, 0)
               ELSE IF bulk.from + Len(W!Part) = Len(W!Current.docs)
               THEN W!checkSuccess(bulk, acc(o), IF acc(o) = <<>> THEN "nil" ELSE "write", 0)
               ELSE goes(o)
      BY <1>5, Zenon DEF W!writeOpCommand
    <3> HIDE DEF n, errors, acc, goes
    <3> QED BY <3>1, Zenon
  <2>3. Contents(collection') /\ wfaults' \in Nat /\ o.r.n \in Nat
    BY <2>1, <2>2, ExchangeFacts
  <2>4. n(o) \in Nat
    BY <2>3
  <2> HIDE DEF n, errors, acc
  <2>5. ASSUME NEW e, NEW err, NEW k \in Nat, W!checkSuccess(bulk, e, err, k) PROVE WriteInv'
    BY <2>1, <2>3, <2>5, CheckSuccessFacts DEF WriteInv, Contents
  <2>7. ASSUME goes(o) PROVE WriteInv'
    <3>1. Len(W!Part) \in Nat
      BY <2>1
    <3>2. bulk' = [actions |-> bulk.actions, next |-> bulk.next, at |-> bulk.at, from |-> bulk.from + Len(W!Part), acc |-> acc(o),
                   errs |-> bulk.errs, failed |-> bulk.failed, matched |-> bulk.matched]
      BY <2>7 DEF WriteInv
    <3> QED BY <2>1, <2>3, <2>7, <3>1, <3>2 DEF WriteInv, Contents
  <2> HIDE DEF goes
  <2> QED BY <2>2, <2>4, <2>5, <2>7
<1>6. CASE W!writeOpQuery
  <2>1. /\ writer = "write" /\ UNCHANGED plan
        /\ W!Part \in Seq(Operations) /\ (~plan.ordered) \in BOOLEAN
    <3>1. writer = "write" /\ UNCHANGED plan
      BY <1>6, Zenon DEF W!writeOpQuery
    <3> QED BY <3>1, PartFacts, PlanFacts
  <2>2. PICK o \in W!Outcomes(W!Part, ~plan.ordered) :
          /\ W!Exchange(o)
          /\ \/ W!checkSuccess(bulk, <<>>, o.err, 0)
             \/ W!checkSuccess(bulk, <<>>, "nil", 0)
             \/ writer' = "crashed" /\ UNCHANGED bulk
             \/ bulk' = [bulk EXCEPT !.from = @ + 1] /\ UNCHANGED writer
    BY <1>6, Zenon DEF W!writeOpQuery
  <2>3. Contents(collection') /\ wfaults' \in Nat
    BY <2>1, <2>2, ExchangeFacts
  <2>4. ASSUME NEW err, W!checkSuccess(bulk, <<>>, err, 0) PROVE WriteInv'
    BY <2>1, <2>3, <2>4, CheckSuccessFacts DEF WriteInv, Contents
  <2>5. CASE writer' = "crashed" /\ UNCHANGED bulk
    BY <2>1, <2>3, <2>5 DEF WriteInv, Contents
  <2>6. CASE bulk' = [bulk EXCEPT !.from = @ + 1] /\ UNCHANGED writer
    <3>2. bulk' = [actions |-> bulk.actions, next |-> bulk.next, at |-> bulk.at, from |-> bulk.from + 1, acc |-> bulk.acc,
                   errs |-> bulk.errs, failed |-> bulk.failed, matched |-> bulk.matched]
      BY <2>6 DEF WriteInv
    <3>3. bulk.from + 1 \in Nat
      BY DEF WriteInv
    <3> QED BY <2>1, <2>3, <2>6, <3>2, <3>3 DEF WriteInv, Contents
  <2> QED BY <2>2, <2>4, <2>5, <2>6
<1>7. CASE W!Single
  <2>1. /\ writer = "queue" /\ bulk.next <= Len(plan.calls) /\ bulk' = [bulk EXCEPT !.next = @ + 1]
        /\ writer' \in {"queue", "done"} /\ UNCHANGED plan
        /\ \E o \in W!Outcomes(<<W!Queued[bulk.next]>>, FALSE) : W!Exchange(o)
    BY <1>7, PlanFacts DEF W!Single
  <2>2. <<W!Queued[bulk.next]>> \in Seq(Operations)
    BY <2>1, PlanFacts DEF WriteInv
  <2>3. Contents(collection') /\ wfaults' \in Nat
    BY <2>1, <2>2, ExchangeFacts
  <2>4. bulk' = [actions |-> bulk.actions, next |-> bulk.next + 1, at |-> bulk.at, from |-> bulk.from, acc |-> bulk.acc,
                 errs |-> bulk.errs, failed |-> bulk.failed, matched |-> bulk.matched]
    BY <2>1 DEF WriteInv
  <2>5. bulk.next + 1 \in 1..Len(plan.calls) + 1
    BY <2>1, PlanFacts DEF WriteInv
  <2> QED BY <2>1, <2>3, <2>4, <2>5 DEF WriteInv, Contents
<1> QED BY <1>1, <1>2, <1>3, <1>4, <1>5, <1>6, <1>7 DEF W!Next

-----------------------------------------------------------------------------
(* What the types say, and what stays when a variable does.                *)

(* The types of what is in the iterator and of the positions.              *)
LEMMA TypeFacts ==
    ASSUME TypeInv
    PROVE  /\ iter.err \in R!Errs /\ iter.docsToReceive \in Nat /\ iter.docsBeforeMore \in Int /\ iter.limit \in Nat
           /\ iter.opLimit \in Int /\ iter.cursorId \in 0..1 /\ iter.timedout \in BOOLEAN
           /\ Ring(iter.docData) /\ iter.docData.nelems \in Nat
           /\ Len(returned) \in Nat /\ Len(stored) \in Nat /\ cursor.pos \in 0..Len(stored)
           /\ Len(wire) \in Nat /\ Len(replies) \in Nat
           /\ PartialLen \in Nat /\ AnswerLen \in Nat /\ Received \in Nat /\ Base \in Nat /\ End \in Nat
           /\ Limit \in Nat /\ (Limited <=> Limit # 0) /\ query.prefetch \in 0..4
           /\ query.kind \in {"find", "tail", "command"} /\ (Limited => query.kind = "find")
<1>1. /\ iter \in [err : R!Errs, docsToReceive : Nat, docsBeforeMore : Int, limit : Nat, opLimit : Int,
                   cursorId : 0..1, docData : {iter.docData}, timedout : BOOLEAN]
      /\ Ring(iter.docData) /\ returned \in Seq(Documents) /\ stored \in Seq(Documents) /\ wire \in Seq(WireOps)
      /\ replies \in Seq(Replies) /\ query \in Queries /\ cursor \in [state : {"none", "open", "gone"}, pos : 0..Len(stored)]
  BY DEF TypeInv
<1>2. iter.docData.nelems \in Nat
  BY <1>1 DEF Ring
<1>3. \A i \in 1..Len(replies) : Len(replies[i].docs) \in Nat
  BY <1>1, SMTT(40) DEF Replies
<1>4. PartialLen \in Nat
  BY <1>1, <1>3 DEF PartialLen, HeadPartial
<1>5. AnswerLen \in Nat
  BY <1>1, <1>3 DEF AnswerLen, Answered
<1>6. Received \in Nat /\ Base \in Nat /\ End \in Nat
  <2>1. Received \in Nat
    BY <1>1, <1>2 DEF Received
  <2>2. Base \in Nat
    BY <1>4, <2>1 DEF Base
  <2> QED BY <1>5, <2>1, <2>2 DEF End
<1>7. /\ query.limit \in Int /\ query.prefetch \in 0..4
      /\ query.kind \in {"find", "tail", "command"} /\ (query.limit # 0 => query.kind = "find")
  BY <1>1, QueriesAssumption
<1>8. Limit \in Nat /\ (Limited <=> Limit # 0)
  BY <1>7 DEF Limit, Limited, R!LimitOf
<1>9. /\ Len(returned) \in Nat /\ Len(stored) \in Nat /\ cursor.pos \in 0..Len(stored) /\ Len(wire) \in Nat /\ Len(replies) \in Nat
  BY <1>1
<1>10. /\ iter.err \in R!Errs /\ iter.docsToReceive \in Nat /\ iter.docsBeforeMore \in Int /\ iter.limit \in Nat
       /\ iter.opLimit \in Int /\ iter.cursorId \in 0..1 /\ iter.timedout \in BOOLEAN
  BY <1>1
<1> QED BY <1>1, <1>2, <1>4, <1>5, <1>6, <1>7, <1>8, <1>9, <1>10 DEF Limited

(* Positions in the replies depend on the replies only.                    *)
LEMMA SameReplies ==
    ASSUME UNCHANGED replies
    PROVE  (HeadPartial' <=> HeadPartial) /\ (Answered' <=> Answered) /\ PartialLen' = PartialLen /\ AnswerLen' = AnswerLen
BY DEF HeadPartial, Answered, PartialLen, AnswerLen, Whole

(* What the query asks for does not change while it is the same.           *)
LEMMA SameQuery ==
    ASSUME UNCHANGED query
    PROVE  Limit' = Limit /\ (Limited' <=> Limited) /\ (Failing' <=> Failing) /\ (R!Overasked' <=> R!Overasked)
BY DEF Limit, Limited, Failing, R!Overasked

(* Nor do the requests.                                                    *)
LEMMA SameWire == ASSUME UNCHANGED wire PROVE Requests' = Requests
BY DEF Requests

(* Go moves one caller.                                                    *)
LEMMA GoMoves ==
    ASSUME TypeInv, NEW c \in Callers, NEW pc \in R!Pcs, R!Go(c, pc)
    PROVE  Moved(c, pc)
<1>1. app \in [Callers -> [pc : R!Pcs, left : Nat]]
  BY DEF TypeInv
<1>2. app' = [app EXCEPT ![c].pc = pc]
  BY DEF R!Go
<1> QED BY <1>1, <1>2 DEF Moved

(* ReturnTrue moves one caller, to its next call of Next or to Close.      *)
LEMMA ReturnMoves ==
    ASSUME TypeInv, NEW c \in Callers, R!ReturnTrue(c)
    PROVE  \E pc \in {"close", "next"} : Moved(c, pc)
<1>1. app \in [Callers -> [pc : R!Pcs, left : Nat]]
  BY DEF TypeInv
<1> DEFINE pc == IF app[c].left = 1 THEN "close" ELSE "next"
           left == IF app[c].left > 0 THEN app[c].left - 1 ELSE 0
<1>2. app' = [app EXCEPT ![c] = [pc |-> pc, left |-> left]]
  BY DEF R!ReturnTrue
<1>3. pc \in {"close", "next"} /\ pc \in R!Pcs /\ left \in Nat
  BY <1>1 DEF R!Pcs
<1> HIDE DEF pc, left
<1>4. Moved(c, pc)
  BY <1>1, <1>2, <1>3 DEF Moved
<1> QED BY <1>3, <1>4

(* A caller that moves leaves the iterator open, and may begin or end a    *)
(* request.                                                                *)
LEMMA MovedFacts ==
    ASSUME TypeInv, StageInv, NEW c \in Callers, app[c].pc # "start", NEW pc \in R!Pcs \ {"start"}, Moved(c, pc)
    PROVE  /\ Opened /\ Opened'
           /\ Fetchers' = IF pc \in {"getMore", "prefetch"} THEN Fetchers \cup {c} ELSE Fetchers \ {c}
<1>1. Opened
  BY DEF StageInv
<1> QED BY <1>1 DEF Opened, Fetchers, Moved

(* StageInv says nothing more once the iterator is open.                   *)
LEMMA StageAfter == ASSUME reading', Opened' PROVE StageInv'
BY DEF StageInv

(* Steps of the writes keep IterInv.                                       *)
LEMMA SameIteration ==
    ASSUME IterInv, UNCHANGED <<iterating, reading>>
    PROVE  IterInv'
<1>1. /\ UNCHANGED <<query, stored, iter, app, wire, replies, cursor, returned, closed, ended, faults, panic, astray, reading>>
  BY DEF iterating
<1>2. /\ (HeadPartial' <=> HeadPartial) /\ (Answered' <=> Answered) /\ PartialLen' = PartialLen /\ AnswerLen' = AnswerLen
      /\ Limit' = Limit /\ (Limited' <=> Limited) /\ (Failing' <=> Failing) /\ (R!Overasked' <=> R!Overasked) /\ Requests' = Requests
  BY <1>1, SameReplies, SameQuery, SameWire
<1>3. Fetchers' = Fetchers /\ (Opened' <=> Opened)
  BY <1>1 DEF Fetchers, Opened
<1>4. (Pending' <=> Pending) /\ Received' = Received /\ Base' = Base /\ End' = End
  BY <1>1, <1>2, <1>3 DEF Pending, Received, Base, End
<1>5. TypeInv'
  BY <1>1 DEF IterInv, TypeInv
<1>6. StageInv'
  BY <1>1, <1>3 DEF IterInv, StageInv
<1>7. ReplyInv' /\ OneRequest'
  BY <1>1, <1>2, <1>3 DEF IterInv, ReplyInv, OneRequest
<1>8. Waiting' <=> Waiting
  BY <1>1 DEF Waiting
<1>9. QueryInv'
  <2>1. R!OpLimit' = R!OpLimit
    BY <1>1 DEF R!OpLimit
  <2> QED BY <1>1, <1>3, <1>8, <2>1 DEF IterInv, QueryInv
<1>10. CountInv' /\ FetchInv'
  BY <1>1, <1>2, <1>4 DEF IterInv, CountInv, FetchInv
<1>11. ErrInv'
  BY <1>1, <1>4 DEF IterInv, ErrInv
<1>12. ContentInv'
  BY <1>1, <1>2, <1>4 DEF IterInv, ContentInv
<1>13. LimitInv'
  BY <1>1, <1>2, <1>3, <1>4 DEF IterInv, LimitInv
<1>14. EndInv'
  BY <1>1, <1>2, <1>3, <1>4 DEF IterInv, EndInv, Complete
<1>15. FailInv'
  BY <1>1, <1>2, <1>3 DEF IterInv, FailInv
<1>16. ReleaseInv'
  BY <1>1, <1>2, <1>8 DEF IterInv, ReleaseInv, FirstUnread, KillPending
<1> QED BY <1>5, <1>6, <1>7, <1>9, <1>10, <1>11, <1>12, <1>13, <1>14, <1>15, <1>16 DEF IterInv

-----------------------------------------------------------------------------
(* Next waits: a caller requests the next batch only if none is pending.   *)

(* Next waits for a document or is about to request a batch.               *)
LEMMA NextWaitsKeeps ==
    ASSUME IterInv, InUse, NEW c \in Callers, R!NextWaits(c)
    PROVE  IterInv'
<1> DEFINE pc == IF iter.docsToReceive = 0 THEN "getMore" ELSE "wait"
<1> USE DEF IterInv
<1>1. /\ app[c].pc = "next" /\ iter.err = "nil" /\ iter.docData.nelems = 0
      /\ iter.docsToReceive > 0 \/ iter.cursorId # 0
      /\ iter' = [iter EXCEPT !.timedout = FALSE, !.docsToReceive = IF @ = 0 THEN 1 ELSE @]
      /\ R!Go(c, pc)
      /\ UNCHANGED <<query, stored, wire, replies, cursor, returned, closed, ended, faults, panic, astray, reading>>
      /\ reading
  BY DEF R!NextWaits, R!MustWait, R!ServerVars, InUse
<1>2. TypeInv' /\ /\ iter'.err = "nil" /\ iter'.docsToReceive = (IF iter.docsToReceive = 0 THEN 1 ELSE iter.docsToReceive)
                  /\ iter'.docsBeforeMore = iter.docsBeforeMore /\ iter'.limit = iter.limit /\ iter'.opLimit = iter.opLimit
                  /\ iter'.cursorId = iter.cursorId /\ iter'.docData = iter.docData
  <2>1. pc \in R!Pcs \ {"start"}
    BY DEF R!Pcs
  <2>2. Moved(c, pc)
    BY <1>1, <2>1, GoMoves
  <2> QED BY <1>1, <2>2 DEF TypeInv, Moved
<1>3. Moved(c, pc) /\ pc \in R!Pcs \ {"start"} /\ pc \in {"getMore", "wait"}
  BY <1>1, GoMoves DEF R!Pcs
<1>4. /\ Opened /\ Opened'
      /\ Fetchers' = IF iter.docsToReceive = 0 THEN Fetchers \cup {c} ELSE Fetchers
  <2>1. c \notin Fetchers /\ app[c].pc # "start" /\ (pc = "getMore" <=> iter.docsToReceive = 0)
    BY <1>1 DEF Fetchers
  <2> HIDE DEF pc
  <2>2. Opened /\ Opened' /\ Fetchers' = IF pc \in {"getMore", "prefetch"} THEN Fetchers \cup {c} ELSE Fetchers \ {c}
    BY <1>3, <2>1, MovedFacts
  <2> QED BY <1>3, <2>1, <2>2
<1>5. /\ (HeadPartial' <=> HeadPartial) /\ (Answered' <=> Answered) /\ PartialLen' = PartialLen /\ AnswerLen' = AnswerLen
      /\ Limit' = Limit /\ (Limited' <=> Limited) /\ (Failing' <=> Failing) /\ (R!Overasked' <=> R!Overasked) /\ Requests' = Requests
      /\ R!OpLimit' = R!OpLimit
  BY <1>1, SameReplies, SameQuery, SameWire DEF R!OpLimit
<1>6. Received' = Received /\ Base' = Base /\ End' = End
  BY <1>1, <1>2, <1>5 DEF Received, Base, End
<1>7. Pending' <=> Pending \/ iter.docsToReceive = 0
  BY <1>4, <1>5 DEF Pending
<1>8. /\ iter.docsToReceive \in Nat /\ PartialLen \in Nat /\ Len(returned) \in Nat /\ iter.docsBeforeMore \in Int /\ iter.limit \in Nat
      /\ Base = Len(returned) + PartialLen /\ Limit \in Nat /\ (HeadPartial => PartialLen > 0)
  <2>1. HeadPartial => PartialLen > 0
    BY TypeFacts DEF ReplyInv, HeadPartial, PartialLen
  <2> QED BY <1>1, <2>1, TypeFacts DEF Base, Received
<1>9. iter.docsToReceive = 0 => ~Pending /\ PartialLen = 0 /\ ~HeadPartial
  BY <1>1, <1>8 DEF CountInv
<1>10. /\ Waiting => Waiting'
       /\ KillPending' <=> KillPending
       /\ \A d \in Callers : app'[d].pc \in {"limitClose", "limitKill", "kill", "close", "done", "prefetch"} => app[d].pc = app'[d].pc
       /\ app'[c].pc # "done"
  <2>1. Waiting => Waiting'
    <3>1. "next" \in FirstPcs(query.plan[c]) => "wait" \in FirstPcs(query.plan[c])
      BY DEF FirstPcs
    <3>2. Waiting => pc = "wait"
      BY <1>1 DEF Waiting
    <3> HIDE DEF pc
    <3> QED BY <1>1, <1>2, <1>3, <3>1, <3>2 DEF Waiting, Moved
  <2> HIDE DEF pc
  <2> QED BY <1>1, <1>3, <2>1 DEF KillPending, Moved
<1> HIDE DEF pc
<1>11. StageInv'
  BY <1>1, <1>4, StageAfter
<1>12. ReplyInv' /\ OneRequest'
  BY <1>1, <1>4, <1>5, <1>9 DEF ReplyInv, OneRequest, Pending
<1>13. QueryInv'
  BY <1>1, <1>2, <1>4, <1>5, <1>9, <1>10 DEF QueryInv, Pending, Requests
<1>14. CountInv' /\ FetchInv'
  <2>1. \A d \in Callers : app'[d].pc = "getMore" => d = c \/ app[d].pc = "getMore"
    BY <1>3 DEF Moved
  <2>2. app'[c].pc = "getMore" => iter.docsToReceive = 0
    BY <1>3 DEF Moved, pc
  <2> QED BY <1>1, <1>2, <1>5, <1>7, <1>8, <1>9, <2>1, <2>2 DEF CountInv, FetchInv
<1>15. ErrInv'
  BY <1>1, <1>2, <1>10 DEF ErrInv
<1>16. ContentInv'
  BY <1>1, <1>2, <1>5, <1>6 DEF ContentInv
<1>17. LimitInv'
  BY <1>1, <1>2, <1>4, <1>5, <1>6, <1>7, <1>8, <1>9 DEF LimitInv
<1>18. EndInv'
  BY <1>1, <1>2, <1>4, <1>5, <1>6, <1>7 DEF EndInv, Complete
<1>19. FailInv'
  BY <1>1, <1>2, <1>4, <1>5, <1>10 DEF FailInv
<1>20. ReleaseInv'
  BY <1>1, <1>2, <1>5, <1>10 DEF ReleaseInv, FirstUnread
<1> QED BY <1>2, <1>11, <1>12, <1>13, <1>14, <1>15, <1>16, <1>17, <1>18, <1>19, <1>20

(* Next of a tailable iterator gives up for the time being.                *)
LEMMA NextTimesOutKeeps ==
    ASSUME IterInv, InUse, NEW c \in Callers, R!NextTimesOut(c)
    PROVE  IterInv'
<1> DEFINE pc == IF query.plan[c] = 0 THEN "next" ELSE "close"
<1> USE DEF IterInv
<1>1. /\ app[c].pc = "next" /\ iter.err = "nil" /\ iter.docData.nelems = 0 /\ iter.docsToReceive = 0 /\ iter.cursorId # 0
      /\ iter' = [iter EXCEPT !.timedout = TRUE]
      /\ R!Go(c, pc)
      /\ UNCHANGED <<query, stored, wire, replies, cursor, returned, closed, ended, faults, panic, astray, reading>>
      /\ reading
  BY DEF R!NextTimesOut, R!MustWait, R!ServerVars, InUse
<1>3. Moved(c, pc) /\ pc \in R!Pcs \ {"start"} /\ pc \in {"next", "close"}
  BY <1>1, GoMoves DEF R!Pcs
<1>2. TypeInv' /\ /\ iter'.err = "nil" /\ iter'.docsToReceive = iter.docsToReceive
                  /\ iter'.docsBeforeMore = iter.docsBeforeMore /\ iter'.limit = iter.limit /\ iter'.opLimit = iter.opLimit
                  /\ iter'.cursorId = iter.cursorId /\ iter'.docData = iter.docData
  BY <1>1, <1>3 DEF TypeInv, Moved
<1>4. Opened /\ Opened' /\ Fetchers' = Fetchers
  <2>1. c \notin Fetchers
    BY <1>1 DEF Fetchers
  <2> QED BY <1>1, <1>3, <2>1, MovedFacts
<1>5. /\ (HeadPartial' <=> HeadPartial) /\ (Answered' <=> Answered) /\ PartialLen' = PartialLen /\ AnswerLen' = AnswerLen
      /\ Limit' = Limit /\ (Limited' <=> Limited) /\ (Failing' <=> Failing) /\ (R!Overasked' <=> R!Overasked) /\ Requests' = Requests
  BY <1>1, SameReplies, SameQuery, SameWire
<1>6. Received' = Received /\ Base' = Base /\ End' = End /\ (Pending' <=> Pending)
  BY <1>1, <1>2, <1>4, <1>5 DEF Received, Base, End, Pending
<1>7. ~Pending /\ PartialLen = 0
  <2>1. PartialLen \in Nat /\ 0 >= (IF Pending THEN 1 ELSE 0) + PartialLen
    BY <1>1, TypeFacts DEF CountInv
  <2> QED BY <2>1
<1>8. /\ KillPending' <=> KillPending
      /\ \A d \in Callers : app'[d].pc \in {"limitClose", "limitKill", "kill", "done", "prefetch"} => app[d].pc = app'[d].pc
      /\ app'[c].pc # "done"
  BY <1>1, <1>2, <1>3 DEF KillPending, Moved
<1> HIDE DEF pc
<1>11. StageInv'
  BY <1>1, <1>4, StageAfter
<1>12. ReplyInv' /\ OneRequest'
  BY <1>1, <1>4, <1>5 DEF ReplyInv, OneRequest
<1>13. QueryInv'
  BY <1>1, <1>7 DEF QueryInv, Pending, Requests
<1>14. CountInv' /\ FetchInv'
  <2>1. \A d \in Callers : app'[d].pc = "getMore" => app[d].pc = "getMore"
    BY <1>3 DEF Moved
  <2> QED BY <1>1, <1>2, <1>5, <1>6, <2>1 DEF CountInv, FetchInv
<1>15. ErrInv'
  BY <1>1, <1>2, <1>6, <1>8 DEF ErrInv
<1>16. ContentInv'
  BY <1>1, <1>2, <1>5, <1>6 DEF ContentInv
<1>17. LimitInv'
  BY <1>1, <1>2, <1>4, <1>5, <1>6 DEF LimitInv
<1>18. EndInv'
  BY <1>1, <1>2, <1>4, <1>5, <1>6 DEF EndInv, Complete
<1>19. FailInv'
  BY <1>1, <1>4, <1>5 DEF FailInv
<1>20. ReleaseInv'
  BY <1>1, <1>2, <1>5, <1>7, <1>8 DEF ReleaseInv, FirstUnread, Pending
<1> QED BY <1>2, <1>11, <1>12, <1>13, <1>14, <1>15, <1>16, <1>17, <1>18, <1>19, <1>20

-----------------------------------------------------------------------------
(* Close and killing the cursor.                                           *)

(* After Close the caller is done, or goes on with Next when the limit     *)
(* closed the cursor.                                                      *)
LEMMA AfterCloseMoves ==
    ASSUME TypeInv, NEW c \in Callers, NEW pc, R!AfterClose(c, pc)
    PROVE  \E new \in {"done", "close", "next"} :
             Moved(c, new) /\ new \in R!Pcs \ {"start"} /\ (new = "done" => pc \in {"close", "kill"})
<1>1. CASE pc \in {"close", "kill"}
  BY <1>1, GoMoves DEF R!AfterClose, R!Pcs
<1>2. CASE pc \notin {"close", "kill"}
  BY <1>2, ReturnMoves DEF R!AfterClose, R!Pcs
<1> QED BY <1>1, <1>2

(* Close forgets the cursor, and will kill it.                             *)
LEMMA CloseKeeps ==
    ASSUME IterInv, InUse, NEW c \in Callers, R!Close(c)
    PROVE  IterInv'
<1> USE DEF IterInv
<1>1. /\ app[c].pc \in {"close", "limitClose"}
      /\ iter' = [iter EXCEPT !.cursorId = 0]
      /\ closed' = (closed \/ (app[c].pc = "close" /\ iter.err = "nil"))
      /\ IF iter.cursorId = 0 THEN R!AfterClose(c, app[c].pc)
         ELSE R!Go(c, IF app[c].pc = "close" THEN "kill" ELSE "limitKill")
      /\ astray' = IF app[c].pc = "close" /\ R!Unknown THEN astray \union {"early"} ELSE astray
      /\ UNCHANGED <<query, stored, wire, replies, cursor, returned, ended, faults, panic, reading>>
      /\ reading
  BY DEF R!Close, R!MarkEarly, R!Strays, R!ServerVars, InUse
<1>2. PICK pc \in {"done", "close", "next", "kill", "limitKill"} :
        /\ Moved(c, pc) /\ pc \in R!Pcs \ {"start"}
        /\ pc = "kill" => app[c].pc = "close"
        /\ pc = "limitKill" => app[c].pc = "limitClose"
        /\ iter.cursorId # 0 => pc \in {"kill", "limitKill"}
        /\ iter.cursorId = 0 => pc \notin {"kill", "limitKill"}
        /\ pc = "done" => app[c].pc = "close"
  <2>1. CASE iter.cursorId = 0
    BY <1>1, <2>1, AfterCloseMoves
  <2>2. CASE iter.cursorId # 0
    BY <1>1, <2>2, GoMoves DEF R!Pcs
  <2> QED BY <2>1, <2>2
<1>3. TypeInv' /\ /\ iter'.err = iter.err /\ iter'.docsToReceive = iter.docsToReceive
                  /\ iter'.docsBeforeMore = iter.docsBeforeMore /\ iter'.limit = iter.limit /\ iter'.opLimit = iter.opLimit
                  /\ iter'.cursorId = 0 /\ iter'.docData = iter.docData
  <2>1. closed' \in BOOLEAN
    BY <1>1, Zenon
  <2>2. iter' \in [err : R!Errs, docsToReceive : Nat, docsBeforeMore : Int, limit : Nat, opLimit : Int,
                   cursorId : 0..1, docData : {iter'.docData}, timedout : BOOLEAN]
    <3>1. iter \in [err : R!Errs, docsToReceive : Nat, docsBeforeMore : Int, limit : Nat, opLimit : Int,
                    cursorId : 0..1, docData : {iter.docData}, timedout : BOOLEAN]
      BY DEF TypeInv
    <3>2. iter' = [iter EXCEPT !.cursorId = 0]
      BY <1>1
    <3> QED BY <3>1, <3>2
  <2>3. app' \in [Callers -> [pc : R!Pcs, left : Nat]]
    BY <1>2 DEF Moved
  <2> QED BY <1>1, <2>1, <2>2, <2>3 DEF TypeInv
<1>4. Opened /\ Opened' /\ Fetchers' = Fetchers
  <2>1. c \notin Fetchers
    BY <1>1 DEF Fetchers
  <2>2. Moved(c, pc) /\ pc \in R!Pcs \ {"start"} /\ pc \notin {"getMore", "prefetch"} /\ app[c].pc # "start"
    BY <1>1, <1>2
  <2>3. Opened /\ Opened' /\ Fetchers' = Fetchers \ {c}
    BY <2>2, MovedFacts
  <2> QED BY <2>1, <2>3
<1>5. /\ (HeadPartial' <=> HeadPartial) /\ (Answered' <=> Answered) /\ PartialLen' = PartialLen /\ AnswerLen' = AnswerLen
      /\ Limit' = Limit /\ (Limited' <=> Limited) /\ (Failing' <=> Failing) /\ (R!Overasked' <=> R!Overasked) /\ Requests' = Requests
  BY <1>1, SameReplies, SameQuery, SameWire
<1>6. Received' = Received /\ Base' = Base /\ End' = End /\ (Pending' <=> Pending)
  BY <1>1, <1>3, <1>4, <1>5 DEF Received, Base, End, Pending
(* Who closes before the first reply leaves the cursor to come.            *)
<1>7. /\ Waiting /\ (cursor.state = "open" \/ \E i \in DOMAIN wire : wire[i].op = "query") => "early" \in astray'
      /\ "early" \in astray' => (Waiting => Waiting')
  <2>1. "early" \notin astray' => "early" \notin astray /\ (app[c].pc = "close" => ~R!Unknown)
    BY <1>1
  <2>2. Waiting => app[c].pc = "close" /\ iter.cursorId = 0 /\ iter.err = "nil" /\ ("early" \notin astray => ~closed)
    BY <1>1 DEF Waiting
  <2>3. Waiting /\ (cursor.state = "open" \/ \E i \in DOMAIN wire : wire[i].op = "query") => "early" \in astray'
    BY <2>1, <2>2 DEF R!Unknown
  <2>4. Waiting => pc \notin {"kill", "limitKill"}
    BY <1>2, <2>2
  <2> QED BY <1>1, <1>2, <1>3, <2>3, <2>4 DEF Waiting, Moved
<1>8. /\ \A d \in Callers : app'[d].pc \in {"limitClose", "prefetch"} => app[d].pc = app'[d].pc
      /\ \A d \in Callers : d # c => app'[d] = app[d]
      /\ app'[c].pc = pc
  BY <1>1, <1>2 DEF Moved
<1>11. StageInv'
  BY <1>1, <1>4, StageAfter
<1>12. ReplyInv' /\ OneRequest'
  BY <1>1, <1>4, <1>5 DEF ReplyInv, OneRequest
<1>13. QueryInv'
  <2>1. R!OpLimit' = R!OpLimit
    BY <1>1 DEF R!OpLimit
  <2> QED BY <1>1, <1>3, <1>4, <1>7, <2>1 DEF QueryInv
<1>14. CountInv' /\ FetchInv'
  <2>1. \A d \in Callers : app'[d].pc = "getMore" => app[d].pc = "getMore"
    BY <1>2 DEF Moved
  <2> QED BY <2>1, <1>1, <1>3, <1>5, <1>6 DEF CountInv, FetchInv
<1>15. ErrInv'
  BY <1>1, <1>2, <1>3, <1>6, <1>8 DEF ErrInv
<1>16. ContentInv'
  BY <1>1, <1>3, <1>5, <1>6 DEF ContentInv
<1>17. LimitInv'
  BY <1>1, <1>3, <1>4, <1>5, <1>6 DEF LimitInv
<1>18. EndInv'
  BY <1>1, <1>3, <1>4, <1>5, <1>6 DEF EndInv, Complete, ErrInv
<1>19. FailInv'
  BY <1>1, <1>2, <1>3, <1>4, <1>5, <1>8 DEF FailInv
<1>20. ReleaseInv'
  <2>1. iter.cursorId # 0 => KillPending'
    BY <1>2, <1>8 DEF KillPending
  <2>2. iter.cursorId = 0 => (KillPending' <=> KillPending)
    BY <1>1, <1>2, <1>8 DEF KillPending
  <2>3. "early" \notin astray' => "early" \notin astray
    BY <1>1
  <2> QED BY <1>1, <1>3, <1>7, <2>1, <2>2, <2>3 DEF ReleaseInv, FirstUnread
<1> QED BY <1>3, <1>11, <1>12, <1>13, <1>14, <1>15, <1>16, <1>17, <1>18, <1>19, <1>20

(* The kill is sent, or that fails.                                        *)
LEMMA KillKeeps ==
    ASSUME IterInv, InUse, NEW c \in Callers, R!Kill(c)
    PROVE  IterInv'
<1> USE DEF IterInv
<1>1. /\ app[c].pc \in {"kill", "limitKill"}
      /\ \/ wire' = Append(wire, [op |-> "kill"]) /\ UNCHANGED <<iter, faults>>
         \/ /\ faults > 0 /\ faults' = faults - 1 /\ UNCHANGED wire
            /\ iter' = [iter EXCEPT !.err = IF @ \in {"nil", "notFound"} THEN "net" ELSE @]
      /\ R!AfterClose(c, app[c].pc)
      /\ UNCHANGED <<query, stored, replies, cursor, returned, closed, ended, panic, astray, reading>>
      /\ reading
  BY DEF R!Kill, R!Fault, InUse
<1>2. PICK pc \in {"done", "close", "next"} : Moved(c, pc) /\ pc \in R!Pcs \ {"start"}
  BY <1>1, AfterCloseMoves
<1>3. TypeInv' /\ /\ iter'.err = iter.err \/ (iter'.err = "net" /\ iter.err \in {"nil", "notFound"})
                  /\ iter'.docsToReceive = iter.docsToReceive
                  /\ iter'.docsBeforeMore = iter.docsBeforeMore /\ iter'.limit = iter.limit /\ iter'.opLimit = iter.opLimit
                  /\ iter'.cursorId = iter.cursorId /\ iter'.docData = iter.docData
  <2>1. CASE wire' = Append(wire, [op |-> "kill"]) /\ UNCHANGED <<iter, faults>>
    <3>1. wire' \in Seq(WireOps)
      BY <2>1 DEF TypeInv, WireOps
    <3> QED BY <1>1, <1>2, <2>1, <3>1 DEF TypeInv, Moved
  <2>2. CASE /\ faults > 0 /\ faults' = faults - 1 /\ UNCHANGED wire
             /\ iter' = [iter EXCEPT !.err = IF @ \in {"nil", "notFound"} THEN "net" ELSE @]
    <3>1. iter' \in [err : R!Errs, docsToReceive : Nat, docsBeforeMore : Int, limit : Nat, opLimit : Int,
                     cursorId : 0..1, docData : {iter'.docData}, timedout : BOOLEAN]
      BY <2>2 DEF TypeInv, R!Errs
    <3>2. faults' \in 0..query.faults
      BY <2>2, QueriesAssumption DEF TypeInv
    <3> QED BY <1>1, <1>2, <2>2, <3>1, <3>2 DEF TypeInv, Moved
  <2> QED BY <1>1, <2>1, <2>2
<1>4. Opened /\ Opened' /\ Fetchers' = Fetchers
  <2>1. c \notin Fetchers
    BY <1>1 DEF Fetchers
  <2>2. Moved(c, pc) /\ pc \in R!Pcs \ {"start"} /\ pc \notin {"getMore", "prefetch"} /\ app[c].pc # "start"
    BY <1>1, <1>2
  <2>3. Opened /\ Opened' /\ Fetchers' = Fetchers \ {c}
    BY <2>2, MovedFacts
  <2> QED BY <2>1, <2>3
<1>9. /\ Requests' = Requests /\ \A i \in DOMAIN wire : i \in DOMAIN wire' /\ wire'[i] = wire[i]
      /\ \A i \in DOMAIN wire' : wire'[i].op # "kill" => i \in DOMAIN wire
  <2>1. CASE wire' = Append(wire, [op |-> "kill"])
    <3>1. wire \in Seq(WireOps)
      BY DEF TypeInv
    <3>2. /\ DOMAIN wire = 1..Len(wire) /\ DOMAIN wire' = 1..(Len(wire) + 1) /\ Len(wire) \in Nat
          /\ \A i \in 1..Len(wire) : wire'[i] = wire[i]
          /\ wire'[Len(wire) + 1].op = "kill"
      BY <2>1, <3>1
    <3> QED BY <3>2 DEF Requests
  <2>2. CASE UNCHANGED wire
    BY <2>2, SameWire
  <2> QED BY <1>1, <2>1, <2>2
<1>5. /\ (HeadPartial' <=> HeadPartial) /\ (Answered' <=> Answered) /\ PartialLen' = PartialLen /\ AnswerLen' = AnswerLen
      /\ Limit' = Limit /\ (Limited' <=> Limited) /\ (Failing' <=> Failing) /\ (R!Overasked' <=> R!Overasked)
  BY <1>1, SameReplies, SameQuery
<1>6. Received' = Received /\ Base' = Base /\ End' = End /\ (Pending' <=> Pending)
  BY <1>1, <1>3, <1>4, <1>5, <1>9 DEF Received, Base, End, Pending
<1>7. ~Waiting /\ (closed \/ iter.err # "nil")
  BY <1>1 DEF Waiting, ErrInv
<1>8. /\ \A d \in Callers : app'[d].pc \in {"limitClose", "limitKill", "kill"} => app[d].pc = app'[d].pc
      /\ \A d \in Callers : d # c => app'[d] = app[d]
      /\ app'[c].pc = pc
  BY <1>1, <1>2 DEF Moved
<1>11. StageInv'
  BY <1>1, <1>4, StageAfter
<1>12. ReplyInv' /\ OneRequest'
  BY <1>1, <1>4, <1>5, <1>9 DEF ReplyInv, OneRequest
<1>13. QueryInv'
  BY <1>7, <1>9 DEF QueryInv
<1>14. CountInv' /\ FetchInv'
  <2>1. \A d \in Callers : app'[d].pc = "getMore" => app[d].pc = "getMore"
    BY <1>2 DEF Moved
  <2> QED BY <2>1, <1>1, <1>3, <1>5, <1>6 DEF CountInv, FetchInv
<1>15. ErrInv'
  BY <1>1, <1>2, <1>3, <1>6, <1>7, <1>8 DEF ErrInv
<1>16. ContentInv'
  BY <1>1, <1>3, <1>5, <1>6 DEF ContentInv
<1>17. LimitInv'
  <2>1. \A i \in Requests : wire'[i] = wire[i]
    BY <1>9 DEF Requests
  <2> QED BY <1>1, <1>3, <1>4, <1>5, <1>6, <1>7, <1>9, <2>1 DEF LimitInv
<1>18. EndInv'
  BY <1>1, <1>3, <1>4, <1>5, <1>6, <1>7 DEF EndInv, Complete
<1>19. FailInv'
  BY <1>1, <1>4, <1>5 DEF FailInv
<1>20. ReleaseInv'
  <2>1. CASE wire' = Append(wire, [op |-> "kill"])
    <3>1. Len(wire) + 1 \in DOMAIN wire' /\ wire'[Len(wire) + 1].op = "kill"
      BY <2>1 DEF TypeInv
    <3>2. KillPending'
      BY <3>1 DEF KillPending
    <3> QED BY <3>2 DEF ReleaseInv
  <2>2. CASE faults > 0 /\ faults' = faults - 1
    <3>1. faults' # query'.faults
      BY <1>1, <2>2, QueriesAssumption DEF TypeInv
    <3> QED BY <3>1 DEF ReleaseInv
  <2> QED BY <1>1, <2>1, <2>2
<1> QED BY <1>3, <1>11, <1>12, <1>13, <1>14, <1>15, <1>16, <1>17, <1>18, <1>19, <1>20

-----------------------------------------------------------------------------
(* Next returns: what Deliver does with an iterator.                       *)

(* Deliver does one of the three, or panics.                               *)
LEMMA DeliverFacts ==
    ASSUME NEW c \in Callers, NEW it, Typed(it), Ring(it.docData), R!Deliver(c, it)
    PROVE  /\ it.docData.nelems = 0 => DeliversNothing(c, it)
           /\ TooMany(it) => panic' = R!LimitPanic
           /\ it.docData.nelems > 0 /\ ~TooMany(it) /\ Item(it.docData, 1) = R!ErrorDoc => DeliversError(c, it)
           /\ it.docData.nelems > 0 /\ ~TooMany(it) /\ Item(it.docData, 1) # R!ErrorDoc => DeliversDoc(c, it)
<1>1. CASE it.docData.nelems = 0
  <2> DEFINE then == IF it.err = "nil" THEN [it EXCEPT !.err = "notFound"] ELSE it
  <2>1. R!ReturnFalse(c, then) /\ UNCHANGED <<returned, panic>>
    BY <1>1 DEF R!Deliver
  <2>5. ~TooMany(it)
    BY <1>1 DEF TooMany
  <2>2. then = [it EXCEPT !.err = IF it.err = "nil" THEN "notFound" ELSE it.err] /\ (then.err = "notFound" <=> it.err \in {"nil", "notFound"})
    BY DEF Typed
  <2> HIDE DEF then
  <2>3. iter' = then /\ R!Go(c, "close") /\ ended' = IF then.err = "notFound" THEN (IF ended = "no" THEN "exhausted" ELSE ended) ELSE "error"
    BY <2>1 DEF R!ReturnFalse
  <2>4. DeliversNothing(c, it)
    BY <2>1, <2>2, <2>3 DEF DeliversNothing
  <2> QED BY <1>1, <2>4, <2>5
<1>2. CASE it.docData.nelems > 0
  <2> DEFINE q == it.docData
             doc == R!Head1(q)
             last == it.limit = 1
             more == it.cursorId # 0 /\ it.err = "nil" /\ ~last
             fetch == more /\ it.docsBeforeMore = 0
             limit == IF it.limit > 0 THEN it.limit - 1 ELSE 0
             err == IF last THEN "notFound" ELSE it.err
             before == IF more THEN it.docsBeforeMore - 1 ELSE it.docsBeforeMore
             receive == IF fetch THEN it.docsToReceive + 1 ELSE it.docsToReceive
             popped == [it EXCEPT !.docData = R!Pop(@), !.limit = IF @ > 0 THEN @ - 1 ELSE 0,
                                  !.err = IF last THEN "notFound" ELSE @, !.docsBeforeMore = IF more THEN @ - 1 ELSE @,
                                  !.docsToReceive = IF fetch THEN @ + 1 ELSE @]
             failed == [popped EXCEPT !.err = IF @ = "nil" THEN "query" ELSE @]
  <2>1. IF last /\ popped.docData.nelems > 0 THEN panic' = R!LimitPanic
        ELSE /\ UNCHANGED panic
             /\ IF doc = R!ErrorDoc THEN R!ReturnFalse(c, failed) /\ UNCHANGED returned
                ELSE /\ iter' = popped /\ returned' = Append(returned, doc)
                     /\ IF last THEN R!Go(c, "limitClose") ELSE IF fetch THEN R!Go(c, "prefetch") ELSE R!ReturnTrue(c)
                     /\ UNCHANGED ended
    BY <1>2, Zenon DEF R!Deliver
  <2>2. popped = [it EXCEPT !.docData = R!Pop(q), !.limit = limit, !.err = err, !.docsBeforeMore = before, !.docsToReceive = receive]
    BY DEF Typed
  <2>3. limit \in Nat /\ err \in R!Errs /\ before \in Int /\ receive \in Nat
    BY DEF Typed, R!Errs
  <2>4. Ring(R!Pop(q)) /\ R!Pop(q).nelems = q.nelems - 1 /\ doc = Item(q, 1)
    BY <1>2, PopFacts
  <2>5. (more <=> Asks(it)) /\ (last <=> it.limit = 1) /\ q = it.docData /\ (fetch <=> Asks(it) /\ it.docsBeforeMore = 0)
    BY DEF Asks
  <2>6. /\ limit = (IF it.limit > 0 THEN it.limit - 1 ELSE 0) /\ err = (IF it.limit = 1 THEN "notFound" ELSE it.err)
        /\ before = (IF more THEN it.docsBeforeMore - 1 ELSE it.docsBeforeMore)
        /\ receive = IF fetch THEN it.docsToReceive + 1 ELSE it.docsToReceive
    OBVIOUS
  <2> HIDE DEF limit, err, before, receive, doc, popped
  <2>7. /\ Typed(popped) /\ popped.docData = R!Pop(q) /\ popped.limit = limit /\ popped.err = err /\ popped.docsBeforeMore = before
        /\ popped.docsToReceive = receive /\ popped.cursorId = it.cursorId /\ popped.opLimit = it.opLimit
    BY <2>2, <2>3 DEF Typed
  <2>8. Popped(popped, it)
    BY <2>5, <2>6, <2>7 DEF Popped
  <2>9. /\ Typed(failed) /\ failed.docData = R!Pop(q) /\ failed.limit = limit /\ failed.docsBeforeMore = before
        /\ failed.err = (IF err = "nil" THEN "query" ELSE err)
        /\ failed.docsToReceive = receive /\ failed.cursorId = it.cursorId /\ failed.opLimit = it.opLimit
    BY <2>7 DEF Typed, R!Errs
  <2> HIDE DEF failed
  <2>12. TooMany(it) <=> last /\ popped.docData.nelems > 0
    <3>1. q.nelems \in Nat
      BY DEF Ring
    <3> QED BY <2>4, <2>5, <2>7, <3>1 DEF TooMany
  <2>10. ASSUME doc = R!ErrorDoc, ~TooMany(it) PROVE DeliversError(c, it)
    <3>1. /\ iter' = failed /\ R!Go(c, "close")
          /\ ended' = (IF failed.err = "notFound" THEN (IF ended = "no" THEN "exhausted" ELSE ended) ELSE "error")
          /\ UNCHANGED <<returned, panic>>
      BY <2>1, <2>10, <2>12 DEF R!ReturnFalse
    <3>2. Popped(iter', it)
      BY <2>5, <2>6, <2>9, <3>1 DEF Popped
    <3>3. ASSUME it.cursorId = 0
          PROVE  /\ iter'.err = (IF it.limit = 1 THEN "notFound" ELSE IF it.err = "nil" THEN "query" ELSE it.err)
                 /\ iter'.docsToReceive = it.docsToReceive /\ iter'.docsBeforeMore = it.docsBeforeMore
      <4>1. ~more /\ ~fetch
        BY <3>3
      <4> HIDE DEF last, more, fetch
      <4>2. before = it.docsBeforeMore /\ receive = it.docsToReceive
        BY <2>6, <3>3, <4>1
      <4> QED BY <2>6, <2>9, <3>1, <4>1, <4>2
    <3> QED BY <3>1, <3>2, <3>3 DEF DeliversError
  <2>11. ASSUME doc # R!ErrorDoc, ~TooMany(it) PROVE DeliversDoc(c, it)
    <3>1. /\ iter' = popped /\ returned' = Append(returned, doc)
          /\ IF last THEN R!Go(c, "limitClose") ELSE IF fetch THEN R!Go(c, "prefetch") ELSE R!ReturnTrue(c)
          /\ UNCHANGED <<ended, panic>>
      BY <2>1, <2>11, <2>12
    <3> HIDE DEF q
    <3> QED BY <2>4, <2>5, <2>6, <2>7, <2>8, <3>1 DEF DeliversDoc
  <2> QED BY <1>2, <2>1, <2>4, <2>10, <2>11, <2>12
<1>3. it.docData.nelems \in Nat
  BY DEF Ring
<1> QED BY <1>1, <1>2, <1>3

-----------------------------------------------------------------------------
(* Requesting a batch.                                                     *)

(* An error is delivered when no document is there.                        *)
LEMMA FailureDelivered ==
    ASSUME TypeInv, NEW c \in Callers, NEW it, Typed(it), it.docData = iter.docData, iter.docData.nelems = 0,
           it.err \notin {"nil", "notFound"}, R!Deliver(c, it)
    PROVE  iter' = it /\ R!Go(c, "close") /\ ended' = "error" /\ UNCHANGED <<returned, panic>>
<1>1. DeliversNothing(c, it)
  BY DeliverFacts DEF TypeInv
<1> QED BY <1>1 DEF DeliversNothing, Typed

(* Who is about to request a batch is the only one, and it asks for no     *)
(* more than the limit leaves.                                             *)
LEMMA AskingFacts ==
    ASSUME IterInv, NEW c \in Callers, app[c].pc \in {"getMore", "prefetch"}
    PROVE  /\ R!Wanting \in Int /\ Typed(iter) /\ iter.docsToReceive \in Nat \ {0}
           /\ Fetchers = {c} /\ Requests = {} /\ ~Answered /\ Pending /\ Opened
           /\ iter.err # "notFound" /\ (app[c].pc = "getMore" => iter.docData.nelems = 0)
           /\ Limited /\ ~Failing => R!Wanting > 0 /\ Base < Limit /\ Base + R!Wanting <= Limit
<1> USE DEF IterInv
<1>3. R!Wanting \in Int
  <2>1. iter.limit \in Nat /\ iter.docsToReceive \in Nat /\ iter.docData.nelems \in Nat /\ iter.opLimit \in Int
    BY TypeFacts
  <2>2. iter.limit - (iter.docsToReceive - 1) - iter.docData.nelems \in Int
    BY <2>1
  <2> QED BY <2>1, <2>2 DEF R!Wanting
<1>4. Fetchers = {c} /\ Requests = {} /\ ~Answered /\ Pending
  <2>1. c \in Fetchers
    BY DEF Fetchers
  <2>2. Fetchers = {c}
    BY <2>1 DEF OneRequest
  <2> QED BY <2>1, <2>2 DEF OneRequest, Pending
<1>5. /\ Typed(iter) /\ Opened /\ iter.err # "notFound" /\ (app[c].pc = "getMore" => iter.docData.nelems = 0)
  BY <1>4 DEF TypeInv, Typed, StageInv, ErrInv, FetchInv
<1>6. iter.docsToReceive \in Nat \ {0}
  BY <1>4, TypeFacts DEF CountInv
<1>7. ASSUME Limited, ~Failing PROVE R!Wanting > 0 /\ Base < Limit /\ Base + R!Wanting <= Limit
  <2>1. /\ iter.limit = Limit - Len(returned) /\ Base < Limit /\ iter.opLimit > 0
        /\ iter.docsToReceive = 1 + PartialLen /\ Base = Len(returned) + iter.docData.nelems + PartialLen
        /\ iter.opLimit \in Int /\ Limit \in Nat /\ PartialLen \in Nat /\ Len(returned) \in Nat /\ iter.docData.nelems \in Nat
        /\ iter.limit \in Nat /\ Base \in Nat /\ iter.docsToReceive \in Nat
    <3>1. iter.limit = Limit - Len(returned) /\ Base < Limit /\ iter.opLimit # 0 /\ ~(iter.opLimit < 0)
      BY <1>4, <1>5, <1>7 DEF LimitInv
    <3>2. iter.docsToReceive = 1 + PartialLen /\ Base = Len(returned) + iter.docData.nelems + PartialLen
      BY <1>4 DEF CountInv, Base, Received
    <3>3. /\ iter.opLimit \in Int /\ Limit \in Nat /\ PartialLen \in Nat /\ Len(returned) \in Nat /\ iter.docData.nelems \in Nat
          /\ iter.limit \in Nat /\ Base \in Nat /\ iter.docsToReceive \in Nat
      BY TypeFacts
    <3> QED BY <3>1, <3>2, <3>3
  <2>2. R!Wanting > 0 /\ Base + R!Wanting <= Limit
    <3> DEFINE l == iter.limit
               d == iter.docsToReceive
               n == iter.docData.nelems
               r == Len(returned)
    <3>3. /\ l \in Nat /\ d \in Nat /\ n \in Nat /\ r \in Nat /\ Limit \in Nat /\ PartialLen \in Nat /\ Base \in Nat
          /\ l = Limit - r /\ d = 1 + PartialLen /\ Base = r + n + PartialLen /\ Base < Limit
      BY <2>1
    <3> HIDE DEF l, d, n, r
    <3>4. l - (d - 1) - n = Limit - Base /\ Limit - Base \in Nat /\ l > 0
      BY <3>3
    <3>1. iter.limit - (iter.docsToReceive - 1) - iter.docData.nelems = Limit - Base /\ Limit - Base \in Nat /\ iter.limit > 0
      BY <3>4 DEF l, d, n
    <3>2. R!Wanting = IF Limit - Base < iter.opLimit THEN Limit - Base ELSE iter.opLimit
      BY <3>1 DEF R!Wanting
    <3> DEFINE o == iter.opLimit
               w == R!Wanting
               m == Limit - Base
    <3>5. o \in Int /\ o > 0 /\ m \in Nat /\ m > 0 /\ w = IF m < o THEN m ELSE o
      BY <2>1, <3>1, <3>2, <3>3
    <3> HIDE DEF o, w
    <3>6. w > 0 /\ Base + w <= Limit
      BY <3>3, <3>5
    <3> QED BY <3>6 DEF w
  <2> QED BY <2>1, <2>2
<1> QED BY <1>3, <1>4, <1>5, <1>6, <1>7

(* The request for a batch is sent: it asks for no more than the limit     *)
(* leaves.                                                                 *)
LEMMA getMoreKeeps ==
    ASSUME IterInv, InUse, NEW c \in Callers, R!getMore(c)
    PROVE  IterInv'
<1> DEFINE request == [op |-> "getMore", limit |-> R!Wanting, id |-> iter.cursorId]
<1> USE DEF IterInv
<1>3. /\ app[c].pc \in {"getMore", "prefetch"} /\ reading
      /\ wire' = Append(wire, request)
      /\ UNCHANGED <<query, stored, replies, cursor, closed, faults, astray, reading>>
  BY DEF R!getMore, InUse
<1>4. /\ Fetchers = {c} /\ Requests = {} /\ ~Answered /\ Pending /\ R!Wanting \in Int
      /\ Limited /\ ~Failing => R!Wanting > 0 /\ Base < Limit /\ Base + R!Wanting <= Limit
  BY <1>3, AskingFacts
<1>1. /\ iter' = [iter EXCEPT !.opLimit = R!Wanting] /\ ended' \in {ended, "error"}
      /\ UNCHANGED <<returned, panic>>
      /\ \E new \in {"wait", "close", "next"} : Moved(c, new)
  <2> DEFINE it == [iter EXCEPT !.opLimit = R!Wanting]
  <2>1. CASE app[c].pc = "getMore" /\ iter.err # "nil"
    <3>1. R!Deliver(c, it)
      BY <2>1 DEF R!getMore
    <3>2. Typed(it) /\ it.docData = iter.docData /\ it.err = iter.err /\ iter.docData.nelems = 0 /\ iter.err # "notFound"
      BY <1>3, <1>4, <2>1, AskingFacts DEF Typed
    <3> HIDE DEF it
    <3>3. iter' = it /\ R!Go(c, "close") /\ ended' = "error" /\ UNCHANGED <<returned, panic>>
      BY <2>1, <3>1, <3>2, FailureDelivered
    <3> QED BY <3>3, GoMoves DEF it, R!Pcs
  <2>2. CASE ~(app[c].pc = "getMore" /\ iter.err # "nil")
    <3>1. /\ iter' = it /\ UNCHANGED <<returned, ended, panic>>
          /\ IF app[c].pc = "getMore" THEN R!Go(c, "wait") ELSE R!ReturnTrue(c)
      BY <2>2, Zenon DEF R!getMore
    <3> QED BY <3>1, GoMoves, ReturnMoves DEF R!Pcs
  <2> QED BY <2>1, <2>2
<1>2. PICK pc \in {"wait", "close", "next"} : Moved(c, pc)
  BY <1>1
<1>5. Opened /\ Opened' /\ Fetchers' = {}
  <2>1. Moved(c, pc) /\ pc \in R!Pcs \ {"start"} /\ pc \notin {"getMore", "prefetch"} /\ app[c].pc # "start"
    BY <1>2, <1>3 DEF R!Pcs
  <2>2. Opened /\ Opened' /\ Fetchers' = Fetchers \ {c}
    BY <2>1, MovedFacts
  <2> QED BY <1>4, <2>2
<1>6. /\ DOMAIN wire' = 1..(Len(wire) + 1) /\ DOMAIN wire = 1..Len(wire) /\ Len(wire) \in Nat
      /\ \A i \in DOMAIN wire : wire'[i] = wire[i]
      /\ wire'[Len(wire) + 1] = request /\ wire' \in Seq(WireOps)
  <2>1. wire \in Seq(WireOps)
    BY DEF TypeInv
  <2>2. request \in WireOps
    BY <1>4, TypeFacts DEF WireOps
  <2> HIDE DEF request
  <2> QED BY <1>3, <2>1, <2>2
<1>7. TypeInv' /\ /\ iter'.err = iter.err /\ iter'.docsToReceive = iter.docsToReceive
                  /\ iter'.docsBeforeMore = iter.docsBeforeMore /\ iter'.limit = iter.limit /\ iter'.opLimit = R!Wanting
                  /\ iter'.cursorId = iter.cursorId /\ iter'.docData = iter.docData
  <2>1. Typed(iter)
    BY DEF TypeInv, Typed
  <2>2. Typed(iter') /\ /\ iter'.err = iter.err /\ iter'.docsToReceive = iter.docsToReceive
                  /\ iter'.docsBeforeMore = iter.docsBeforeMore /\ iter'.limit = iter.limit /\ iter'.opLimit = R!Wanting
                  /\ iter'.cursorId = iter.cursorId /\ iter'.docData = iter.docData
    BY <1>1, <1>4, <2>1 DEF Typed
  <2>3. app' \in [Callers -> [pc : R!Pcs, left : Nat]]
    BY <1>2 DEF Moved
  <2> QED BY <1>1, <1>3, <1>6, <2>2, <2>3 DEF TypeInv, Typed
<1>8. Requests' = {Len(wire) + 1}
  BY <1>4, <1>6 DEF Requests
<1>9. /\ (HeadPartial' <=> HeadPartial) /\ (Answered' <=> Answered) /\ PartialLen' = PartialLen /\ AnswerLen' = AnswerLen
      /\ Limit' = Limit /\ (Limited' <=> Limited) /\ (Failing' <=> Failing) /\ (R!Overasked' <=> R!Overasked)
  BY <1>3, SameReplies, SameQuery
<1>10. Received' = Received /\ Base' = Base /\ End' = End /\ Pending'
  BY <1>1, <1>3, <1>7, <1>8, <1>9 DEF Received, Base, End, Pending
<1>11. StageInv'
  BY <1>3, <1>5, StageAfter
<1>12. ReplyInv' /\ OneRequest'
  BY <1>3, <1>4, <1>5, <1>8, <1>9 DEF ReplyInv, OneRequest
<1>13. QueryInv'
  <2>1. \A i \in DOMAIN wire' : wire'[i].op # "query"
    <3>1. \A i \in DOMAIN wire : wire[i].op = "kill"
      BY <1>4 DEF Requests
    <3> QED BY <1>6, <3>1
  <2> QED BY <2>1 DEF QueryInv
<1>14. CountInv' /\ FetchInv'
  BY <1>3, <1>4, <1>5, <1>7, <1>9, <1>10 DEF CountInv, FetchInv, Fetchers
<1>15. ErrInv'
  <2>1. \A d \in Callers : app'[d].pc \in {"limitClose", "limitKill", "kill"} => app[d].pc = app'[d].pc
    BY <1>2 DEF Moved
  <2> QED BY <1>1, <1>3, <1>4, <1>7, <1>10, <2>1 DEF ErrInv
<1>16. ContentInv'
  BY <1>1, <1>3, <1>4, <1>7, <1>9, <1>10 DEF ContentInv
<1>17. LimitInv'
  <2>1. CASE ~Limited
    BY <1>7, <1>9, <2>1 DEF LimitInv
  <2>2. CASE Failing
    BY <1>7, <1>9, <2>2 DEF LimitInv
  <2>3. CASE Limited /\ ~Failing
    <3>1. /\ iter.limit = Limit - Len(returned) /\ iter.limit \in Nat /\ Base \in Nat /\ Limit \in Nat /\ Len(returned) \in Nat
      BY <1>4, <1>5, <2>3, TypeFacts DEF LimitInv
    <3>2. R!Wanting > 0 /\ Base < Limit /\ Base + R!Wanting <= Limit /\ Len(returned) <= Base
      <4>1. iter.docData.nelems \in Nat /\ PartialLen \in Nat /\ Base = Len(returned) + iter.docData.nelems + PartialLen
        BY TypeFacts DEF Base, Received
      <4>2. Len(returned) <= Base
        <5> DEFINE r == Len(returned)
        <5> HIDE DEF r
        <5> QED BY <3>1, <4>1 DEF r
      <4> QED BY <1>4, <2>3, <4>2
    <3>3. R!LimitOf(R!Wanting) = R!Wanting
      BY <3>2, <1>4 DEF R!LimitOf
    <3>4. \A i \in Requests' : wire'[i].limit # 0 /\ Base + R!LimitOf(wire'[i].limit) <= Limit
      BY <1>6, <1>8, <3>2, <3>3
    <3>5. /\ iter'.limit = Limit - Len(returned) /\ Base' = Base /\ Limit' = Limit /\ returned' = returned
          /\ iter'.opLimit > 0 /\ End' <= Limit' /\ Base < Limit /\ iter'.limit > 0
      BY <1>1, <1>3, <1>5, <1>7, <1>9, <1>10, <2>3, <3>1, <3>2 DEF LimitInv
    <3>6. Limited' /\ ~(iter'.opLimit < 0) /\ iter'.opLimit # 0 /\ Base' <= Limit' /\ Base' < Limit'
          /\ \A i \in Requests' : wire'[i].limit # 0 /\ Base' + R!LimitOf(wire'[i].limit) <= Limit'
      BY <1>4, <1>7, <1>9, <2>3, <3>1, <3>2, <3>4, <3>5
    <3> QED BY <3>5, <3>6 DEF LimitInv
  <2> QED BY <2>1, <2>2, <2>3
<1>18. EndInv'
  BY <1>1, <1>3, <1>5, <1>7, <1>9, <1>10 DEF EndInv, Complete
<1>19. FailInv'
  BY <1>4, <1>5, <1>9 DEF FailInv
<1>20. ReleaseInv'
  <2>1. KillPending => KillPending'
    <3>1. \A d \in Callers : app[d].pc \in {"kill", "limitKill"} => app'[d] = app[d]
      BY <1>2, <1>3 DEF Moved
    <3> QED BY <1>6, <3>1 DEF KillPending
  <2>2. ~FirstUnread /\ app'[c].pc # "done"
    BY <1>2, <1>4 DEF FirstUnread, Moved
  <2> QED BY <1>1, <1>3, <1>7, <2>1, <2>2 DEF ReleaseInv
<1> QED BY <1>7, <1>11, <1>12, <1>13, <1>14, <1>15, <1>16, <1>17, <1>18, <1>19, <1>20

(* What the iterator becomes when the request could not be sent.           *)
LEMMA UnsentFacts ==
    ASSUME Typed(iter), R!Wanting \in Int, iter.docsToReceive \in Nat \ {0}, NEW it \in R!Unsent
    PROVE  /\ Typed(it) /\ it.err = "net" /\ it.docsToReceive \in {iter.docsToReceive, iter.docsToReceive - 1}
           /\ it.docsBeforeMore = iter.docsBeforeMore /\ it.limit = iter.limit /\ it.opLimit \in {iter.opLimit, R!Wanting}
           /\ it.cursorId = iter.cursorId /\ it.docData = iter.docData
<1> DEFINE d == iter.docsToReceive - 1
<1>1. d \in Nat
  OBVIOUS
<1>2. it \in {[iter EXCEPT !.err = "net"], [iter EXCEPT !.err = "net", !.opLimit = R!Wanting, !.docsToReceive = d]}
  BY DEF R!Unsent
<1> HIDE DEF d
<1>3. CASE it = [iter EXCEPT !.err = "net"]
  BY <1>3 DEF Typed, R!Errs
<1>4. CASE it = [iter EXCEPT !.err = "net", !.opLimit = R!Wanting, !.docsToReceive = d]
  <2>1. Typed(it) /\ it.docsToReceive = d /\ it.err = "net" /\ it.opLimit = R!Wanting
        /\ it.docsBeforeMore = iter.docsBeforeMore /\ it.limit = iter.limit
        /\ it.cursorId = iter.cursorId /\ it.docData = iter.docData
    BY <1>1, <1>4 DEF Typed, R!Errs
  <2> QED BY <2>1 DEF d
<1> QED BY <1>2, <1>3, <1>4

(* The request could not be sent: the error ends the loop of Next, or Next *)
(* had a document to return.                                               *)
LEMMA getMoreFailsKeeps ==
    ASSUME IterInv, InUse, NEW c \in Callers, R!getMoreFails(c)
    PROVE  IterInv'
<1> USE DEF IterInv
<1>1. /\ app[c].pc \in {"getMore", "prefetch"} /\ reading /\ faults > 0 /\ faults' = faults - 1
      /\ astray' \in {astray, astray \union {"unwoken"}}
      /\ UNCHANGED <<query, stored, wire, replies, cursor, closed, reading>>
  BY DEF R!getMoreFails, R!Fault, R!Strays, R!ServerVars, InUse
<1>4. /\ Fetchers = {c} /\ Requests = {} /\ ~Answered /\ Pending /\ R!Wanting \in Int /\ iter.docsToReceive \in Nat \ {0}
      /\ Limited /\ ~Failing => R!Wanting > 0
  BY <1>1, AskingFacts
<1>2. PICK it \in R!Unsent :
        IF app[c].pc = "getMore" THEN R!Deliver(c, it)
        ELSE iter' = it /\ R!ReturnTrue(c) /\ UNCHANGED <<returned, ended, panic>>
  BY DEF R!getMoreFails
<1>3. /\ Typed(it) /\ it.err = "net" /\ it.docsToReceive \in {iter.docsToReceive, iter.docsToReceive - 1}
      /\ it.docsBeforeMore = iter.docsBeforeMore /\ it.limit = iter.limit /\ it.opLimit \in {iter.opLimit, R!Wanting}
      /\ it.cursorId = iter.cursorId /\ it.docData = iter.docData
  BY <1>2, <1>4, UnsentFacts DEF TypeInv, Typed
<1>6. /\ iter' = it /\ ended' \in {ended, "error"} /\ UNCHANGED <<returned, panic>>
      /\ \E new \in {"close", "next"} : Moved(c, new)
  <2>1. CASE app[c].pc = "getMore"
    <3>1. iter.docData.nelems = 0
      BY <2>1, AskingFacts
    <3>2. iter' = it /\ R!Go(c, "close") /\ ended' = "error" /\ UNCHANGED <<returned, panic>>
      BY <1>2, <1>3, <2>1, <3>1, FailureDelivered
    <3> QED BY <3>2, GoMoves DEF R!Pcs
  <2>2. CASE app[c].pc # "getMore"
    BY <1>2, <2>2, ReturnMoves
  <2> QED BY <2>1, <2>2
<1>8. PICK pc \in {"close", "next"} : Moved(c, pc)
  BY <1>6
<1>5. Opened /\ Opened' /\ Fetchers' = {}
  <2>1. Moved(c, pc) /\ pc \in R!Pcs \ {"start"} /\ pc \notin {"getMore", "prefetch"} /\ app[c].pc # "start"
    BY <1>1, <1>8 DEF R!Pcs
  <2>2. Opened /\ Opened' /\ Fetchers' = Fetchers \ {c}
    BY <2>1, MovedFacts
  <2> QED BY <1>4, <2>2
<1>7. TypeInv' /\ Len(returned') = Len(returned)
  <2>3. app' \in [Callers -> [pc : R!Pcs, left : Nat]]
    BY <1>8 DEF Moved
  <2>4. faults' \in 0..query.faults
    BY <1>1, QueriesAssumption DEF TypeInv
  <2> QED BY <1>1, <1>3, <1>6, <2>3, <2>4 DEF TypeInv, Typed
<1>9. /\ (HeadPartial' <=> HeadPartial) /\ (Answered' <=> Answered) /\ PartialLen' = PartialLen /\ AnswerLen' = AnswerLen
      /\ Limit' = Limit /\ (Limited' <=> Limited) /\ (Failing' <=> Failing) /\ (R!Overasked' <=> R!Overasked) /\ Requests' = Requests
  BY <1>1, SameReplies, SameQuery, SameWire
<1>10. Received' = Received /\ Base' = Base /\ End' = End /\ ~Pending'
  BY <1>3, <1>4, <1>5, <1>6, <1>9 DEF Received, Base, End, Pending
<1>11. StageInv'
  BY <1>1, <1>5, StageAfter
<1>12. ReplyInv' /\ OneRequest'
  BY <1>1, <1>4, <1>5, <1>9 DEF ReplyInv, OneRequest
<1>13. QueryInv'
  <2>1. \A i \in DOMAIN wire : wire[i].op # "query"
    BY <1>4 DEF Requests
  <2> QED BY <1>1, <2>1 DEF QueryInv
<1>14. CountInv' /\ FetchInv'
  <2>1. iter.docsToReceive >= 1 + PartialLen /\ PartialLen \in Nat
    BY <1>4, TypeFacts DEF CountInv
  <2>2. iter'.docsToReceive >= PartialLen
    BY <1>3, <1>4, <1>6, <2>1
  <2>3. query.prefetch = 0 => ~HeadPartial
    BY <1>4 DEF FetchInv
  <2> QED BY <1>1, <1>3, <1>5, <1>6, <1>9, <1>10, <2>1, <2>2, <2>3 DEF CountInv, FetchInv, Fetchers
<1>15. ErrInv'
  <2>1. \A d \in Callers : app'[d].pc \in {"limitClose", "limitKill", "kill"} => app[d].pc = app'[d].pc
    BY <1>8 DEF Moved
  <2> QED BY <1>1, <1>3, <1>4, <1>6, <1>10, <2>1 DEF ErrInv
<1>16. ContentInv'
  BY <1>1, <1>3, <1>4, <1>6, <1>9, <1>10 DEF ContentInv
<1>17. LimitInv'
  BY <1>1, <1>3, <1>4, <1>5, <1>6, <1>9, <1>10 DEF LimitInv
<1>18. EndInv'
  BY <1>1, <1>3, <1>5, <1>6, <1>9, <1>10 DEF EndInv, Complete
<1>19. FailInv'
  BY <1>4, <1>5, <1>9 DEF FailInv
<1>20. ReleaseInv'
  <2>1. faults' # query'.faults
    BY <1>1, QueriesAssumption DEF TypeInv
  <2> QED BY <2>1 DEF ReleaseInv
<1> QED BY <1>7, <1>11, <1>12, <1>13, <1>14, <1>15, <1>16, <1>17, <1>18, <1>19, <1>20

-----------------------------------------------------------------------------
(* Next returns.                                                           *)

(* A reply is read in part or not at all.                                  *)
LEMMA NoReplies == ASSUME TypeInv, ReplyInv PROVE ~HeadPartial /\ ~Answered => replies = <<>>
<1>1. Len(replies) \in 0..2 /\ replies \in Seq(Replies)
  <2>1. replies \in Seq(Replies) /\ Len(replies) <= 2
    BY DEF ReplyInv, TypeInv
  <2> DEFINE n == Len(replies)
  <2>2. n \in Nat /\ n <= 2
    BY <2>1, LenProperties
  <2> HIDE DEF n
  <2>3. n \in 0..2
    BY <2>2
  <2> QED BY <2>1, <2>3 DEF n
<1> QED BY <1>1 DEF HeadPartial, Answered, ReplyInv

(* A reply read in part still has documents.                               *)
LEMMA PartialFacts == ASSUME TypeInv, ReplyInv PROVE HeadPartial <=> PartialLen > 0
<1>1. replies \in Seq(Replies)
  BY DEF TypeInv
<1>2. ASSUME HeadPartial PROVE PartialLen > 0
  <2>1. 1 \in DOMAIN replies /\ ~Whole(replies[1])
    BY <1>1, <1>2 DEF HeadPartial
  <2> QED BY <1>2, <2>1 DEF ReplyInv, PartialLen
<1> QED BY <1>2 DEF PartialLen

(* The end of the iteration, or an error.                                  *)
LEMMA NothingKeeps ==
    ASSUME IterInv, InUse, NEW c \in Callers, R!NextDelivers(c), iter.docData.nelems = 0
    PROVE  IterInv'
<1> DEFINE it == [iter EXCEPT !.timedout = FALSE]
<1> USE DEF IterInv
<1>1. /\ app[c].pc = "next" /\ ~R!MustWait /\ R!Deliver(c, it)
      /\ UNCHANGED <<query, stored, wire, replies, cursor, closed, faults, astray, reading>> /\ reading
  BY DEF R!NextDelivers, R!ServerVars, InUse
<1>2. Typed(iter) /\ Typed(it) /\ Ring(it.docData) /\ it.docData = iter.docData /\ it.err = iter.err
      /\ it.docsToReceive = iter.docsToReceive /\ it.cursorId = iter.cursorId /\ it.limit = iter.limit
      /\ it.opLimit = iter.opLimit /\ it.docsBeforeMore = iter.docsBeforeMore
  BY DEF TypeInv, Typed
<1> HIDE DEF it
<1>3. DeliversNothing(c, it)
  BY <1>1, <1>2, DeliverFacts
<1>4. /\ iter' = [it EXCEPT !.err = IF @ = "nil" THEN "notFound" ELSE @]
      /\ R!Go(c, "close")
      /\ ended' = IF it.err \in {"nil", "notFound"} THEN (IF ended = "no" THEN "exhausted" ELSE ended) ELSE "error"
      /\ UNCHANGED <<returned, panic>>
  BY <1>3 DEF DeliversNothing
<1>5. Moved(c, "close")
  BY <1>4, GoMoves DEF R!Pcs
<1>6. TypeInv' /\ /\ iter'.err = (IF iter.err = "nil" THEN "notFound" ELSE iter.err) /\ iter'.docsToReceive = iter.docsToReceive
                  /\ iter'.docsBeforeMore = iter.docsBeforeMore /\ iter'.limit = iter.limit /\ iter'.opLimit = iter.opLimit
                  /\ iter'.cursorId = iter.cursorId /\ iter'.docData = iter.docData
  <2>1. Typed(iter') /\ /\ iter'.err = (IF iter.err = "nil" THEN "notFound" ELSE iter.err) /\ iter'.docsToReceive = iter.docsToReceive
                  /\ iter'.docsBeforeMore = iter.docsBeforeMore /\ iter'.limit = iter.limit /\ iter'.opLimit = iter.opLimit
                  /\ iter'.cursorId = iter.cursorId /\ iter'.docData = iter.docData
    BY <1>2, <1>4 DEF Typed, R!Errs
  <2>2. ended' \in {"no", "exhausted", "error"}
    BY <1>4 DEF TypeInv
  <2>3. app' \in [Callers -> [pc : R!Pcs, left : Nat]]
    BY <1>5 DEF Moved
  <2> QED BY <1>1, <1>4, <2>1, <2>2, <2>3 DEF TypeInv, Typed
<1>7. Opened /\ Opened' /\ Fetchers' = Fetchers
  <2>1. c \notin Fetchers /\ app[c].pc # "start"
    BY <1>1 DEF Fetchers
  <2>2. Opened /\ Opened' /\ Fetchers' = Fetchers \ {c}
    BY <1>5, <2>1, MovedFacts DEF R!Pcs
  <2> QED BY <2>1, <2>2
<1>8. /\ (HeadPartial' <=> HeadPartial) /\ (Answered' <=> Answered) /\ PartialLen' = PartialLen /\ AnswerLen' = AnswerLen
      /\ Limit' = Limit /\ (Limited' <=> Limited) /\ (Failing' <=> Failing) /\ (R!Overasked' <=> R!Overasked) /\ Requests' = Requests
  BY <1>1, SameReplies, SameQuery, SameWire
<1>9. Received' = Received /\ Base' = Base /\ End' = End /\ (Pending' <=> Pending)
  BY <1>4, <1>6, <1>7, <1>8 DEF Received, Base, End, Pending
<1>10. /\ \A d \in Callers : d # c => app'[d] = app[d]
       /\ app'[c].pc = "close" /\ (KillPending' <=> KillPending)
       /\ \A d \in Callers : app'[d].pc = "getMore" => app[d].pc = "getMore"
  BY <1>1, <1>5 DEF Moved, KillPending
(* At the end nothing is being received or asked for.                      *)
<1>12. ASSUME iter.err = "nil"
       PROVE  /\ iter.cursorId = 0 /\ ~Pending /\ PartialLen = 0 /\ replies = <<>> /\ ~Answered
              /\ iter.docsToReceive = 0
              /\ ~Failing => cursor.pos = Received /\ Base = Received /\ (closed \/ Complete(Received)) /\ Received = Len(returned)
  <2>1. iter.cursorId = 0 /\ iter.docsToReceive = 0
    BY <1>1, <1>12, TypeFacts DEF R!MustWait
  <2>2. ~Pending /\ PartialLen = 0
    BY <1>12, <2>1, TypeFacts DEF CountInv
  <2>3. ~Answered
    BY <2>2 DEF Pending
  <2>4. replies = <<>>
    BY <2>2, <2>3, NoReplies, PartialFacts
  <2>5. AnswerLen = 0 /\ Received = Len(returned) /\ Base = Received /\ End = Received
    BY <2>2, <2>3, TypeFacts DEF AnswerLen, Received, Base, End
  <2>6. ASSUME ~Failing PROVE cursor.pos = Received /\ (closed \/ Complete(Received))
    <3>1. cursor.pos = Received
      BY <1>12, <2>5, <2>6 DEF ContentInv
    <3>2. ~closed => Complete(cursor.pos)
      BY <1>7, <1>12, <2>1, <2>2, <2>6 DEF EndInv
    <3> QED BY <3>1, <3>2
  <2> QED BY <2>1, <2>2, <2>3, <2>4, <2>5, <2>6
<1>13. ~Failing \/ iter.err # "nil"
  <2> SUFFICES ASSUME Failing, iter.err = "nil" PROVE FALSE
    OBVIOUS
  <2>1. ~Pending /\ replies = <<>>
    BY <1>12
  <2>2. Requests = {}
    BY <2>1 DEF Pending
  <2> QED BY <1>7, <2>1, <2>2 DEF FailInv
<1>11. StageInv'
  BY <1>1, <1>7, StageAfter
<1>14. ReplyInv' /\ OneRequest'
  BY <1>1, <1>7, <1>8 DEF ReplyInv, OneRequest
<1>15. QueryInv'
  <2>1. ASSUME NEW i \in DOMAIN wire, wire[i].op = "query" PROVE FALSE
    <3>1. Pending /\ iter.err = "nil"
      BY <2>1 DEF QueryInv, Waiting, Pending, Requests
    <3> QED BY <1>12, <3>1
  <2> QED BY <1>1, <2>1 DEF QueryInv
<1>16. CountInv' /\ FetchInv'
  BY <1>1, <1>6, <1>8, <1>9, <1>10, <1>12, TypeFacts DEF CountInv, FetchInv
<1>17. ErrInv'
  BY <1>1, <1>4, <1>6, <1>9, <1>10, <1>12, <1>2 DEF ErrInv
<1>18. ContentInv'
  BY <1>1, <1>4, <1>6, <1>8, <1>9, <1>12 DEF ContentInv
<1>19. LimitInv'
  <2>1. ASSUME iter.err = "nil", Limited, ~Failing PROVE Base < Limit
    BY <1>7, <1>12, <2>1, TypeFacts DEF LimitInv
  <2> QED BY <1>1, <1>4, <1>6, <1>7, <1>8, <1>9, <2>1 DEF LimitInv
<1>20. EndInv'
  BY <1>1, <1>4, <1>6, <1>7, <1>8, <1>9, <1>12 DEF EndInv, Complete
<1>21. FailInv'
  BY <1>1, <1>4, <1>6, <1>7, <1>8, <1>10, <1>13 DEF FailInv
<1>22. ReleaseInv'
  <2>1. ~FirstUnread
    BY <1>12 DEF FirstUnread, Waiting
  <2> QED BY <1>1, <1>4, <1>6, <1>10, <1>12, <2>1 DEF ReleaseInv
<1> QED BY <1>6, <1>11, <1>14, <1>15, <1>16, <1>17, <1>18, <1>19, <1>20, <1>21, <1>22

(* The query failed.                                                       *)
LEMMA ErrorKeeps ==
    ASSUME IterInv, InUse, NEW c \in Callers, R!NextDelivers(c), iter.docData.nelems > 0,
           Item(iter.docData, 1) = R!ErrorDoc
    PROVE  IterInv'
<1> DEFINE it == [iter EXCEPT !.timedout = FALSE]
<1> USE DEF IterInv
<1>1. /\ app[c].pc = "next" /\ R!Deliver(c, it)
      /\ UNCHANGED <<query, stored, wire, replies, cursor, closed, faults, astray, reading>> /\ reading
  BY DEF R!NextDelivers, R!ServerVars, InUse
<1>2. Typed(iter) /\ Typed(it) /\ Ring(it.docData) /\ it.docData = iter.docData /\ it.err = iter.err
      /\ it.docsToReceive = iter.docsToReceive /\ it.cursorId = iter.cursorId /\ it.limit = iter.limit
      /\ it.opLimit = iter.opLimit /\ it.docsBeforeMore = iter.docsBeforeMore
  BY DEF TypeInv, Typed
<1> HIDE DEF it
<1>4. Opened
  BY <1>1 DEF StageInv
<1>5. Failing
  <2> SUFFICES ASSUME ~Failing PROVE FALSE
    OBVIOUS
  <2>1. stored \in Seq(Documents) /\ Len(returned) + 1 <= Len(stored) /\ Len(returned) \in Nat
    <3>1. /\ Len(returned) \in Nat /\ PartialLen \in Nat /\ AnswerLen \in Nat /\ Len(stored) \in Nat
          /\ cursor.pos \in 0..Len(stored) /\ iter.docData.nelems \in Nat
      BY TypeFacts
    <3>2. End = ((Len(returned) + iter.docData.nelems) + PartialLen) + AnswerLen /\ End <= cursor.pos
      BY DEF ContentInv, End, Base, Received
    <3>3. stored \in Seq(Documents)
      BY DEF TypeInv
    <3> QED BY <3>1, <3>2, <3>3
  <2>2. Item(iter.docData, 1) = stored[Len(returned) + 1]
    BY TypeFacts, SMTT(40) DEF ContentInv
  <2> QED BY <2>1, <2>2 DEF Documents, R!ErrorDoc
<1>6. /\ returned = <<>> /\ iter.cursorId = 0 /\ Fetchers = {} /\ cursor.state # "open" /\ Requests = {}
      /\ iter.docData.nelems = 1 /\ replies = <<>> /\ iter.err = "nil" /\ iter.limit = Limit
      /\ \A d \in Callers : app[d].pc \notin {"kill", "limitKill", "limitClose"}
  BY <1>4, <1>5 DEF FailInv
<1>3. DeliversError(c, it)
  BY <1>1, <1>2, <1>6, DeliverFacts DEF TooMany
<1>7. /\ Popped(iter', it) /\ R!Go(c, "close") /\ UNCHANGED <<returned, panic>>
      /\ iter'.err = (IF Limit = 1 THEN "notFound" ELSE "query")
      /\ iter'.docsToReceive = iter.docsToReceive /\ iter'.docsBeforeMore = iter.docsBeforeMore
      /\ ended' \in {ended, "exhausted", "error"}
  BY <1>2, <1>3, <1>6 DEF DeliversError
<1>8. /\ Typed(iter') /\ iter'.cursorId = 0 /\ iter'.opLimit = iter.opLimit /\ Ring(iter'.docData) /\ iter'.docData.nelems = 0
      /\ iter.limit = 0 => iter'.limit = 0
  <2>1. Typed(iter') /\ iter'.docData = R!Pop(iter.docData) /\ iter'.cursorId = 0 /\ iter'.opLimit = iter.opLimit /\ (iter.limit = 0 => iter'.limit = 0)
    BY <1>2, <1>6, <1>7 DEF Popped
  <2>2. Ring(R!Pop(iter.docData)) /\ R!Pop(iter.docData).nelems = 0
    BY <1>6, PopFacts DEF TypeInv
  <2> QED BY <2>1, <2>2
<1>9. Moved(c, "close")
  BY <1>7, GoMoves DEF R!Pcs
<1>10. TypeInv'
  <2>1. app' \in [Callers -> [pc : R!Pcs, left : Nat]]
    BY <1>9 DEF Moved
  <2> QED BY <1>1, <1>7, <1>8, <2>1 DEF TypeInv, Typed
<1>11. Opened' /\ Fetchers' = {}
  <2>1. Opened' /\ Fetchers' = Fetchers \ {c}
    BY <1>1, <1>9, MovedFacts DEF R!Pcs
  <2> QED BY <1>6, <2>1
<1>12. /\ (Failing' <=> Failing) /\ (R!Overasked' <=> R!Overasked) /\ Requests' = {} /\ (Limited' <=> Limited)
       /\ replies' = <<>> /\ ~Answered' /\ ~HeadPartial' /\ PartialLen' = 0 /\ ~Pending'
  <2>1. ~Answered' /\ ~HeadPartial' /\ PartialLen' = 0
    BY <1>1, <1>6 DEF Answered, HeadPartial, PartialLen
  <2>2. (Failing' <=> Failing) /\ (R!Overasked' <=> R!Overasked) /\ Requests' = {} /\ (Limited' <=> Limited)
    BY <1>1, <1>6, SameQuery, SameWire
  <2> QED BY <1>1, <1>6, <1>11, <2>1, <2>2 DEF Pending
<1>13. /\ \A d \in Callers : d # c => app'[d] = app[d]
       /\ app'[c].pc = "close" /\ Limit' = Limit
  BY <1>1, <1>9 DEF Moved, Limit
<1>14. StageInv'
  BY <1>1, <1>11, StageAfter
<1>15. ReplyInv' /\ OneRequest'
  BY <1>11, <1>12 DEF ReplyInv, OneRequest
<1>16. QueryInv'
  <2>1. \A i \in DOMAIN wire : wire[i].op # "query"
    BY <1>6 DEF Requests
  <2> QED BY <1>1, <2>1 DEF QueryInv
<1>17. CountInv' /\ FetchInv'
  BY <1>7, <1>8, <1>11, <1>12, TypeFacts DEF CountInv, FetchInv, Fetchers
<1>18. ErrInv'
  BY <1>6, <1>7, <1>8, <1>12, <1>13 DEF ErrInv
<1>19. ContentInv' /\ EndInv'
  BY <1>5, <1>12 DEF ContentInv, EndInv
<1>20. LimitInv'
  BY <1>5, <1>8, <1>12 DEF LimitInv
<1>21. FailInv'
  BY <1>1, <1>6, <1>7, <1>8, <1>11, <1>12, <1>13 DEF FailInv
<1>22. ReleaseInv'
  BY <1>1, <1>6 DEF ReleaseInv
<1> QED BY <1>10, <1>14, <1>15, <1>16, <1>17, <1>18, <1>19, <1>20, <1>21, <1>22

(* Next returns a document, and may have to close the cursor or to request *)
(* the next batch first.                                                   *)
LEMMA DocumentKeeps ==
    ASSUME IterInv, InUse, NEW c \in Callers, R!NextDelivers(c), iter.docData.nelems > 0,
           Item(iter.docData, 1) # R!ErrorDoc
    PROVE  IterInv'
<1> DEFINE it == [iter EXCEPT !.timedout = FALSE]
           q == iter.docData
           n == q.nelems
           r == Len(returned)
           doc == Item(q, 1)
           last == iter.limit = 1
           fetch == Asks(iter) /\ iter.docsBeforeMore = 0
<1> USE DEF IterInv
<1>1. /\ app[c].pc = "next" /\ R!Deliver(c, it)
      /\ UNCHANGED <<query, stored, wire, replies, cursor, closed, faults, astray, reading>> /\ reading /\ panic = "none"
  BY DEF R!NextDelivers, R!ServerVars, InUse
<1>2. Typed(iter) /\ Typed(it) /\ Ring(it.docData) /\ it.docData = iter.docData /\ it.err = iter.err
      /\ it.docsToReceive = iter.docsToReceive /\ it.cursorId = iter.cursorId /\ it.limit = iter.limit
      /\ it.opLimit = iter.opLimit /\ it.docsBeforeMore = iter.docsBeforeMore
  BY DEF TypeInv, Typed
<1> HIDE DEF it
<1>4. Opened /\ ~Failing
  <2>1. Opened
    BY <1>1 DEF StageInv
  <2>2. ~Failing
    BY <2>1 DEF FailInv
  <2> QED BY <2>1, <2>2
<1>5. /\ n \in Nat /\ n > 0 /\ r \in Nat /\ PartialLen \in Nat /\ AnswerLen \in Nat /\ Base \in Nat /\ End \in Nat /\ Limit \in Nat
      /\ Base = (r + n) + PartialLen /\ End = Base + AnswerLen /\ End <= cursor.pos /\ cursor.pos <= Len(stored)
      /\ cursor.pos \in Nat /\ Len(stored) \in Nat /\ stored \in Seq(Documents)
      /\ iter.limit \in Nat /\ iter.docsBeforeMore \in Int /\ iter.docsToReceive \in Nat
  <2>1. /\ n \in Nat /\ r \in Nat /\ PartialLen \in Nat /\ AnswerLen \in Nat /\ Base \in Nat /\ End \in Nat /\ Limit \in Nat
        /\ cursor.pos \in 0..Len(stored) /\ Len(stored) \in Nat /\ iter.limit \in Nat /\ iter.docsBeforeMore \in Int
        /\ iter.docsToReceive \in Nat
    BY TypeFacts
  <2>2. Base = (r + n) + PartialLen /\ End = Base + AnswerLen
    BY DEF Base, End, Received
  <2>3. End <= cursor.pos /\ stored \in Seq(Documents)
    BY <1>4 DEF ContentInv, TypeInv
  <2> QED BY <2>1, <2>2, <2>3
<1>6. doc = stored[r + 1] /\ doc \in Documents /\ r + 1 \in 1..Len(stored)
  <2>1. doc = stored[r + 1]
    BY <1>4, <1>5, SMTT(40) DEF ContentInv
  <2> HIDE DEF doc, n, q
  <2>2. r + 1 \in 1..Len(stored)
    BY <1>5
  <2> QED BY <1>5, <2>1, <2>2
<1>7. ASSUME last
      PROVE  /\ Limited /\ Base = Limit /\ n = 1 /\ r + 1 = Limit /\ PartialLen = 0 /\ ~Pending /\ replies = <<>>
             /\ iter.docsBeforeMore < 0
  <2>1. Limited
    BY <1>7 DEF LimitInv
  <2>2. 1 = Limit - r /\ Base <= Limit /\ (Pending \/ iter.docsBeforeMore >= 0 => Base < Limit)
    BY <1>4, <1>7, <2>1 DEF LimitInv
  <2>3. Base = Limit /\ n = 1 /\ r + 1 = Limit /\ PartialLen = 0
    <3> HIDE DEF n, r
    <3> QED BY <1>5, <2>2
  <2>4. ~Pending /\ iter.docsBeforeMore < 0
    BY <1>5, <2>2, <2>3
  <2>5. replies = <<>>
    BY <2>3, <2>4, NoReplies, PartialFacts DEF Pending
  <2> QED BY <2>1, <2>3, <2>4, <2>5
<1>3. DeliversDoc(c, it) /\ (Asks(it) <=> Asks(iter))
  <2>1. ~TooMany(it)
    BY <1>2, <1>7 DEF TooMany
  <2> QED BY <1>1, <1>2, <2>1, DeliverFacts DEF Asks
<1>8. /\ Popped(iter', it)
      /\ iter'.err = (IF last THEN "notFound" ELSE iter.err)
      /\ iter'.docsBeforeMore = (IF Asks(iter) THEN iter.docsBeforeMore - 1 ELSE iter.docsBeforeMore)
      /\ iter'.docsToReceive = (IF fetch THEN iter.docsToReceive + 1 ELSE iter.docsToReceive)
      /\ returned' = Append(returned, doc)
      /\ panic' = panic
      /\ IF last THEN R!Go(c, "limitClose")
         ELSE IF fetch THEN R!Go(c, "prefetch")
         ELSE R!ReturnTrue(c)
      /\ UNCHANGED ended
  BY <1>2, <1>3 DEF DeliversDoc
<1>9. /\ Typed(iter') /\ iter'.cursorId = iter.cursorId /\ iter'.opLimit = iter.opLimit
      /\ iter'.limit = (IF iter.limit > 0 THEN iter.limit - 1 ELSE 0)
      /\ Ring(iter'.docData) /\ iter'.docData.nelems = n - 1
      /\ \A i \in 1..(n - 1) : Item(iter'.docData, i) = Item(q, i + 1)
  <2>1. /\ Typed(iter') /\ iter'.cursorId = iter.cursorId /\ iter'.opLimit = iter.opLimit
        /\ iter'.limit = (IF iter.limit > 0 THEN iter.limit - 1 ELSE 0) /\ iter'.docData = R!Pop(q)
    BY <1>2, <1>8 DEF Popped
  <2>2. Ring(q)
    BY DEF TypeInv
  <2> HIDE DEF q
  <2> QED BY <2>1, <2>2, <1>5, PopFacts
<1>10. PICK pc \in {"limitClose", "prefetch", "close", "next"} :
         Moved(c, pc) /\ (last <=> pc = "limitClose") /\ (~last /\ fetch <=> pc = "prefetch")
  <2>1. CASE last
    BY <1>8, <2>1, GoMoves DEF R!Pcs
  <2>2. CASE ~last /\ fetch
    BY <1>8, <2>2, GoMoves DEF R!Pcs
  <2>3. CASE ~last /\ ~fetch
    BY <1>8, <2>3, ReturnMoves
  <2> QED BY <2>1, <2>2, <2>3
<1>11. fetch => ~last
  BY DEF Asks
<1>12. fetch => ~Pending /\ iter.err = "nil" /\ iter.cursorId = 1
  BY <1>5, TypeFacts, SMTT(40) DEF FetchInv, Asks
<1>13. TypeInv'
  <2>1. app' \in [Callers -> [pc : R!Pcs, left : Nat]]
    BY <1>10 DEF Moved
  <2>2. returned' \in Seq(Documents)
    BY <1>6, <1>8 DEF TypeInv
  <2> QED BY <1>1, <1>8, <1>9, <2>1, <2>2 DEF TypeInv, Typed
<1>14. Opened' /\ Fetchers' = IF fetch THEN {c} ELSE Fetchers
  <2>1. c \notin Fetchers /\ pc \in R!Pcs \ {"start"} /\ app[c].pc # "start"
    BY <1>1, <1>10 DEF Fetchers, R!Pcs
  <2>2. Opened' /\ Fetchers' = IF pc \in {"getMore", "prefetch"} THEN Fetchers \cup {c} ELSE Fetchers \ {c}
    BY <1>10, <2>1, MovedFacts
  <2>3. fetch => Fetchers = {}
    BY <1>12 DEF Pending
  <2>4. pc \in {"getMore", "prefetch"} <=> fetch
    BY <1>10, <1>11
  <2> HIDE DEF fetch
  <2> QED BY <2>1, <2>2, <2>3, <2>4
<1>15. /\ (HeadPartial' <=> HeadPartial) /\ (Answered' <=> Answered) /\ PartialLen' = PartialLen /\ AnswerLen' = AnswerLen
       /\ Limit' = Limit /\ (Limited' <=> Limited) /\ (Failing' <=> Failing) /\ (R!Overasked' <=> R!Overasked) /\ Requests' = Requests
  BY <1>1, SameReplies, SameQuery, SameWire
<1>16. /\ Len(returned') = r + 1
       /\ \A i \in 1..r : returned'[i] = returned[i]
       /\ returned'[r + 1] = doc
  <2>1. returned \in Seq(Documents)
    BY DEF TypeInv
  <2> HIDE DEF doc
  <2> QED BY <1>6, <1>8, <2>1
<1>17. Received' = Received /\ Base' = Base /\ End' = End /\ (Pending' <=> Pending \/ fetch)
  <2>1. Received' = Received
    <3>1. Received' = (r + 1) + (n - 1) /\ Received = r + n
      BY <1>9, <1>16 DEF Received
    <3> HIDE DEF n, r
    <3> QED BY <1>5, <3>1
  <2>2. Base' = Base /\ End' = End
    BY <1>15, <2>1 DEF Base, End
  <2>3. Pending' <=> Pending \/ fetch
    BY <1>14, <1>15 DEF Pending
  <2> QED BY <2>1, <2>2, <2>3
<1>18. /\ \A d \in Callers : d # c => app'[d] = app[d]
       /\ app'[c].pc = pc /\ (KillPending' <=> KillPending)
  BY <1>1, <1>10 DEF Moved, KillPending
<1>19. ~Waiting
  BY <1>5 DEF Waiting
<1>20. /\ HeadPartial <=> PartialLen > 0
       /\ ~HeadPartial /\ ~Answered => replies = <<>>
  BY NoReplies, PartialFacts
<1>21. Asks(iter) <=> iter.cursorId # 0 /\ iter.err = "nil" /\ ~last
  BY DEF Asks
<1> HIDE DEF n, r, q, last
<1>22. StageInv'
  BY <1>1, <1>14, StageAfter
<1>23. ReplyInv' /\ OneRequest'
  BY <1>1, <1>12, <1>14, <1>15 DEF ReplyInv, OneRequest, Pending
<1>24. QueryInv'
  BY <1>1, <1>19 DEF QueryInv
<1>25. CountInv'
  <2>1. iter.docsToReceive >= (IF Pending THEN 1 ELSE 0) + PartialLen
        /\ (iter.err = "nil" \/ Pending => iter.docsToReceive = (IF Pending THEN 1 ELSE 0) + PartialLen)
    BY DEF CountInv
  <2>2. CASE fetch
    <3>1. iter'.docsToReceive = PartialLen + 1 /\ Pending'
      BY <1>5, <1>8, <1>12, <1>17, <2>1, <2>2
    <3> QED BY <1>5, <1>15, <3>1 DEF CountInv
  <2>3. CASE ~fetch
    <3>1. iter'.docsToReceive = iter.docsToReceive /\ (Pending' <=> Pending) /\ (iter'.err = "nil" => iter.err = "nil")
      BY <1>8, <1>17, <2>3
    <3> QED BY <1>5, <1>15, <2>1, <3>1 DEF CountInv
  <2> QED BY <2>2, <2>3
<1>26. FetchInv'
  <2>1. /\ Pending /\ iter.docsBeforeMore >= 0 => FALSE
        /\ query.prefetch = 0 /\ HeadPartial =>
             /\ ~Pending
             /\ iter.docsBeforeMore >= 0 => iter.docsBeforeMore >= n + PartialLen
        /\ \A d \in Callers : app[d].pc # "getMore"
    BY <1>5 DEF FetchInv, n, q
  <2>2. Pending' => ~(iter'.docsBeforeMore >= 0)
    <3>1. CASE fetch
      <4>1. iter'.docsBeforeMore = -1
        BY <1>8, <3>1
      <4> QED BY <4>1
    <3>2. CASE ~fetch
      BY <1>5, <1>8, <1>17, <2>1, <3>2
    <3> QED BY <3>1, <3>2
  <2>3. ASSUME query.prefetch = 0, HeadPartial
        PROVE  ~Pending' /\ (iter'.docsBeforeMore >= 0 => iter'.docsBeforeMore >= (n - 1) + PartialLen)
    <3>1. ~fetch
      BY <1>5, <1>12, <2>1, <2>3
    <3>2. ~Pending'
      BY <1>17, <2>1, <2>3, <3>1
    <3>3. iter'.docsBeforeMore >= 0 => iter'.docsBeforeMore >= (n - 1) + PartialLen
      BY <1>5, <1>8, <2>1, <2>3
    <3> QED BY <3>2, <3>3
  <2>4. \A d \in Callers : app'[d].pc # "getMore"
    BY <1>10, <1>18, <2>1
  <2> QED BY <1>1, <1>9, <1>15, <2>2, <2>3, <2>4 DEF FetchInv
<1>27. ErrInv'
  <2>1. ended # "exhausted"
    BY <1>5 DEF ErrInv, n, q
  <2>2. \A d \in Callers : app'[d].pc \in {"limitClose", "limitKill"} => iter'.err # "nil"
    BY <1>8, <1>10, <1>18 DEF ErrInv
  <2>3. \A d \in Callers : app'[d].pc = "kill" => closed' \/ iter'.err # "nil"
    BY <1>1, <1>8, <1>10, <1>18 DEF ErrInv
  <2>4. iter'.err # "nil" /\ ~closed' => ~Pending'
    BY <1>1, <1>7, <1>8, <1>11, <1>12, <1>17 DEF ErrInv
  <2>5. iter'.err = "notFound" => ~Pending' /\ replies' = <<>>
    BY <1>1, <1>7, <1>8, <1>11, <1>12, <1>17 DEF ErrInv
  <2> QED BY <1>8, <2>1, <2>2, <2>3, <2>4, <2>5 DEF ErrInv
<1>28. ContentInv'
  <2>1. /\ End <= cursor.pos
        /\ Pending \/ iter.err = "nil" \/ replies # <<>> => cursor.pos = End
        /\ \A i \in 1..r : returned[i] = stored[i]
        /\ \A i \in 1..n : Item(q, i) = stored[r + i]
        /\ HeadPartial => \A i \in DOMAIN replies[1].docs : replies[1].docs[i] = stored[Received + i]
        /\ Answered => LET x == replies[Len(replies)] IN \A i \in DOMAIN x.docs : x.docs[i] = stored[Base + i]
    BY <1>4 DEF ContentInv, n, q, r
  <2>2. \A i \in 1..(r + 1) : returned'[i] = stored[i]
    <3> SUFFICES ASSUME NEW i \in 1..(r + 1) PROVE returned'[i] = stored[i]
      OBVIOUS
    <3>1. CASE i = r + 1
      BY <1>6, <1>16, <3>1
    <3>2. CASE i # r + 1
      <4>1. i \in 1..r
        BY <1>5, <3>2
      <4> QED BY <1>16, <2>1, <4>1
    <3> QED BY <3>1, <3>2
  <2>3. \A i \in 1..(n - 1) : Item(iter'.docData, i) = stored[(r + 1) + i]
    <3>1. ASSUME NEW i \in 1..(n - 1) PROVE Item(iter'.docData, i) = stored[(r + 1) + i]
      <4>1. i + 1 \in 1..n /\ r + (i + 1) = (r + 1) + i
        BY <1>5
      <4> DEFINE k == i + 1
      <4> HIDE DEF k
      <4>2. Item(q, k) = stored[r + k]
        BY <2>1, <4>1 DEF k
      <4> QED BY <1>9, <4>1, <4>2 DEF k
    <3> QED BY <3>1
  <2>4. Pending' \/ iter'.err = "nil" \/ replies' # <<>> => cursor.pos = End
    BY <1>1, <1>7, <1>8, <1>12, <1>17, <2>1
  <2>5. HeadPartial' => \A i \in DOMAIN replies'[1].docs : replies'[1].docs[i] = stored'[Received' + i]
    BY <1>1, <1>15, <1>17, <2>1
  <2>6. Answered' => \A i \in DOMAIN replies'[Len(replies')].docs : replies'[Len(replies')].docs[i] = stored'[Base' + i]
    BY <1>1, <1>15, <1>17, <2>1
  <2> QED BY <1>1, <1>9, <1>16, <1>17, <2>1, <2>2, <2>3, <2>4, <2>5, <2>6 DEF ContentInv
<1>29. LimitInv'
  <2>1. CASE ~Limited
    <3>1. iter.limit = 0
      BY <2>1 DEF LimitInv
    <3> QED BY <1>9, <1>15, <2>1, <3>1 DEF LimitInv
  <2>2. CASE Limited
    <3>1. /\ iter.limit = Limit - r /\ Base <= Limit
          /\ Pending \/ iter.docsBeforeMore >= 0 => Base < Limit
          /\ \A i \in Requests : wire[i].limit # 0
          /\ \A i \in Requests : wire[i].op = "getMore" \/ ~R!Overasked => Base + R!LimitOf(wire[i].limit) <= Limit
          /\ End <= Limit
          /\ iter.err # "nil" /\ ~closed => iter.limit = 0 \/ Base < Limit
          /\ iter.err = "nil" => iter.limit > 0
          /\ iter.opLimit # 0
          /\ iter.opLimit < 0 =>
              /\ iter.cursorId = 0 /\ Fetchers = {} /\ cursor.state # "open"
              /\ \A i \in DOMAIN replies : replies[i].cursorId = 0
              /\ \A i \in DOMAIN wire : wire[i].op # "getMore"
      BY <1>4, <2>2 DEF LimitInv, r
    <3>2. iter.limit > 0 /\ iter'.limit = Limit - (r + 1)
      BY <1>5, <1>9, <3>1
    <3>3. Pending' \/ iter'.docsBeforeMore >= 0 => Base < Limit
      <4>1. Asks(iter) /\ iter.docsBeforeMore - 1 >= 0 => iter.docsBeforeMore >= 0
        BY <1>5
      <4> QED BY <1>5, <1>8, <1>17, <3>1, <4>1
    <3>4. iter'.err # "nil" /\ ~closed' => iter'.limit = 0 \/ Base < Limit
      <4>1. CASE last
        BY <1>9, <4>1 DEF last
      <4>2. CASE ~last
        BY <1>1, <1>8, <3>1, <3>2, <4>2
      <4> QED BY <4>1, <4>2
    <3>5. iter'.err = "nil" => iter'.limit > 0
      <4>1. iter'.err = "nil" => ~last
        BY <1>8
      <4> QED BY <1>5, <3>2, <1>9, <4>1 DEF last
    <3>6. iter'.opLimit < 0 => Fetchers' = {}
      BY <1>9, <1>12, <1>14, <3>1
    <3>7. /\ iter'.limit = Limit' - Len(returned') /\ Base' <= Limit' /\ End' <= Limit' /\ Limited'
          /\ Pending' \/ iter'.docsBeforeMore >= 0 => Base' < Limit'
          /\ iter'.err # "nil" /\ ~closed' => iter'.limit = 0 \/ Base' < Limit'
      BY <1>15, <1>16, <1>17, <2>2, <3>1, <3>2, <3>3, <3>4
    <3>8. /\ \A i \in Requests' : wire'[i].limit # 0
          /\ \A i \in Requests' : wire'[i].op = "getMore" \/ ~R!Overasked' => Base' + R!LimitOf(wire'[i].limit) <= Limit'
      BY <1>1, <1>15, <1>17, <3>1
    <3>9. /\ iter'.opLimit # 0
          /\ iter'.opLimit < 0 =>
              /\ iter'.cursorId = 0 /\ Fetchers' = {} /\ cursor'.state # "open"
              /\ \A i \in DOMAIN replies' : replies'[i].cursorId = 0
              /\ \A i \in DOMAIN wire' : wire'[i].op # "getMore"
      BY <1>1, <1>9, <3>1, <3>6
    <3> QED BY <3>5, <3>7, <3>8, <3>9 DEF LimitInv
  <2> QED BY <2>1, <2>2
<1>30. EndInv'
  <2>1. last => Complete(Received)
    <3>1. ASSUME last PROVE Received = Limit
      BY <1>5, <1>7, <3>1, TypeFacts DEF Base, Received, r, n, q
    <3> QED BY <1>7, <3>1 DEF Complete
  <2> QED BY <1>1, <1>4, <1>8, <1>9, <1>15, <1>17, <2>1 DEF EndInv, Complete
<1>31. FailInv'
  BY <1>4, <1>15 DEF FailInv
<1>32. ReleaseInv'
  <2>1. pc # "done"
    BY <1>10
  <2> QED BY <1>1, <1>8, <1>9, <1>18, <1>19, <2>1 DEF ReleaseInv, FirstUnread
<1> QED BY <1>13, <1>22, <1>23, <1>24, <1>25, <1>26, <1>27, <1>28, <1>29, <1>30, <1>31, <1>32

(* Next returns something.                                                 *)
LEMMA NextDeliversKeeps ==
    ASSUME IterInv, InUse, NEW c \in Callers, R!NextDelivers(c)
    PROVE  IterInv'
<1>1. iter.docData.nelems \in Nat
  BY TypeFacts DEF IterInv
<1>2. iter.docData.nelems = 0 \/ iter.docData.nelems > 0
  BY <1>1
<1> QED BY <1>2, NothingKeeps, ErrorKeeps, DocumentKeeps

(* The query succeeded: a document in the ring is one of the result.       *)
LEMMA DocumentFacts ==
    ASSUME TypeInv, ContentInv, ~Failing, iter.docData.nelems > 0
    PROVE  /\ Item(iter.docData, 1) = stored[Len(returned) + 1] /\ Item(iter.docData, 1) # R!ErrorDoc
           /\ Item(iter.docData, 1) \in Documents /\ Len(returned) + 1 \in 1..Len(stored)
<1>1. /\ Len(returned) \in Nat /\ PartialLen \in Nat /\ AnswerLen \in Nat /\ Len(stored) \in Nat
      /\ cursor.pos \in 0..Len(stored) /\ iter.docData.nelems \in Nat /\ stored \in Seq(Documents)
  BY TypeFacts DEF TypeInv
<1>2. End = ((Len(returned) + iter.docData.nelems) + PartialLen) + AnswerLen /\ End <= cursor.pos
  BY DEF ContentInv, End, Base, Received
<1>3. Item(iter.docData, 1) = stored[Len(returned) + 1]
  BY <1>1 DEF ContentInv
<1> DEFINE n == iter.docData.nelems
           r == Len(returned)
           s == Len(stored)
<1> HIDE DEF n, r, s
<1>4. r + 1 \in 1..s
  <2>1. /\ r \in Nat /\ n \in Nat /\ n > 0 /\ s \in Nat /\ cursor.pos \in 0..s
        /\ End = ((r + n) + PartialLen) + AnswerLen
    BY <1>1, <1>2 DEF n, r, s
  <2> QED BY <1>1, <1>2, <2>1
<1>5. stored[r + 1] \in Documents
  BY <1>1, <1>4 DEF s
<1> QED BY <1>3, <1>4, <1>5 DEF r, s, Documents, R!ErrorDoc

-----------------------------------------------------------------------------
(* A document of a reply is read.                                          *)

(* Broadcast wakes those that wait and moves nobody else.                  *)
LEMMA BroadcastFacts ==
    ASSUME TypeInv, R!Broadcast
    PROVE  /\ app' \in [Callers -> [pc : R!Pcs, left : Nat]]
           /\ \A c \in Callers : app'[c].pc = IF app[c].pc = "wait" THEN "next" ELSE app[c].pc
           /\ (Opened' <=> Opened) /\ Fetchers' = Fetchers
<1>1. app \in [Callers -> [pc : R!Pcs, left : Nat]]
  BY DEF TypeInv
<1>2. app' = [c \in Callers |-> IF app[c].pc = "wait" THEN [app[c] EXCEPT !.pc = "next"] ELSE app[c]]
  BY DEF R!Broadcast
<1>3. \A c \in Callers : app'[c] \in [pc : R!Pcs, left : Nat] /\ app'[c].pc = IF app[c].pc = "wait" THEN "next" ELSE app[c].pc
  BY <1>1, <1>2 DEF R!Pcs
<1>4. app' \in [Callers -> [pc : R!Pcs, left : Nat]]
  BY <1>2, <1>3
<1>5. (Opened' <=> Opened) /\ Fetchers' = Fetchers
  BY <1>3 DEF Opened, Fetchers
<1> QED BY <1>3, <1>4, <1>5

(* The tail of one or two replies.                                         *)
LEMMA TailFacts ==
    ASSUME NEW S, NEW s \in Seq(S), NEW y \in S
    PROVE  /\ Len(s) = 1 => Tail(s) = <<>> /\ <<y>> \o Tail(s) = <<y>>
           /\ Len(s) = 2 => /\ s[2] \in S /\ Tail(s) = <<s[2]>> /\ <<y>> \o Tail(s) = <<y, s[2]>>
<1>1. Len(s) = 1 => Tail(s) = <<>>
  <2> SUFFICES ASSUME Len(s) = 1 PROVE Tail(s) = <<>>
    OBVIOUS
  <2>1. Tail(s) \in Seq(S) /\ Len(Tail(s)) = 0
    OBVIOUS
  <2> DEFINE t == Tail(s)
  <2> HIDE DEF t
  <2>2. t \in Seq(S) /\ Len(t) = 0 => t = <<>>
    BY EmptySeq
  <2> QED BY <2>1, <2>2 DEF t
<1>2. Len(s) = 2 => s[2] \in S /\ Tail(s) = <<s[2]>>
  <2> SUFFICES ASSUME Len(s) = 2 PROVE s[2] \in S /\ Tail(s) = <<s[2]>>
    OBVIOUS
  <2>1. s[2] \in S /\ Tail(s) \in Seq(S) /\ Len(Tail(s)) = 1 /\ Tail(s)[1] = s[2]
    OBVIOUS
  <2> DEFINE t == Tail(s)
  <2> HIDE DEF t
  <2>2. t \in Seq(S) /\ Len(t) = 1 => t = <<t[1]>>
    OBVIOUS
  <2> QED BY <2>1, <2>2 DEF t
<1>3. <<y>> \o <<>> = <<y>>
  BY ConcatEmptySeq
<1>4. \A z \in S : <<y>> \o <<z>> = <<y, z>>
  <2> SUFFICES ASSUME NEW z \in S PROVE <<y>> \o <<z>> = <<y, z>>
    OBVIOUS
  <2> DEFINE t == <<y>> \o <<z>>
  <2>1. <<y>> \in Seq(S) /\ <<z>> \in Seq(S)
    OBVIOUS
  <2>2. t \in Seq(S) /\ Len(t) = 2 /\ t[1] = y /\ t[2] = z
    BY <2>1
  <2> HIDE DEF t
  <2>3. t = <<t[1], t[2]>>
    BY <2>2
  <2> QED BY <2>2, <2>3 DEF t
<1> QED BY <1>1, <1>2, <1>3, <1>4

(* What remains of the replies once a document was taken from the first.   *)
LEMMA DocumentTaken ==
    ASSUME TypeInv, ReplyInv, Taken
    PROVE  LET x == replies[1]
               L == Len(x.docs)
           IN  /\ x = Head(replies) /\ x \in Replies /\ L \in Nat /\ L > 0
               /\ replies' \in Seq(Replies) /\ ReplyInv'
               /\ (HeadPartial' <=> L > 1) /\ PartialLen' = L - 1
               /\ HeadPartial' => Len(replies'[1].docs) = L - 1 /\ \A i \in 1..(L - 1) : replies'[1].docs[i] = x.docs[i + 1]
               /\ \A i \in DOMAIN replies' :
                    /\ \E j \in DOMAIN replies : replies'[i].cursorId = replies[j].cursorId
                    /\ Whole(replies'[i]) => i = Len(replies') /\ Len(replies) = 2 /\ replies'[i] = replies[2] /\ Answered
               /\ Whole(x) => /\ Len(replies) = 1 /\ Answered /\ ~HeadPartial /\ AnswerLen = L /\ PartialLen = 0
                              /\ ~Answered' /\ AnswerLen' = 0 /\ replies[Len(replies)] = x
               /\ ~Whole(x) => /\ HeadPartial /\ PartialLen = L /\ (Answered' <=> Answered) /\ AnswerLen' = AnswerLen
                               /\ Answered => replies'[Len(replies')] = replies[Len(replies)]
<1> DEFINE x == replies[1]
           m == Len(replies)
           L == Len(x.docs)
           y == [x EXCEPT !.docs = Tail(@)]
<1>1. /\ replies \in Seq(Replies) /\ m \in {1, 2} /\ x = Head(replies) /\ x \in Replies /\ replies # <<>>
      /\ x.docs \in Seq(Int) /\ L \in Nat /\ L > 0 /\ DOMAIN replies = 1..m
  <2>1. replies \in Seq(Replies) /\ replies # <<>> /\ Head(replies).docs # <<>>
    BY DEF TypeInv, Taken
  <2>2. m \in Nat /\ m # 0 /\ m <= 2 /\ x = Head(replies) /\ x \in Replies /\ DOMAIN replies = 1..m
    BY <2>1 DEF ReplyInv
  <2>3. x.docs \in Seq(Int) /\ x.docs # <<>>
    BY <2>1, <2>2 DEF Replies
  <2> HIDE DEF m, x
  <2> QED BY <2>1, <2>2, <2>3
<1>2. /\ y \in Replies /\ y.docs \in Seq(Int) /\ Len(y.docs) = L - 1 /\ y.total = x.total /\ y.cursorId = x.cursorId
      /\ y.notFound = x.notFound /\ \A i \in 1..(L - 1) : y.docs[i] = x.docs[i + 1]
  <2>1. /\ Tail(x.docs) \in Seq(Int) /\ Len(Tail(x.docs)) = L - 1
        /\ \A i \in 1..(L - 1) : Tail(x.docs)[i] = x.docs[i + 1]
    BY <1>1
  <2>2. y.docs = Tail(x.docs) /\ y \in Replies /\ y.total = x.total /\ y.cursorId = x.cursorId /\ y.notFound = x.notFound
    BY <1>1, <2>1 DEF Replies
  <2> HIDE DEF L, y
  <2> QED BY <2>1, <2>2
<1>3. x.notFound = FALSE /\ L <= x.total /\ x.total \in Nat
  <2>1. /\ ~Whole(x) => L < x.total
        /\ x.notFound => x.docs = <<>>
    BY <1>1 DEF ReplyInv
  <2>2. x.total \in Nat /\ x.notFound \in BOOLEAN /\ (Whole(x) <=> L = x.total)
    BY <1>1 DEF Replies, Whole
  <2> QED BY <1>1, <2>1, <2>2
<1>4. replies' = IF L = 1 THEN Tail(replies) ELSE <<y>> \o Tail(replies)
  BY <1>1 DEF Taken
<1> HIDE DEF x, L, y, m
<1>5. L # 1 => ~Whole(y) /\ 0 < Len(y.docs) /\ Len(y.docs) < y.total
  BY <1>1, <1>2, <1>3 DEF Whole
<1>6. m = 2 => ~Whole(x) /\ Whole(replies[2]) /\ replies[2] \in Replies /\ (replies[2].notFound => replies[2].docs = <<>> /\ replies[2].cursorId = 0)
  <2> SUFFICES ASSUME m = 2 PROVE ~Whole(x) /\ Whole(replies[2]) /\ replies[2] \in Replies /\ (replies[2].notFound => replies[2].docs = <<>> /\ replies[2].cursorId = 0)
    OBVIOUS
  <2>1. 2 \in DOMAIN replies /\ replies[2] \in Replies /\ Len(replies) = 2
    <3>1. Len(replies) = 2 /\ replies \in Seq(Replies)
      BY <1>1 DEF m
    <3>2. replies[2] \in Replies
      BY <1>1, <3>1, TailFacts
    <3>3. 2 \in DOMAIN replies
      BY <1>1
    <3> QED BY <3>1, <3>2, <3>3
  <2> QED BY <2>1 DEF ReplyInv, x
<1>7. CASE m = 1
  <2>1. replies # <<>> /\ replies[1] = x /\ replies[Len(replies)] = x
    BY <1>1, <1>7 DEF m, x
  <2>2. replies' = IF L = 1 THEN <<>> ELSE <<y>>
    BY <1>1, <1>2, <1>4, <1>7, TailFacts DEF m
  <2>3. (Whole(x) <=> Answered) /\ (HeadPartial <=> ~Whole(x))
    BY <2>1 DEF Answered, HeadPartial
  <2>4. /\ PartialLen = IF Whole(x) THEN 0 ELSE L
        /\ AnswerLen = IF Whole(x) THEN L ELSE 0
    BY <2>1, <2>3 DEF PartialLen, AnswerLen, L
  <2>5. CASE L = 1
    <3>1. replies' = <<>>
      BY <2>2, <2>5
    <3>2. ~HeadPartial' /\ ~Answered' /\ PartialLen' = 0 /\ AnswerLen' = 0 /\ ReplyInv' /\ replies' \in Seq(Replies) /\ DOMAIN replies' = {}
      BY <3>1 DEF ReplyInv, HeadPartial, Answered, PartialLen, AnswerLen
    <3>3. L - 1 = 0 /\ ~(L > 1)
      BY <2>5
    <3> QED BY <1>1, <1>7, <2>1, <2>3, <2>4, <3>2, <3>3 DEF x, L, m
  <2>6. CASE L # 1
    <3>1. replies' = <<y>> /\ L > 1
      BY <1>1, <2>2, <2>6
    <3>2. /\ replies'[1] = y /\ Len(replies') = 1 /\ replies' # <<>> /\ DOMAIN replies' = {1} /\ replies' \in Seq(Replies)
      BY <1>2, <3>1
    <3>3. HeadPartial' /\ ~Answered' /\ PartialLen' = L - 1 /\ AnswerLen' = 0
      <4>1. HeadPartial' /\ ~Answered'
        BY <1>5, <2>6, <3>2 DEF HeadPartial, Answered, Whole
      <4> QED BY <1>2, <3>2, <4>1 DEF PartialLen, AnswerLen
    <3>4. ReplyInv'
      BY <1>2, <1>3, <1>5, <2>6, <3>2 DEF ReplyInv, Whole
    <3>5. ~Whole(replies'[1])
      BY <1>5, <2>6, <3>2
    <3> QED BY <1>1, <1>2, <1>7, <2>1, <2>3, <2>4, <3>1, <3>2, <3>3, <3>4, <3>5 DEF x, L, m
  <2> QED BY <2>5, <2>6
<1>8. CASE m = 2
  <2> DEFINE z == replies[2]
  <2>1. z \in Replies /\ (z.notFound => z.docs = <<>> /\ z.cursorId = 0) /\ ~Whole(x) /\ Whole(z)
        /\ replies # <<>> /\ replies[1] = x /\ replies[Len(replies)] = z
    BY <1>1, <1>6, <1>8 DEF m, x
  <2>2. replies' = IF L = 1 THEN <<z>> ELSE <<y, z>>
    BY <1>1, <1>2, <1>4, <1>8, TailFacts DEF m
  <2>3. Answered /\ HeadPartial
    BY <2>1 DEF Answered, HeadPartial
  <2>4. PartialLen = L
    BY <2>1, <2>3 DEF PartialLen, L
  <2>7. z = replies[2]
    OBVIOUS
  <2> HIDE DEF z
  <2>5. CASE L = 1
    <3>1. replies' = <<z>>
      BY <2>2, <2>5
    <3>2. replies'[1] = z /\ Len(replies') = 1 /\ replies' # <<>> /\ DOMAIN replies' = {1} /\ replies' \in Seq(Replies)
      BY <2>1, <3>1
    <3>3. ~HeadPartial' /\ Answered' /\ PartialLen' = 0 /\ AnswerLen' = AnswerLen
      <4>1. ~HeadPartial' /\ Answered'
        BY <2>1, <3>2 DEF HeadPartial, Answered, Whole
      <4> QED BY <2>1, <2>3, <3>2, <4>1 DEF PartialLen, AnswerLen
    <3>4. ReplyInv'
      BY <2>1, <3>2 DEF ReplyInv, Whole
    <3>5. L - 1 = 0 /\ ~(L > 1)
      BY <2>5
    <3> QED BY <1>1, <1>8, <2>1, <2>3, <2>4, <2>7, <3>2, <3>3, <3>4, <3>5 DEF x, L, m
  <2>6. CASE L # 1
    <3>1. replies' = <<y, z>> /\ L > 1
      BY <1>1, <2>2, <2>6
    <3>2. /\ replies'[1] = y /\ replies'[2] = z /\ Len(replies') = 2 /\ replies' # <<>> /\ DOMAIN replies' = {1, 2}
          /\ replies' \in Seq(Replies)
      BY <1>2, <2>1, <3>1
    <3>3. HeadPartial' /\ Answered' /\ PartialLen' = L - 1 /\ AnswerLen' = AnswerLen
      <4>1. HeadPartial' /\ Answered'
        BY <1>5, <2>1, <2>6, <3>2 DEF HeadPartial, Answered, Whole
      <4> QED BY <1>2, <2>1, <2>3, <3>2, <4>1 DEF PartialLen, AnswerLen
    <3>4. ReplyInv'
      BY <1>2, <1>3, <1>5, <2>1, <2>6, <3>2 DEF ReplyInv, Whole
    <3>5. ~Whole(replies'[1])
      BY <1>5, <2>6, <3>2
    <3> QED BY <1>1, <1>2, <1>8, <2>1, <2>3, <2>4, <2>7, <3>1, <3>2, <3>3, <3>4, <3>5 DEF x, L, m
  <2> QED BY <2>5, <2>6
<1> QED BY <1>1, <1>7, <1>8

(* replyFunc takes a document: counts and positions move together.         *)
LEMMA replyDocumentKeeps ==
    ASSUME IterInv, InUse, R!replyDocument
    PROVE  IterInv'
<1> DEFINE q == iter.docData
           n == q.nelems
           r == Len(returned)
           x == replies[1]
           L == Len(x.docs)
           first == Whole(x)
           process == n + L
           before == IF ~first THEN iter.docsBeforeMore
                     ELSE IF iter.limit = 0 \/ process < iter.limit THEN process - (query.prefetch * L) \div 4 ELSE -1
           asked == IF first THEN iter.docsToReceive - 1 + L - 1 ELSE iter.docsToReceive - 1
           id == IF first THEN x.cursorId ELSE iter.cursorId
           doc == x.docs[1]
<1> USE DEF IterInv
<1>1. /\ Taken /\ R!Broadcast
      /\ UNCHANGED <<query, stored, wire, cursor, returned, closed, ended, faults, panic, astray, reading>> /\ reading
  BY DEF R!replyDocument, Taken, InUse
<1>2. /\ x = Head(replies) /\ x \in Replies /\ L \in Nat /\ L > 0
      /\ replies' \in Seq(Replies) /\ ReplyInv'
      /\ (HeadPartial' <=> L > 1) /\ PartialLen' = L - 1
      /\ HeadPartial' => Len(replies'[1].docs) = L - 1 /\ \A i \in 1..(L - 1) : replies'[1].docs[i] = x.docs[i + 1]
      /\ \A i \in DOMAIN replies' :
           /\ \E j \in DOMAIN replies : replies'[i].cursorId = replies[j].cursorId
           /\ Whole(replies'[i]) => i = Len(replies') /\ Len(replies) = 2 /\ replies'[i] = replies[2] /\ Answered
      /\ first => /\ Len(replies) = 1 /\ Answered /\ ~HeadPartial /\ AnswerLen = L /\ PartialLen = 0
                  /\ ~Answered' /\ AnswerLen' = 0 /\ replies[Len(replies)] = x
      /\ ~first => /\ HeadPartial /\ PartialLen = L /\ (Answered' <=> Answered) /\ AnswerLen' = AnswerLen
                   /\ Answered => replies'[Len(replies')] = replies[Len(replies)]
  BY <1>1, DocumentTaken
<1>3. Typed(iter) /\ Ring(q) /\ x.docs \in Seq(Int) /\ doc \in Int /\ x.cursorId \in 0..1 /\ replies # <<>>
  <2>1. x.docs \in Seq(Int) /\ x.cursorId \in 0..1
    BY <1>2 DEF Replies
  <2>2. doc \in Int
    BY <1>2, <2>1
  <2> QED BY <1>1, <2>1, <2>2 DEF TypeInv, Typed, Taken
<1>4. iter' = [iter EXCEPT !.docsToReceive = asked, !.docsBeforeMore = before, !.cursorId = id, !.docData = R!Push(q, doc)]
  <2> DEFINE reply == Head(replies)
             f == Len(reply.docs) = reply.total
             p == iter.docData.nelems + reply.total
  <2>1. iter' = [iter EXCEPT
                 !.docsToReceive = IF f THEN iter.docsToReceive - 1 + reply.total - 1 ELSE iter.docsToReceive - 1,
                 !.docsBeforeMore = IF ~f THEN @
                                    ELSE IF iter.limit = 0 \/ p < iter.limit
                                    THEN p - (query.prefetch * reply.total) \div 4
                                    ELSE -1,
                 !.cursorId = IF f THEN reply.cursorId ELSE @,
                 !.docData = R!Push(@, Head(reply.docs))]
    BY DEF R!replyDocument
  <2>2. reply = x /\ (f <=> first) /\ (f => reply.total = L) /\ Head(reply.docs) = doc
    BY <1>2, <1>3 DEF Whole
  <2> HIDE DEF x, L, first, reply, f, doc
  <2>3. CASE f
    BY <2>1, <2>2, <2>3
  <2>4. CASE ~f
    BY <2>1, <2>2, <2>4
  <2> QED BY <2>3, <2>4
<1>5. /\ n \in Nat /\ r \in Nat /\ PartialLen \in Nat /\ AnswerLen \in Nat /\ Base \in Nat /\ End \in Nat /\ Limit \in Nat
      /\ Received = r + n /\ Base = Received + PartialLen /\ End = Base + AnswerLen /\ Received \in Nat
      /\ iter.limit \in Nat /\ iter.docsBeforeMore \in Int /\ iter.docsToReceive \in Nat /\ query.prefetch \in 0..4
  BY TypeFacts DEF Base, Received, End
<1>29. /\ L \in Nat /\ L > 0 /\ PartialLen' = L - 1
       /\ first => AnswerLen = L /\ PartialLen = 0 /\ AnswerLen' = 0
       /\ ~first => PartialLen = L /\ AnswerLen' = AnswerLen
  <2> HIDE DEF L, first
  <2> QED BY <1>2
<1>6. first => /\ Pending /\ Fetchers = {} /\ Requests = {} /\ iter.docsToReceive = 1 /\ asked = L - 1
               /\ iter.err = "nil" \/ closed
  <2>1. first => Pending /\ Fetchers = {} /\ Requests = {}
    BY <1>2 DEF OneRequest, Pending
  <2>2. first => iter.docsToReceive = 1
    BY <1>2, <2>1 DEF CountInv
  <2>3. first => iter.err = "nil" \/ closed
    BY <2>1 DEF ErrInv
  <2> HIDE DEF first, L
  <2> QED BY <1>2, <2>1, <2>2, <2>3
<1>7. Opened /\ Opened' /\ Fetchers' = Fetchers
  BY <1>1, <1>3, BroadcastFacts DEF StageInv
<1>8. Requests' = Requests /\ Limit' = Limit /\ (Limited' <=> Limited) /\ (Failing' <=> Failing) /\ (R!Overasked' <=> R!Overasked)
  BY <1>1, SameQuery, SameWire
<1>9. Pending' <=> (~first /\ Pending)
  BY <1>2, <1>6, <1>7, <1>8 DEF Pending
<1>10. asked \in Nat /\ before \in Int /\ id \in 0..1
  <2>1. asked \in Nat
    <3>1. ~first => iter.docsToReceive >= L
      <4>1. iter.docsToReceive >= (IF Pending THEN 1 ELSE 0) + PartialLen
        BY DEF CountInv
      <4> HIDE DEF L, first
      <4> QED BY <1>5, <1>29, <4>1
    <3> HIDE DEF L, first
    <3>2. CASE first
      BY <1>29, <1>6, <3>2
    <3>3. CASE ~first
      <4> DEFINE d == iter.docsToReceive
      <4>1. d \in Nat /\ d >= L /\ L \in Nat /\ L > 0
        BY <1>5, <1>29, <3>1, <3>3
      <4> HIDE DEF d
      <4>2. d - 1 \in Nat
        BY <4>1
      <4> QED BY <3>3, <4>2 DEF d
    <3> QED BY <3>2, <3>3
  <2>2. before \in Int
    <3> DEFINE m == query.prefetch * L
    <3>1. m \in Nat
      <4> HIDE DEF L, first
      <4> QED BY <1>5, <1>29, Z3T(40)
    <3> HIDE DEF m, L, first, n
    <3>2. m \div 4 \in Int
      BY <3>1
    <3>3. process - (m \div 4) \in Int
      BY <1>2, <1>5, <3>2
    <3> QED BY <1>5, <3>3 DEF m
  <2> QED BY <1>3, <2>1, <2>2 DEF Typed
<1>11. /\ Ring(R!Push(q, doc)) /\ R!Push(q, doc).nelems = n + 1 /\ Item(R!Push(q, doc), n + 1) = doc
       /\ \A i \in 1..n : Item(R!Push(q, doc), i) = Item(q, i)
  BY <1>3, PushFacts
<1> HIDE DEF asked, before, id
<1>12. /\ Typed(iter') /\ iter'.err = iter.err /\ iter'.docsToReceive = asked /\ iter'.docsBeforeMore = before
       /\ iter'.limit = iter.limit /\ iter'.opLimit = iter.opLimit /\ iter'.cursorId = id
       /\ Ring(iter'.docData) /\ iter'.docData.nelems = n + 1 /\ Item(iter'.docData, n + 1) = doc
       /\ \A i \in 1..n : Item(iter'.docData, i) = Item(q, i)
  <2> HIDE DEF q, n, doc
  <2>1. /\ Typed(iter') /\ iter'.err = iter.err /\ iter'.docsToReceive = asked /\ iter'.docsBeforeMore = before
       /\ iter'.limit = iter.limit /\ iter'.opLimit = iter.opLimit /\ iter'.cursorId = id /\ iter'.docData = R!Push(q, doc)
    BY <1>3, <1>4, <1>10 DEF Typed
  <2> QED BY <1>11, <2>1
<1>13. /\ app' \in [Callers -> [pc : R!Pcs, left : Nat]]
       /\ \A c \in Callers : app'[c].pc = IF app[c].pc = "wait" THEN "next" ELSE app[c].pc
  BY <1>1, BroadcastFacts
<1>14. TypeInv'
  BY <1>1, <1>2, <1>12, <1>13 DEF TypeInv, Typed
<1>15. Received' = Received + 1 /\ Base' = (IF first THEN End ELSE Base) /\ End' = End
       /\ (first => Base' = Received + L /\ Base = Received)
  <2>1. Received' = Received + 1
    <3>1. Received' = r + (n + 1)
      BY <1>1, <1>12 DEF Received
    <3> HIDE DEF n, r
    <3> QED BY <1>5, <3>1
  <2>2. Base' = Received' + PartialLen' /\ End' = Base' + AnswerLen'
    BY DEF Base, End
  <2> HIDE DEF L, first, n, r
  <2>5. Received \in Nat /\ Base \in Nat /\ PartialLen \in Nat /\ AnswerLen \in Nat /\ Base = Received + PartialLen /\ End = Base + AnswerLen
    BY <1>5
  <2>3. CASE first
    <3>1. Base' = Received + L /\ Base = Received /\ End = Received + L
      BY <1>29, <2>1, <2>2, <2>3, <2>5
    <3>2. End' = Base'
      BY <1>29, <2>2, <2>3, <2>5, <3>1
    <3> QED BY <2>1, <2>3, <3>1, <3>2
  <2>4. CASE ~first
    <3>1. Base' = Base
      BY <1>29, <2>1, <2>2, <2>4, <2>5
    <3>2. End' = End
      BY <1>29, <2>2, <2>4, <2>5, <3>1
    <3> QED BY <2>1, <2>4, <3>1, <3>2
  <2> QED BY <2>3, <2>4, <2>1
<1>16. /\ \A i \in DOMAIN wire : wire[i].op # "query"
       /\ iter.err # "notFound" /\ ended # "exhausted"
  BY <1>3 DEF QueryInv, ErrInv
<1>17. KillPending' <=> KillPending
  BY <1>1, <1>13 DEF KillPending
<1> HIDE DEF n, r, q, first, L, doc
<1>30. \A d \in Callers : app'[d].pc # "getMore"
  <2>1. \A d \in Callers : app[d].pc # "getMore"
    <3> SUFFICES ASSUME NEW d \in Callers, app[d].pc = "getMore" PROVE FALSE
      OBVIOUS
    <3>1. ~HeadPartial /\ Fetchers # {}
      BY DEF FetchInv, Fetchers
    <3>2. ~Answered
      BY <3>1 DEF OneRequest
    <3> QED BY <1>3, <3>1, <3>2, NoReplies
  <2> QED BY <1>13, <2>1
<1>18. StageInv'
  BY <1>1, <1>7, StageAfter
<1>19. OneRequest'
  BY <1>1, <1>2, <1>6, <1>7, <1>8 DEF OneRequest
<1>20. QueryInv'
  BY <1>1, <1>16 DEF QueryInv
<1>21. CountInv'
  <2>1. CASE first
    BY <1>2, <1>6, <1>9, <1>12, <2>1 DEF CountInv
  <2>2. CASE ~first
    <3>1. iter.docsToReceive >= (IF Pending THEN 1 ELSE 0) + L
          /\ (iter.err = "nil" \/ Pending => iter.docsToReceive = (IF Pending THEN 1 ELSE 0) + L)
      BY <1>2, <2>2 DEF CountInv
    <3>2. iter'.docsToReceive = iter.docsToReceive - 1 /\ PartialLen' = L - 1 /\ (Pending' <=> Pending) /\ iter'.err = iter.err
      BY <1>2, <1>9, <1>12, <2>2 DEF asked
    <3> QED BY <1>2, <1>5, <3>1, <3>2 DEF CountInv
  <2> QED BY <2>1, <2>2
<1>22. FetchInv'
  <2>1. Pending' => ~(iter'.docsBeforeMore >= 0)
    <3>1. CASE first
      BY <1>9, <3>1
    <3>2. CASE ~first
      <4>1. Pending /\ iter.docsBeforeMore >= 0 => FALSE
        BY <1>2, <3>2 DEF FetchInv
      <4>2. iter'.docsBeforeMore = iter.docsBeforeMore
        BY <1>12, <3>2 DEF before
      <4> QED BY <1>9, <4>1, <4>2
    <3> QED BY <3>1, <3>2
  <2>2. ASSUME query.prefetch = 0
        PROVE  ~Pending' /\ (iter'.docsBeforeMore >= 0 => iter'.docsBeforeMore >= (n + 1) + (L - 1))
    <3>1. CASE first
      <4>1. before = n + L \/ before = -1
        <5>1. (query.prefetch * L) \div 4 = 0
          <6>1. query.prefetch * L = 0
            BY <1>2, <2>2
          <6> QED BY <6>1
        <5>2. process - (query.prefetch * L) \div 4 = n + L
          BY <1>2, <1>5, <5>1
        <5> QED BY <3>1, <5>2 DEF before
      <4> QED BY <1>2, <1>5, <1>9, <1>12, <3>1, <4>1
    <3>2. CASE ~first
      <4>1. ~Pending /\ (iter.docsBeforeMore >= 0 => iter.docsBeforeMore >= n + L)
        BY <1>2, <2>2, <3>2 DEF FetchInv, n, q
      <4>2. iter'.docsBeforeMore = iter.docsBeforeMore
        BY <1>12, <3>2 DEF before
      <4> QED BY <1>2, <1>5, <1>9, <4>1, <4>2
    <3> QED BY <3>1, <3>2
  <2>3. iter'.docData.nelems = n + 1 /\ PartialLen' = L - 1
    BY <1>2, <1>12
  <2> QED BY <1>1, <1>30, <2>1, <2>2, <2>3 DEF FetchInv
<1>23. ErrInv'
  BY <1>1, <1>9, <1>12, <1>13, <1>16 DEF ErrInv
<1>24. ContentInv'
  <2> SUFFICES ASSUME ~Failing PROVE ContentInv'
    BY <1>8 DEF ContentInv
  <2>1. /\ End <= cursor.pos /\ cursor.pos = End
        /\ \A i \in 1..r : returned[i] = stored[i]
        /\ \A i \in 1..n : Item(q, i) = stored[r + i]
        /\ HeadPartial => \A i \in DOMAIN x.docs : x.docs[i] = stored[Received + i]
        /\ Answered => \A i \in DOMAIN replies[Len(replies)].docs : replies[Len(replies)].docs[i] = stored[Base + i]
    BY <1>3 DEF ContentInv, n, q, r
  <2>2. \A i \in 1..L : x.docs[i] = stored[Received + i]
    <3>1. DOMAIN x.docs = 1..L
      BY <1>3 DEF L
    <3>2. CASE first
      BY <1>2, <1>15, <2>1, <3>1, <3>2
    <3>3. CASE ~first
      BY <1>2, <2>1, <3>1, <3>3
    <3> QED BY <3>2, <3>3
  <2>3. \A i \in 1..(n + 1) : Item(iter'.docData, i) = stored[r + i]
    <3> SUFFICES ASSUME NEW i \in 1..(n + 1) PROVE Item(iter'.docData, i) = stored[r + i]
      OBVIOUS
    <3>1. CASE i = n + 1
      <4>1. doc = stored[Received + 1]
        BY <1>2, <2>2 DEF doc
      <4>2. Received + 1 = r + (n + 1)
        BY <1>5
      <4> QED BY <1>12, <3>1, <4>1, <4>2
    <3>2. CASE i # n + 1
      <4>1. i \in 1..n
        BY <1>5, <3>2
      <4> QED BY <1>12, <2>1, <4>1
    <3> QED BY <3>1, <3>2
  <2>4. HeadPartial' => \A i \in DOMAIN replies'[1].docs : replies'[1].docs[i] = stored[Received' + i]
    <3> SUFFICES ASSUME HeadPartial', NEW i \in DOMAIN replies'[1].docs
                 PROVE  replies'[1].docs[i] = stored[Received' + i]
      OBVIOUS
    <3>1. DOMAIN replies'[1].docs = 1..(L - 1)
      <4>1. replies'[1].docs \in Seq(Int)
        <5>1. replies' # <<>>
          BY DEF HeadPartial
        <5>2. replies'[1] \in Replies
          BY <1>2, <5>1
        <5> QED BY <5>2 DEF Replies
      <4> QED BY <1>2, <4>1
    <3> DEFINE k == i + 1
    <3>2. k \in 1..L /\ Received + k = Received' + i
      <4>1. i \in 1..(L - 1) /\ L \in Nat /\ Received \in Nat /\ Received' = Received + 1
        BY <1>2, <1>5, <1>15, <3>1
      <4> QED BY <4>1
    <3>3. replies'[1].docs[i] = x.docs[k]
      BY <1>2, <3>1
    <3> HIDE DEF k
    <3> QED BY <2>2, <3>2, <3>3
  <2>5. Answered' => \A i \in DOMAIN replies'[Len(replies')].docs : replies'[Len(replies')].docs[i] = stored[Base' + i]
    <3>1. Answered' => ~first
      BY <1>2
    <3>2. ~first => Base' = Base /\ (Answered' => Answered /\ replies'[Len(replies')] = replies[Len(replies)])
      BY <1>2, <1>15
    <3> QED BY <2>1, <3>1, <3>2
  <2> QED BY <1>1, <1>12, <1>15, <2>1, <2>3, <2>4, <2>5 DEF ContentInv, r
<1>25. LimitInv'
  <2>1. CASE ~Limited
    BY <1>8, <1>12, <2>1 DEF LimitInv
  <2>2. CASE Failing
    BY <1>8, <1>12, <2>2 DEF LimitInv
  <2>3. CASE Limited /\ ~Failing
    <3>1. /\ iter.limit = Limit - r /\ Base <= Limit
          /\ Pending \/ iter.docsBeforeMore >= 0 => Base < Limit
          /\ \A i \in Requests : wire[i].limit # 0
          /\ \A i \in Requests : wire[i].op = "getMore" \/ ~R!Overasked => Base + R!LimitOf(wire[i].limit) <= Limit
          /\ End <= Limit
          /\ iter.err # "nil" /\ ~closed => iter.limit = 0 \/ Base < Limit
          /\ iter.err = "nil" => iter.limit > 0
          /\ iter.opLimit # 0
          /\ iter.opLimit < 0 =>
              /\ iter.cursorId = 0 /\ Fetchers = {} /\ cursor.state # "open"
              /\ \A i \in DOMAIN replies : replies[i].cursorId = 0
              /\ \A i \in DOMAIN wire : wire[i].op # "getMore"
      BY <1>7, <2>3 DEF LimitInv, r
    <3>2. Base' <= Limit /\ End' <= Limit
      BY <1>15, <3>1
    <3>3. Pending' \/ iter'.docsBeforeMore >= 0 => Base' < Limit
      <4>1. CASE first
        <5>1. iter.limit # 0
          BY <1>5, <1>6, <3>1, <1>15, <4>1
        <5>2. before >= 0 => n + L < iter.limit
          BY <4>1, <5>1 DEF before
        <5>3. before >= 0 => Base' < Limit
          BY <1>2, <1>5, <1>15, <3>1, <4>1, <5>2
        <5> QED BY <1>9, <1>12, <4>1, <5>3
      <4>2. CASE ~first
        <5>1. iter'.docsBeforeMore = iter.docsBeforeMore
          BY <1>12, <4>2 DEF before
        <5> QED BY <1>9, <1>15, <3>1, <4>2, <5>1
      <4> QED BY <4>1, <4>2
    <3>4. /\ \A i \in Requests' : wire'[i].limit # 0
          /\ \A i \in Requests' : wire'[i].op = "getMore" \/ ~R!Overasked' => Base' + R!LimitOf(wire'[i].limit) <= Limit
      <4>1. CASE first
        BY <1>6, <1>8, <4>1
      <4>2. CASE ~first
        BY <1>1, <1>8, <1>15, <3>1, <4>2
      <4> QED BY <4>1, <4>2
    <3>5. iter'.err # "nil" /\ ~closed' => iter'.limit = 0 \/ Base' < Limit
      BY <1>1, <1>6, <1>12, <1>15, <3>1
    <3>6. iter'.opLimit < 0 =>
              /\ iter'.cursorId = 0 /\ Fetchers' = {} /\ cursor'.state # "open"
              /\ \A i \in DOMAIN replies' : replies'[i].cursorId = 0
              /\ \A i \in DOMAIN wire' : wire'[i].op # "getMore"
      <4>1. 1 \in DOMAIN replies
        BY <1>3 DEF TypeInv
      <4>2. \A i \in DOMAIN replies' : \E j \in DOMAIN replies : replies'[i].cursorId = replies[j].cursorId
        BY <1>2
      <4>3. iter.opLimit < 0 => id = 0
        BY <3>1, <4>1 DEF id, x
      <4> QED BY <1>1, <1>7, <1>12, <3>1, <4>2, <4>3
    <3>7. /\ iter'.limit = Limit' - Len(returned') /\ (iter'.err = "nil" => iter'.limit > 0) /\ iter'.opLimit # 0 /\ Limit' = Limit /\ Limited'
      BY <1>1, <1>8, <1>12, <2>3, <3>1 DEF r
    <3> QED BY <3>2, <3>3, <3>4, <3>5, <3>6, <3>7 DEF LimitInv
  <2> QED BY <2>1, <2>2, <2>3
<1>26. EndInv'
  <2> SUFFICES ASSUME ~Failing PROVE EndInv'
    BY <1>8 DEF EndInv
  <2>1. \A i \in DOMAIN replies : Whole(replies[i]) /\ replies[i].cursorId = 0 /\ ~replies[i].notFound =>
           cursor.state = "gone" /\ Complete(cursor.pos)
    BY <1>7 DEF EndInv
  <2>2. Complete(cursor.pos)' <=> Complete(cursor.pos)
    BY <1>1, <1>8 DEF Complete
  <2>3. iter'.err = "nil" /\ ~closed' /\ iter'.cursorId = 0 /\ ~Pending' => cursor.state = "gone" /\ Complete(cursor.pos)
    <3>1. CASE first
      <4>1. 1 \in DOMAIN replies /\ ~x.notFound
        <5>1. 1 \in DOMAIN replies
          BY <1>3 DEF TypeInv
        <5>2. x.docs # <<>>
          BY <1>1, <1>2 DEF Taken
        <5>3. x.notFound \in BOOLEAN /\ (x.notFound => x.docs = <<>>)
          BY <1>2, <5>1 DEF ReplyInv, Replies
        <5> QED BY <5>1, <5>2, <5>3
      <4> QED BY <1>12, <2>1, <3>1, <4>1 DEF id, first, x
    <3>2. CASE ~first
      BY <1>1, <1>7, <1>9, <1>12, <3>2 DEF EndInv, id
    <3> QED BY <3>1, <3>2
  <2>4. \A i \in DOMAIN replies' : Whole(replies'[i]) /\ replies'[i].cursorId = 0 /\ ~replies'[i].notFound =>
           cursor.state = "gone" /\ Complete(cursor.pos)
    <3> SUFFICES ASSUME NEW i \in DOMAIN replies', Whole(replies'[i]), replies'[i].cursorId = 0, ~replies'[i].notFound
                 PROVE  cursor.state = "gone" /\ Complete(cursor.pos)
      OBVIOUS
    <3>1. Len(replies) = 2 /\ replies'[i] = replies[2]
      BY <1>2
    <3>2. 2 \in DOMAIN replies
      BY <3>1 DEF TypeInv
    <3> QED BY <2>1, <3>1, <3>2
  <2> QED BY <1>1, <1>12, <1>16, <2>2, <2>3, <2>4 DEF EndInv
<1>27. FailInv'
  <2> SUFFICES ASSUME Failing PROVE FailInv'
    BY <1>8 DEF FailInv
  <2>1. /\ returned = <<>> /\ iter.cursorId = 0 /\ Fetchers = {} /\ cursor.state # "open"
        /\ \A c \in Callers : app[c].pc \notin {"kill", "limitKill", "limitClose"}
        /\ Requests = {} /\ iter.docData.nelems = 0 /\ iter.err = "nil"
        /\ replies = << [docs |-> <<R!ErrorDoc>>, total |-> 1, cursorId |-> 0, notFound |-> FALSE] >>
        /\ iter.limit = Limit
    BY <1>3, <1>7 DEF FailInv
  <2>2. L = 1 /\ doc = R!ErrorDoc /\ x.cursorId = 0 /\ n = 0 /\ first
    BY <2>1 DEF L, doc, x, n, q, first, Whole
  <2>3. replies' = <<>>
    <3>1. Len(replies) = 1
      BY <2>1
    <3>2. Len(Head(replies).docs) = 1
      BY <1>2, <2>2 DEF L, x
    <3>3. replies' = Tail(replies)
      BY <1>1, <3>2 DEF Taken
    <3>4. replies \in Seq(Replies)
      BY DEF TypeInv
    <3>5. x \in Replies
      BY <1>2
    <3> HIDE DEF x
    <3>6. Tail(replies) = <<>>
      BY <3>1, <3>4, <3>5, TailFacts
    <3> QED BY <3>3, <3>6
  <2>4. iter'.docData.nelems = 1 /\ Item(iter'.docData, 1) = R!ErrorDoc /\ iter'.cursorId = 0 /\ iter'.err = "nil" /\ iter'.limit = Limit
    BY <1>12, <2>1, <2>2 DEF id
  <2> QED BY <1>1, <1>7, <1>8, <1>13, <2>1, <2>3, <2>4 DEF FailInv
<1>28. ReleaseInv'
  <2> SUFFICES ASSUME panic = "none", faults = query.faults, cursor.state = "open", ~KillPending, "early" \notin astray
               PROVE  iter'.cursorId = 1 /\ \E c \in Callers : app'[c].pc # "done"
    BY <1>1, <1>17 DEF ReleaseInv
  <2>1. FirstUnread \/ (iter.cursorId = 1 /\ \E c \in Callers : app[c].pc # "done")
    BY DEF ReleaseInv
  <2>2. ~Failing
    BY <1>7 DEF FailInv
  <2>3. \E c \in Callers : app'[c].pc # "done"
    <3>1. CASE FirstUnread
      <4>1. query \in Queries
        BY DEF TypeInv
      <4>2. PICK c \in Callers : query.plan[c] # -1
        BY <4>1, QueriesAssumption
      <4>3. app[c].pc # "done"
        BY <3>1, <4>2 DEF FirstUnread, Waiting, FirstPcs
      <4> QED BY <1>13, <4>3
    <3>2. CASE ~FirstUnread
      BY <1>13, <2>1, <3>2
    <3> QED BY <3>1, <3>2
  <2>4. iter'.cursorId = 1
    <3>1. CASE first
      <4>1. 1 \in DOMAIN replies
        BY <1>3 DEF TypeInv
      <4>2. x.docs # <<>>
        BY <1>1, <1>2 DEF Taken
      <4>3. x.notFound \in BOOLEAN /\ (x.notFound => x.docs = <<>>)
        BY <1>2, <4>1 DEF ReplyInv, Replies
      <4>4. x.cursorId # 0
        BY <1>7, <2>2, <3>1, <4>1, <4>2, <4>3 DEF EndInv, first
      <4> QED BY <1>3, <1>12, <3>1, <4>4 DEF id
    <3>2. CASE ~first
      <4>1. HeadPartial
        BY <1>2, <3>2
      <4> QED BY <1>12, <2>1, <3>2, <4>1 DEF FirstUnread, id
    <3> QED BY <3>1, <3>2
  <2> QED BY <2>3, <2>4
<1> QED BY <1>2, <1>14, <1>18, <1>19, <1>20, <1>21, <1>22, <1>23, <1>24, <1>25, <1>26, <1>27, <1>28

-----------------------------------------------------------------------------
(* The end of a reply, of a connection and of the program.                 *)

(* A connection that dies under a reply ends the program, and nothing else *)
(* changes.                                                                *)
LEMMA connectionDiesKeeps ==
    ASSUME IterInv, InUse, R!connectionDies
    PROVE  IterInv'
<1>1. /\ UNCHANGED <<query, stored, iter, app, wire, replies, cursor, returned, closed, ended, astray, reading>>
      /\ faults > 0 /\ faults' = faults - 1 /\ panic' = "nil pointer dereference"
  BY DEF R!connectionDies, R!Fault, R!ServerVars, InUse
<1>2. /\ (HeadPartial' <=> HeadPartial) /\ (Answered' <=> Answered) /\ PartialLen' = PartialLen /\ AnswerLen' = AnswerLen
      /\ Limit' = Limit /\ (Limited' <=> Limited) /\ (Failing' <=> Failing) /\ (R!Overasked' <=> R!Overasked) /\ Requests' = Requests
  BY <1>1, SameReplies, SameQuery, SameWire
<1>3. Fetchers' = Fetchers /\ (Opened' <=> Opened)
  BY <1>1 DEF Fetchers, Opened
<1>4. (Pending' <=> Pending) /\ Received' = Received /\ Base' = Base /\ End' = End
  BY <1>1, <1>2, <1>3 DEF Pending, Received, Base, End
<1>5. TypeInv'
  <2>1. TypeInv
    BY DEF IterInv
  <2>2. faults' \in 0..query.faults
    <3>1. faults \in 0..query.faults /\ query.faults \in Nat
      BY <2>1, QueriesAssumption DEF TypeInv
    <3>2. faults > 0 /\ faults' = faults - 1
      BY <1>1
    <3> DEFINE f == query.faults
    <3> HIDE DEF f
    <3>3. faults' \in 0..f
      BY <3>1, <3>2 DEF f
    <3> QED BY <3>3 DEF f
  <2>3. panic' # R!LimitPanic
    BY <1>1 DEF R!LimitPanic
  <2> QED BY <1>1, <2>1, <2>2, <2>3 DEF TypeInv
<1>6. StageInv'
  BY <1>1, <1>3 DEF IterInv, StageInv
<1>7. ReplyInv' /\ OneRequest'
  BY <1>1, <1>2, <1>3 DEF IterInv, ReplyInv, OneRequest
<1>8. Waiting' <=> Waiting
  BY <1>1 DEF Waiting
<1>9. QueryInv'
  <2>1. R!OpLimit' = R!OpLimit
    BY <1>1 DEF R!OpLimit
  <2> QED BY <1>1, <1>3, <1>8, <2>1 DEF IterInv, QueryInv
<1>10. CountInv' /\ FetchInv'
  BY <1>1, <1>2, <1>4 DEF IterInv, CountInv, FetchInv
<1>11. ErrInv'
  BY <1>1, <1>4 DEF IterInv, ErrInv
<1>12. ContentInv'
  BY <1>1, <1>2, <1>4 DEF IterInv, ContentInv
<1>13. LimitInv'
  BY <1>1, <1>2, <1>3, <1>4 DEF IterInv, LimitInv
<1>14. EndInv'
  BY <1>1, <1>2, <1>3, <1>4 DEF IterInv, EndInv, Complete
<1>15. FailInv'
  BY <1>1, <1>2, <1>3 DEF IterInv, FailInv
<1>16. ReleaseInv'
  BY <1>1 DEF ReleaseInv
<1> QED BY <1>5, <1>6, <1>7, <1>9, <1>10, <1>11, <1>12, <1>13, <1>14, <1>15, <1>16 DEF IterInv

(* An empty reply is the only one, and nothing else is asked for.          *)
LEMMA EmptyReply ==
    ASSUME TypeInv, ReplyInv, OneRequest, replies # <<>>, Head(replies).docs = <<>>
    PROVE  /\ Len(replies) = 1 /\ Whole(replies[1]) /\ Head(replies) = replies[1] /\ replies[1] \in Replies
           /\ Tail(replies) = <<>> /\ replies[1].docs = <<>>
           /\ Answered /\ ~HeadPartial /\ PartialLen = 0 /\ AnswerLen = 0
           /\ Pending /\ Fetchers = {} /\ Requests = {}
<1> DEFINE m == Len(replies)
<1>1. /\ replies \in Seq(Replies) /\ Head(replies) = replies[1] /\ replies[1] \in Replies /\ replies[1].docs = <<>>
      /\ DOMAIN replies = 1..m /\ 1 \in DOMAIN replies /\ m \in Nat /\ m # 0 /\ m <= 2
  BY DEF TypeInv, ReplyInv
<1>2. Whole(replies[1])
  <2>1. Len(replies[1].docs) = 0
    BY <1>1
  <2> QED BY <1>1, <2>1 DEF ReplyInv
<1>3. m = 1
  <2>1. m # 2
    BY <1>2 DEF ReplyInv
  <2> HIDE DEF m
  <2> QED BY <1>1, <2>1
<1>4. Answered /\ ~HeadPartial /\ PartialLen = 0 /\ AnswerLen = 0
  <2>1. Answered /\ ~HeadPartial
    BY <1>2, <1>3 DEF Answered, HeadPartial
  <2> QED BY <1>1, <1>3, <2>1 DEF PartialLen, AnswerLen
<1>5. Pending /\ Fetchers = {} /\ Requests = {}
  BY <1>4 DEF OneRequest, Pending
<1>6. Tail(replies) = <<>>
  BY <1>1, <1>3, TailFacts
<1> QED BY <1>1, <1>2, <1>3, <1>4, <1>5, <1>6

(* Without replies.                                                        *)
LEMMA RepliesGone ==
    ASSUME replies' = <<>>
    PROVE  ~HeadPartial' /\ ~Answered' /\ PartialLen' = 0 /\ AnswerLen' = 0
BY DEF HeadPartial, Answered, PartialLen, AnswerLen

(* replyFunc takes an empty reply: nothing else was expected.              *)
LEMMA replyEmptyKeeps ==
    ASSUME IterInv, InUse, R!replyEmpty
    PROVE  IterInv'
<1> DEFINE x == replies[1]
           id == IF x.cursorId # 0 THEN x.cursorId ELSE iter.cursorId
           err == IF x.cursorId # 0 THEN iter.err ELSE IF x.notFound THEN "cursor" ELSE "notFound"
<1> USE DEF IterInv
<1>1. /\ replies # <<>> /\ Head(replies).docs = <<>> /\ replies' = Tail(replies) /\ R!Broadcast
      /\ iter' = [iter EXCEPT
          !.docsToReceive = @ - 1,
          !.cursorId = IF Head(replies).cursorId # 0 THEN Head(replies).cursorId ELSE @,
          !.err = IF Head(replies).cursorId # 0 THEN @
                  ELSE IF Head(replies).notFound THEN "cursor" ELSE "notFound"]
      /\ UNCHANGED <<query, stored, wire, cursor, returned, closed, ended, faults, panic, astray, reading>> /\ reading
  BY DEF R!replyEmpty, InUse
<1>2. /\ Len(replies) = 1 /\ Whole(x) /\ Head(replies) = x /\ x \in Replies
      /\ replies' = <<>> /\ x.docs = <<>>
      /\ Answered /\ ~HeadPartial /\ PartialLen = 0 /\ AnswerLen = 0
      /\ Pending /\ Fetchers = {} /\ Requests = {}
      /\ 1 \in DOMAIN replies
  <2>1. 1 \in DOMAIN replies
    BY <1>1 DEF TypeInv
  <2> QED BY <1>1, <2>1, EmptyReply
<1>3. iter.docsToReceive = 1 /\ (iter.err = "nil" \/ closed) /\ iter.err # "notFound" /\ ended # "exhausted"
  BY <1>2 DEF CountInv, ErrInv
<1>4. Opened /\ Opened' /\ Fetchers' = {}
  BY <1>1, <1>2, BroadcastFacts DEF StageInv
<1>5. /\ app' \in [Callers -> [pc : R!Pcs, left : Nat]]
      /\ \A c \in Callers : app'[c].pc = IF app[c].pc = "wait" THEN "next" ELSE app[c].pc
  BY <1>1, BroadcastFacts
<1>6. Typed(iter) /\ x.cursorId \in 0..1 /\ x.notFound \in BOOLEAN
  BY <1>2 DEF TypeInv, Typed, Replies
<1>7. id \in 0..1 /\ err \in R!Errs
  BY <1>6 DEF Typed, R!Errs
<1>8. iter' = [iter EXCEPT !.docsToReceive = 0, !.cursorId = id, !.err = err]
  BY <1>1, <1>2, <1>3
<1> HIDE DEF id, err, x
<1>9. /\ Typed(iter') /\ iter'.err = err /\ iter'.docsToReceive = 0 /\ iter'.docsBeforeMore = iter.docsBeforeMore
      /\ iter'.limit = iter.limit /\ iter'.opLimit = iter.opLimit /\ iter'.cursorId = id /\ iter'.docData = iter.docData
  BY <1>6, <1>7, <1>8 DEF Typed
<1>10. TypeInv'
  BY <1>1, <1>2, <1>5, <1>9 DEF TypeInv, Typed
<1>11. /\ ~HeadPartial' /\ ~Answered' /\ PartialLen' = 0 /\ AnswerLen' = 0
       /\ Limit' = Limit /\ (Limited' <=> Limited) /\ (Failing' <=> Failing) /\ (R!Overasked' <=> R!Overasked) /\ Requests' = {} /\ ~Pending'
  <2>1. Limit' = Limit /\ (Limited' <=> Limited) /\ (Failing' <=> Failing) /\ (R!Overasked' <=> R!Overasked) /\ Requests' = {}
    BY <1>1, <1>2, SameQuery, SameWire
  <2>2. ~HeadPartial' /\ ~Answered' /\ PartialLen' = 0 /\ AnswerLen' = 0
    BY <1>2, RepliesGone
  <2> QED BY <1>4, <2>1, <2>2 DEF Pending
<1>12. Received' = Received /\ Base' = Base /\ End' = End /\ End = Base /\ Base = Received
  <2>1. Received' = Received /\ Received \in Nat
    BY <1>1, <1>9, TypeFacts DEF Received
  <2> QED BY <1>2, <1>11, <2>1 DEF Base, End
<1>13. ~Failing
  <2> SUFFICES ASSUME Failing PROVE FALSE
    OBVIOUS
  <2>1. replies = << [docs |-> <<R!ErrorDoc>>, total |-> 1, cursorId |-> 0, notFound |-> FALSE] >>
    BY <1>2, <1>4 DEF FailInv
  <2> QED BY <1>2, <2>1 DEF x
<1>14. KillPending' <=> KillPending
  BY <1>1, <1>5 DEF KillPending
<1>15. StageInv'
  BY <1>1, <1>4, StageAfter
<1>16. ReplyInv' /\ OneRequest'
  BY <1>2, <1>4, <1>11 DEF ReplyInv, OneRequest
<1>17. QueryInv'
  <2>1. \A i \in DOMAIN wire : wire[i].op # "query"
    BY <1>2 DEF Requests
  <2> QED BY <1>1, <2>1 DEF QueryInv
<1>18. CountInv' /\ FetchInv'
  BY <1>4, <1>9, <1>11 DEF CountInv, FetchInv, Fetchers
<1>19. ErrInv'
  <2>1. iter.err # "nil" => err # "nil"
    BY DEF err
  <2> QED BY <1>1, <1>2, <1>3, <1>5, <1>9, <1>11, <2>1 DEF ErrInv
<1>20. ContentInv'
  <2>1. cursor.pos = End
    BY <1>2, <1>13 DEF ContentInv
  <2> QED BY <1>1, <1>9, <1>11, <1>12, <2>1 DEF ContentInv
<1>21. LimitInv'
  <2>1. iter'.opLimit < 0 /\ Limited /\ ~Failing => id = 0
    BY <1>2, <1>4, <1>9 DEF LimitInv, id, x
  <2>2. err = "nil" => iter.err = "nil"
    BY DEF err
  <2> QED BY <1>1, <1>2, <1>4, <1>9, <1>11, <1>12, <2>1, <2>2 DEF LimitInv
<1>22. EndInv'
  <2>1. cursor.pos = Received
    BY <1>2, <1>12, <1>13 DEF ContentInv
  <2>2. x.cursorId = 0 /\ ~x.notFound => Complete(cursor.pos)
    BY <1>2, <1>4, <1>13 DEF EndInv, x
  <2>3. err = "notFound" => Complete(Received)
    BY <1>3, <2>1, <2>2 DEF err
  <2>4. Complete(Received)' <=> Complete(Received)
    BY <1>1, <1>11, <1>12 DEF Complete
  <2>5. ~(err = "nil" /\ id = 0)
    BY DEF err, id
  <2> QED BY <1>2, <1>9, <2>3, <2>4, <2>5 DEF EndInv
<1>23. FailInv'
  BY <1>11, <1>13 DEF FailInv
<1>24. ReleaseInv'
  <2> SUFFICES ASSUME panic = "none", faults = query.faults, cursor.state = "open", ~KillPending, "early" \notin astray
               PROVE  id = 1 /\ \E c \in Callers : app'[c].pc # "done"
    BY <1>1, <1>9, <1>14 DEF ReleaseInv
  <2>1. FirstUnread \/ (iter.cursorId = 1 /\ \E c \in Callers : app[c].pc # "done")
    BY DEF ReleaseInv
  <2>2. id = 1
    BY <1>2, <1>6, <2>1 DEF FirstUnread, id, x
  <2>3. \E c \in Callers : app'[c].pc # "done"
    <3>1. CASE FirstUnread
      <4>1. query \in Queries
        BY DEF TypeInv
      <4>2. PICK c \in Callers : query.plan[c] # -1
        BY <4>1, QueriesAssumption
      <4>3. app[c].pc # "done"
        BY <3>1, <4>2 DEF FirstUnread, Waiting, FirstPcs
      <4> QED BY <1>5, <4>3
    <3>2. CASE ~FirstUnread
      BY <1>5, <2>1, <3>2
    <3> QED BY <3>1, <3>2
  <2> QED BY <2>2, <2>3
<1> QED BY <1>10, <1>15, <1>16, <1>17, <1>18, <1>19, <1>20, <1>21, <1>22, <1>23, <1>24

(* The rest of a reply is lost, and what was sent, but no request.         *)
LEMMA replyCutKeeps ==
    ASSUME IterInv, InUse, R!replyCut, R!Regular'
    PROVE  IterInv'
<1> DEFINE d == iter.docsToReceive
<1> USE DEF IterInv
<1>1. /\ replies # <<>> /\ query.cuts /\ faults > 0 /\ faults' = faults - 1 /\ R!Broadcast /\ Len(replies) = 1
      /\ iter' = [iter EXCEPT !.docsToReceive = @ - 1, !.err = "net"]
      /\ replies' = <<>> /\ wire' = <<>> /\ \A i \in DOMAIN wire : wire[i].op # "getMore"
      /\ UNCHANGED <<query, stored, cursor, returned, closed, ended, panic, reading>> /\ reading
  BY DEF R!replyCut, R!Fault, InUse
<1>2. UNCHANGED astray /\ Fetchers = {}
  <2>1. CASE \E c \in Callers : app[c].pc \in {"getMore", "prefetch"}
    <3>1. astray' = astray \union {"cut"}
      BY <2>1 DEF R!replyCut, R!Strays
    <3> QED BY <3>1 DEF R!Regular
  <2>2. CASE ~\E c \in Callers : app[c].pc \in {"getMore", "prefetch"}
    BY <2>2 DEF R!replyCut, Fetchers
  <2> QED BY <2>1, <2>2
<1>3. /\ HeadPartial <=> ~Answered
      /\ HeadPartial <=> PartialLen > 0
  BY <1>1, PartialFacts DEF HeadPartial, Answered
<1>4. Fetchers = {} /\ (Pending <=> ~HeadPartial)
  <2>1. wire \in Seq(WireOps)
    BY DEF TypeInv
  <2>2. \A i \in DOMAIN wire : wire[i].op \in {"query", "getMore", "kill"}
    BY <2>1 DEF WireOps
  <2>3. Requests = {}
    BY <1>1, <2>2 DEF Requests, QueryInv
  <2> QED BY <1>2, <1>3, <2>3 DEF Pending
<1>5. /\ d \in Nat /\ PartialLen \in Nat /\ AnswerLen \in Nat /\ Received \in Nat /\ Limit \in Nat
      /\ Base = Received + PartialLen /\ End = Base + AnswerLen
  BY TypeFacts DEF Base, End
<1>6. d - 1 \in Nat
  <2>1. d >= (IF Pending THEN 1 ELSE 0) + PartialLen
    BY DEF CountInv
  <2> HIDE DEF d
  <2>2. d >= 1
    BY <1>3, <1>4, <1>5, <2>1
  <2> QED BY <1>5, <2>2
<1>7. Opened /\ Opened' /\ Fetchers' = {}
  BY <1>1, <1>4, BroadcastFacts DEF StageInv
<1>8. /\ app' \in [Callers -> [pc : R!Pcs, left : Nat]]
      /\ \A c \in Callers : app'[c].pc = IF app[c].pc = "wait" THEN "next" ELSE app[c].pc
  BY <1>1, BroadcastFacts
<1>9. /\ Typed(iter') /\ iter'.err = "net" /\ iter'.docsToReceive = d - 1 /\ iter'.docsBeforeMore = iter.docsBeforeMore
      /\ iter'.limit = iter.limit /\ iter'.opLimit = iter.opLimit /\ iter'.cursorId = iter.cursorId /\ iter'.docData = iter.docData
  <2>1. Typed(iter)
    BY DEF TypeInv, Typed
  <2>2. iter' = [iter EXCEPT !.docsToReceive = d - 1, !.err = "net"]
    BY <1>1
  <2> HIDE DEF d
  <2> QED BY <1>6, <2>1, <2>2 DEF Typed, R!Errs
<1>10. TypeInv'
  <2>1. faults' \in 0..query.faults
    BY <1>1, QueriesAssumption DEF TypeInv
  <2>2. wire' \in Seq(WireOps) /\ replies' \in Seq(Replies)
    BY <1>1
  <2> QED BY <1>1, <1>2, <1>8, <1>9, <2>1, <2>2 DEF TypeInv, Typed
<1>11. /\ ~HeadPartial' /\ ~Answered' /\ PartialLen' = 0 /\ AnswerLen' = 0 /\ DOMAIN wire' = {}
       /\ Limit' = Limit /\ (Limited' <=> Limited) /\ (Failing' <=> Failing) /\ (R!Overasked' <=> R!Overasked) /\ Requests' = {} /\ ~Pending'
  <2>1. Limit' = Limit /\ (Limited' <=> Limited) /\ (Failing' <=> Failing) /\ (R!Overasked' <=> R!Overasked)
    BY <1>1, SameQuery
  <2>2. ~HeadPartial' /\ ~Answered' /\ PartialLen' = 0 /\ AnswerLen' = 0
    BY <1>1, RepliesGone
  <2>3. Requests' = {} /\ DOMAIN wire' = {}
    BY <1>1 DEF Requests
  <2> QED BY <1>7, <2>1, <2>2, <2>3 DEF Pending
<1>12. Received' = Received /\ Base' = Received /\ End' = Received
  <2>1. Received' = Received
    BY <1>1, <1>9 DEF Received
  <2>2. Base' = Received' + 0 /\ End' = Base' + 0
    BY <1>11 DEF Base, End
  <2> QED BY <1>5, <2>1, <2>2
<1>13. ended # "exhausted"
  BY <1>1 DEF ErrInv
<1> HIDE DEF d
<1>14. StageInv'
  BY <1>1, <1>7, StageAfter
<1>15. ReplyInv' /\ OneRequest' /\ QueryInv'
  BY <1>1, <1>7, <1>11 DEF ReplyInv, OneRequest, QueryInv
<1>16. CountInv' /\ FetchInv'
  BY <1>6, <1>7, <1>9, <1>11 DEF CountInv, FetchInv, Fetchers
<1>17. ErrInv'
  BY <1>1, <1>8, <1>9, <1>11, <1>13 DEF ErrInv
<1>18. ContentInv'
  <2> SUFFICES ASSUME ~Failing PROVE ContentInv'
    BY <1>11 DEF ContentInv
  <2>1. /\ End <= cursor.pos /\ cursor.pos \in Nat
        /\ \A i \in 1..Len(returned) : returned[i] = stored[i]
        /\ \A i \in 1..iter.docData.nelems : Item(iter.docData, i) = stored[Len(returned) + i]
    BY TypeFacts DEF ContentInv
  <2>2. Received <= cursor.pos
    BY <1>5, <2>1
  <2> QED BY <1>1, <1>9, <1>11, <1>12, <2>1, <2>2 DEF ContentInv
<1>19. LimitInv'
  <2>1. CASE ~Limited
    BY <1>9, <1>11, <2>1 DEF LimitInv
  <2>2. CASE Failing
    BY <1>9, <1>11, <2>2 DEF LimitInv
  <2>3. CASE Limited /\ ~Failing
    <3>1. /\ iter.limit = Limit - Len(returned) /\ Base <= Limit
          /\ Pending => Base < Limit
          /\ iter.opLimit # 0
          /\ iter.opLimit < 0 => iter.cursorId = 0 /\ cursor.state # "open"
      BY <1>7, <2>3 DEF LimitInv
    <3>2. Received < Limit
      BY <1>3, <1>4, <1>5, <3>1
    <3>3. /\ Base' < Limit' /\ Base' <= Limit' /\ End' <= Limit' /\ Limited'
          /\ iter'.limit = Limit' - Len(returned') /\ iter'.err # "nil" /\ iter'.opLimit # 0
          /\ iter'.opLimit < 0 => iter'.cursorId = 0 /\ cursor'.state # "open"
      BY <1>1, <1>5, <1>9, <1>11, <1>12, <2>3, <3>1, <3>2
    <3> QED BY <1>1, <1>7, <1>11, <3>3 DEF LimitInv
  <2> QED BY <2>1, <2>2, <2>3
<1>20. EndInv'
  BY <1>1, <1>9 DEF EndInv
<1>21. FailInv'
  <2> SUFFICES ASSUME Failing PROVE FailInv'
    BY <1>11 DEF FailInv
  <2>1. /\ returned = <<>> /\ iter.cursorId = 0 /\ cursor.state # "open" /\ iter.docData.nelems = 0
        /\ \A c \in Callers : app[c].pc \notin {"kill", "limitKill", "limitClose"}
    BY <1>1, <1>7 DEF FailInv
  <2> QED BY <1>1, <1>7, <1>8, <1>9, <1>11, <2>1 DEF FailInv
<1>22. ReleaseInv'
  <2>1. faults' # query'.faults
    BY <1>1, QueriesAssumption DEF TypeInv
  <2> QED BY <2>1 DEF ReleaseInv
<1> QED BY <1>10, <1>14, <1>15, <1>16, <1>17, <1>18, <1>19, <1>20, <1>21, <1>22

-----------------------------------------------------------------------------
(* The server answers a request.                                           *)

(* A whole reply comes in after at most one that is read in part.          *)
LEMMA ReplyComes ==
    ASSUME TypeInv, ReplyInv, ~Answered, NEW y \in Replies, Whole(y), y.notFound => y.docs = <<>> /\ y.cursorId = 0,
           replies' = Append(replies, y)
    PROVE  /\ replies' \in Seq(Replies) /\ ReplyInv' /\ Answered' /\ (HeadPartial' <=> HeadPartial)
           /\ PartialLen' = PartialLen /\ AnswerLen' = Len(y.docs) /\ replies'[Len(replies')] = y
           /\ replies = <<>> => replies' = <<y>>
           /\ HeadPartial => replies'[1] = replies[1]
           /\ \A i \in DOMAIN replies' : \/ i \in DOMAIN replies /\ replies'[i] = replies[i] /\ ~Whole(replies[i])
                                         \/ replies'[i] = y
<1> DEFINE m == Len(replies)
<1>1. replies \in Seq(Replies) /\ m \in Nat /\ m <= 2 /\ DOMAIN replies = 1..m
  BY DEF TypeInv, ReplyInv
<1>2. /\ replies' \in Seq(Replies) /\ Len(replies') = m + 1 /\ DOMAIN replies' = 1..(m + 1)
      /\ replies'[m + 1] = y /\ \A i \in 1..m : replies'[i] = replies[i]
  BY <1>1
<1>3. replies = <<>> <=> m = 0
  BY <1>1
<1>4. m = 0 \/ (m = 1 /\ ~Whole(replies[1]) /\ HeadPartial)
  <2>1. m # 2
    BY <1>1 DEF ReplyInv, Answered
  <2>2. m = 1 => ~Whole(replies[1]) /\ HeadPartial
    BY <1>3 DEF Answered, HeadPartial
  <2> HIDE DEF m
  <2> QED BY <1>1, <2>1, <2>2
<1>5. Len(replies') = m + 1
  BY <1>2
<1> HIDE DEF m
<1>6. CASE m = 0
  <2>1. replies = <<>> /\ Len(replies') = 1 /\ replies'[1] = y /\ DOMAIN replies' = {1} /\ replies' # <<>>
    BY <1>2, <1>3, <1>6
  <2>2. ~HeadPartial /\ ~HeadPartial' /\ Answered'
    BY <2>1 DEF HeadPartial, Answered, Whole
  <2>3. PartialLen' = PartialLen /\ AnswerLen' = Len(y.docs)
    BY <2>1, <2>2 DEF PartialLen, AnswerLen
  <2>4. ReplyInv'
    BY <2>1 DEF ReplyInv, Whole
  <2>5. replies' = <<y>>
    BY <1>2, <2>1
  <2> QED BY <1>2, <2>1, <2>2, <2>3, <2>4, <2>5
<1>7. CASE m = 1
  <2>1. /\ replies # <<>> /\ Len(replies') = 2 /\ replies'[2] = y /\ replies'[1] = replies[1] /\ DOMAIN replies' = {1, 2}
        /\ replies' # <<>> /\ DOMAIN replies = {1}
    BY <1>1, <1>2, <1>3, <1>7
  <2>2. HeadPartial /\ HeadPartial' /\ Answered' /\ ~Whole(replies[1])
    BY <1>4, <1>7, <2>1 DEF HeadPartial, Answered, Whole
  <2>3. PartialLen' = PartialLen /\ AnswerLen' = Len(y.docs)
    BY <2>1, <2>2 DEF PartialLen, AnswerLen
  <2>4. ReplyInv'
    BY <2>1, <2>2 DEF ReplyInv, Whole
  <2> QED BY <1>2, <2>1, <2>2, <2>3, <2>4
<1> QED BY <1>4, <1>6, <1>7

(* What the server does with the first request, the only one.              *)
LEMMA RequestTaken ==
    ASSUME TypeInv, OneRequest, wire # <<>>, Head(wire).op # "kill"
    PROVE  /\ Head(wire) = wire[1] /\ wire[1] \in WireOps /\ 1 \in DOMAIN wire /\ Requests = {1} /\ Pending /\ Fetchers = {} /\ ~Answered
           /\ Tail(wire) \in Seq(WireOps) /\ \A i \in DOMAIN Tail(wire) : Tail(wire)[i].op = "kill"
           /\ (\E i \in DOMAIN Tail(wire) : Tail(wire)[i].op = "kill") <=> (\E i \in DOMAIN wire : wire[i].op = "kill")
<1>1. /\ wire \in Seq(WireOps) /\ Head(wire) = wire[1] /\ wire[1] \in WireOps /\ DOMAIN wire = 1..Len(wire)
      /\ Len(wire) \in Nat /\ Len(wire) > 0
  BY DEF TypeInv
<1>2. 1 \in Requests
  BY <1>1 DEF Requests
<1>3. Requests = {1} /\ Fetchers = {} /\ ~Answered /\ Pending
  BY <1>2 DEF OneRequest, Pending
<1>4. \A i \in 2..Len(wire) : wire[i].op = "kill"
  BY <1>1, <1>3 DEF Requests
<1>5. /\ Tail(wire) \in Seq(WireOps) /\ DOMAIN Tail(wire) = 1..(Len(wire) - 1)
      /\ \A i \in 1..(Len(wire) - 1) : Tail(wire)[i] = wire[i + 1]
  BY <1>1
<1>6. \A i \in 1..(Len(wire) - 1) : i + 1 \in 2..Len(wire)
  BY <1>1
<1>7. \A i \in DOMAIN Tail(wire) : Tail(wire)[i].op = "kill"
  BY <1>4, <1>5, <1>6
<1>8. (\E i \in DOMAIN Tail(wire) : Tail(wire)[i].op = "kill") <=> (\E i \in DOMAIN wire : wire[i].op = "kill")
  <2>1. ASSUME NEW i \in DOMAIN wire, wire[i].op = "kill" PROVE \E j \in DOMAIN Tail(wire) : Tail(wire)[j].op = "kill"
    <3>1. i # 1
      BY <1>1, <2>1
    <3> DEFINE j == i - 1
    <3>2. j \in 1..(Len(wire) - 1)
      BY <1>1, <2>1, <3>1
    <3> HIDE DEF j
    <3> QED BY <1>5, <1>7, <3>2
  <2>2. ASSUME NEW i \in DOMAIN Tail(wire) PROVE \E j \in DOMAIN wire : wire[j].op = "kill"
    <3> DEFINE j == i + 1
    <3>1. j \in 2..Len(wire)
      BY <1>5, <1>6, <2>2
    <3>2. j \in DOMAIN wire
      BY <1>1, <3>1
    <3> HIDE DEF j
    <3> QED BY <1>4, <3>1, <3>2
  <2> QED BY <2>1, <2>2
<1> QED BY <1>1, <1>3, <1>5, <1>7, <1>8

(* A whole reply.                                                          *)
LEMMA ReplyTyped ==
    ASSUME NEW docs \in Seq(Int), NEW open \in BOOLEAN, NEW notFound \in BOOLEAN
    PROVE  LET y == R!Reply(docs, open, notFound)
           IN  /\ y \in Replies /\ Whole(y) /\ y.docs = docs /\ y.total = Len(docs) /\ y.notFound = notFound
               /\ y.cursorId = (IF open THEN 1 ELSE 0)
<1>1. Len(docs) \in Nat
  OBVIOUS
<1> DEFINE y == R!Reply(docs, open, notFound)
           n == Len(docs)
           id == IF open THEN 1 ELSE 0
<1>2. y = [docs |-> docs, total |-> n, cursorId |-> id, notFound |-> notFound] /\ id \in 0..1
  BY DEF R!Reply
<1> HIDE DEF n, id, y
<1>3. y.docs = docs /\ y.total = n /\ y.notFound = notFound /\ y.cursorId = id
  BY <1>2
<1>4. y \in Replies
  BY <1>1, <1>2 DEF Replies, n
<1> QED BY <1>3, <1>4 DEF Whole, n, id, y

(* The server's answers to a request.                                      *)
LEMMA ServeFacts ==
    ASSUME TypeInv, R!serveBatch, NEW m \in WireOps, m = Head(wire),
           Failing => m.op = "query", m.op = "query" => query.kind \in {"find", "tail"}
    PROVE  \E y : replies' = Append(replies, y) /\ Serves(m, y) /\ Measured(y)
<1> DEFINE left == Len(stored) - cursor.pos
           most == IF m.limit = 0 THEN left ELSE LET a == R!LimitOf(m.limit) IN IF a < left THEN a ELSE left
           lost == m.op = "getMore" /\ (cursor.state # "open" \/ m.id = 0)
           fails == m.op = "query" /\ query.fails
           End1(n, open) ==
             /\ n = 0 => left = 0
             /\ Final(m) => ~open /\ n = most
             /\ query.kind = "tail" /\ n > 0 => open
             /\ query.kind # "tail" => (open => n > 0) /\ (n < left /\ ~Final(m) => open)
             /\ R!Answer(SubSeq(stored, cursor.pos + 1, cursor.pos + n), n, open, FALSE)
<1>1. /\ m.op \in {"query", "getMore"} /\ m.limit \in Int
      /\ stored \in Seq(Documents) /\ Len(stored) \in Nat
      /\ cursor \in [state : {"none", "open", "gone"}, pos : 0..Len(stored)] /\ cursor.pos \in 0..Len(stored)
  <2>1. m.op # "kill"
    BY DEF R!serveBatch
  <2>2. m.op \in {"query", "getMore"} /\ m.limit \in Int
    BY <2>1 DEF WireOps
  <2> QED BY <2>2, TypeFacts DEF TypeInv
<1>2. \/ lost /\ replies' = Append(replies, R!Reply(<<>>, FALSE, TRUE)) /\ UNCHANGED <<cursor, astray>>
      \/ ~lost /\ fails /\ R!Answer(<<R!ErrorDoc>>, 0, FALSE, FALSE)
      \/ ~lost /\ ~fails /\ \E n \in 0..most, open \in BOOLEAN : End1(n, open)
  BY ZenonT(60) DEF R!serveBatch, Final
<1>3. left \in Nat /\ most \in Nat /\ most <= left /\ (m.limit # 0 => most <= R!LimitOf(m.limit) /\ (most = left \/ most = R!LimitOf(m.limit)))
  <2>1. left \in Nat
    BY <1>1
  <2>2. R!LimitOf(m.limit) \in Nat
    BY <1>1 DEF R!LimitOf
  <2> HIDE DEF left
  <2> QED BY <2>1, <2>2
<1>4. (fails => Failing) /\ (Failing => fails)
  BY DEF Failing
<1>5. CASE lost /\ replies' = Append(replies, R!Reply(<<>>, FALSE, TRUE)) /\ UNCHANGED <<cursor, astray>>
  <2> DEFINE y == R!Reply(<<>>, FALSE, TRUE)
  <2> DEFINE none == <<>>
  <2>1. none \in Seq(Int) /\ Len(none) = 0 /\ DOMAIN none = {} /\ y = R!Reply(none, FALSE, TRUE)
    OBVIOUS
  <2> HIDE DEF none, y
  <2>6. y \in Replies /\ Whole(y) /\ y.notFound /\ y.docs = none /\ y.cursorId = 0
    BY <2>1, ReplyTyped
  <2>2. y \in Replies /\ Whole(y) /\ y.notFound /\ y.docs = <<>> /\ y.cursorId = 0 /\ Len(y.docs) = 0 /\ DOMAIN y.docs = {}
    BY <2>1, <2>6 DEF none
  <2> HIDE DEF y
  <2>3. ~Failing
    BY <1>4, <1>5
  <2>4. m.limit # 0 => 0 <= R!LimitOf(m.limit)
    BY <1>1 DEF R!LimitOf
  <2>5. Serves(m, y)
    BY <1>1, <1>5, <2>2, <2>3, <2>4 DEF Serves
  <2>7. Measured(y)
    BY <1>5, <2>2 DEF Measured
  <2> QED BY <1>5, <2>5, <2>7 DEF y
<1>6. CASE ~lost /\ fails /\ R!Answer(<<R!ErrorDoc>>, 0, FALSE, FALSE)
  <2> DEFINE y == R!Reply(<<R!ErrorDoc>>, FALSE, FALSE)
  <2>0. <<R!ErrorDoc>> \in Seq(Int) /\ Len(<<R!ErrorDoc>>) = 1
    BY DEF R!ErrorDoc
  <2>1. y = [docs |-> <<R!ErrorDoc>>, total |-> 1, cursorId |-> 0, notFound |-> FALSE]
    BY <2>0 DEF R!Reply
  <2>2. y \in Replies /\ Whole(y) /\ y.notFound = FALSE /\ y.cursorId = 0
    BY <2>0, ReplyTyped
  <2>3. Failing /\ replies' = Append(replies, y) /\ cursor' = [state |-> "gone", pos |-> cursor.pos + 0]
    BY <1>4, <1>6 DEF R!Answer
  <2> HIDE DEF y
  <2>6. Measured(y)
    <3>1. IF Limited /\ cursor.pos + 0 > Limit THEN astray' = astray \union {"overrun"} ELSE UNCHANGED astray
      BY <1>6 DEF R!Answer, R!Strays, Limited, Limit
    <3>2. Limit \in Nat /\ cursor.pos \in Nat /\ cursor'.pos = cursor.pos + 0
      BY <2>3, TypeFacts
    <3> QED BY <3>1, <3>2 DEF Measured
  <2>4. cursor' \in [state : {"none", "open", "gone"}, pos : 0..Len(stored)] /\ cursor'.state = "gone" /\ cursor'.pos = cursor.pos
    BY <1>1, <2>3
  <2>5. Serves(m, y)
    BY <2>1, <2>2, <2>3, <2>4 DEF Serves
  <2> QED BY <2>3, <2>5, <2>6
<1>7. CASE ~lost /\ ~fails /\ \E n \in 0..most, open \in BOOLEAN : End1(n, open)
  <2>1. PICK n \in 0..most, open \in BOOLEAN : End1(n, open)
    BY <1>7
  <2> DEFINE docs == SubSeq(stored, cursor.pos + 1, cursor.pos + n)
             y == R!Reply(docs, open, FALSE)
  <2>2. /\ replies' = Append(replies, y)
        /\ cursor' = [state |-> IF open THEN "open" ELSE "gone", pos |-> cursor.pos + n]
    BY <2>1 DEF R!Answer
  <2>3. /\ n \in Nat /\ n <= most /\ n <= left /\ cursor.pos + n \in 0..Len(stored)
    BY <1>1, <1>3
  <2>4. docs \in Seq(Int) /\ Len(docs) = n /\ DOMAIN docs = 1..n /\ \A i \in 1..n : docs[i] = stored[cursor.pos + i]
    <3> DEFINE a == cursor.pos + 1
               b == cursor.pos + n
    <3>1. a \in Int /\ b \in Int /\ a >= 1 /\ b <= Len(stored) /\ b - a + 1 = n /\ stored \in Seq(Int)
      BY <1>1, <2>3 DEF Documents
    <3>2. \A i \in 1..n : a + i - 1 = cursor.pos + i
      BY <1>1
    <3> HIDE DEF a, b
    <3>3. SubSeq(stored, a, b) \in Seq(Int) /\ Len(SubSeq(stored, a, b)) = n /\ \A i \in 1..n : SubSeq(stored, a, b)[i] = stored[a + i - 1]
      BY <1>1, <2>3, <3>1
    <3>4. docs = SubSeq(stored, a, b)
      BY DEF a, b
    <3> HIDE DEF docs
    <3> QED BY <2>3, <3>2, <3>3, <3>4
  <2> HIDE DEF docs
  <2>6. y \in Replies /\ Whole(y) /\ y.notFound = FALSE /\ y.docs = docs /\ y.cursorId = (IF open THEN 1 ELSE 0)
    BY <2>4, ReplyTyped
  <2> HIDE DEF y
  <2>7. /\ cursor' \in [state : {"none", "open", "gone"}, pos : 0..Len(stored)]
        /\ cursor'.pos = cursor.pos + n /\ cursor'.state = IF open THEN "open" ELSE "gone"
    BY <2>2, <2>3
  <2>8. ~Failing
    BY <1>4, <1>7
  <2>9. ~open => cursor.pos + n = Len(stored) \/ (Final(m) /\ n = R!LimitOf(m.limit))
    <3> SUFFICES ASSUME ~open PROVE n = left \/ (Final(m) /\ n = R!LimitOf(m.limit))
      BY <1>1, <2>3
    <3>1. Final(m) => n = most /\ m.limit # 0
      BY <1>1, <2>1 DEF Final
    <3>2. query.kind = "tail" => n = 0 /\ left = 0
      BY <2>1, <2>3
    <3>3. query.kind # "tail" /\ ~Final(m) => ~(n < left)
      BY <2>1
    <3> HIDE DEF left, most, End1
    <3>4. CASE Final(m)
      BY <1>3, <3>1, <3>4
    <3>5. CASE ~Final(m)
      BY <1>3, <2>3, <3>2, <3>3, <3>5
    <3> QED BY <3>4, <3>5
  <2>10. m.limit # 0 => n <= R!LimitOf(m.limit)
    <3>1. R!LimitOf(m.limit) \in Nat
      BY <1>1 DEF R!LimitOf
    <3> HIDE DEF most, left
    <3> QED BY <1>3, <2>3, <3>1
  <2>11. m.op = "query" /\ m.limit < 0 => ~open
    BY <2>1 DEF Final
  <2>12. m.op = "getMore" => cursor.state = "open"
    BY <1>7
  <2>13. Serves(m, y)
    BY <1>1, <2>4, <2>6, <2>7, <2>8, <2>9, <2>10, <2>11, <2>12 DEF Serves
  <2>14. Measured(y)
    <3>1. IF Limited /\ cursor.pos + n > Limit THEN astray' = astray \union {"overrun"} ELSE UNCHANGED astray
      BY <2>1 DEF R!Answer, R!Strays, Limited, Limit
    <3>2. Limit \in Nat /\ cursor.pos \in Nat
      BY TypeFacts
    <3> QED BY <2>3, <2>7, <3>1, <3>2 DEF Measured
  <2> QED BY <2>2, <2>13, <2>14
<1> QED BY <1>2, <1>5, <1>6, <1>7

(* The server answers a query or a request for more.                       *)
LEMMA serveBatchKeeps ==
    ASSUME IterInv, InUse, R!serveBatch, R!Regular'
    PROVE  IterInv'
<1> DEFINE m == wire[1]
<1> USE DEF IterInv
<1>1. /\ wire # <<>> /\ Head(wire).op # "kill" /\ wire' = Tail(wire)
      /\ UNCHANGED <<query, stored, iter, app, returned, closed, ended, faults, panic, reading>> /\ reading
  <2>1. wire' = Tail(wire)
    BY Zenon DEF R!serveBatch, R!Answer
  <2> QED BY <2>1 DEF R!serveBatch, InUse
<1>2. /\ Head(wire) = m /\ m \in WireOps /\ 1 \in DOMAIN wire /\ Requests = {1} /\ Pending /\ Fetchers = {} /\ ~Answered
      /\ wire' \in Seq(WireOps) /\ \A i \in DOMAIN wire' : wire'[i].op = "kill"
      /\ (\E i \in DOMAIN wire' : wire'[i].op = "kill") <=> (\E i \in DOMAIN wire : wire[i].op = "kill")
  BY <1>1, RequestTaken
<1>3. Opened /\ Opened' /\ Fetchers' = {} /\ Requests' = {} /\ (KillPending' <=> KillPending)
  <2>1. Opened
    BY <1>1 DEF StageInv
  <2>2. Opened' /\ Fetchers' = Fetchers
    BY <1>1, <2>1 DEF Opened, Fetchers
  <2>3. Requests' = {}
    BY <1>2 DEF Requests
  <2>4. KillPending' <=> KillPending
    BY <1>1, <1>2 DEF KillPending
  <2> QED BY <1>2, <2>1, <2>2, <2>3, <2>4
<1>4. m.op = "query" =>
        /\ m.limit = R!OpLimit /\ iter.opLimit = R!OpLimit
        /\ query.kind \in {"find", "tail"}
        /\ replies = <<>> /\ cursor = [state |-> "none", pos |-> 0] /\ Waiting
  <2> SUFFICES ASSUME m.op = "query"
               PROVE  /\ m.limit = R!OpLimit /\ iter.opLimit = R!OpLimit
                      /\ query.kind \in {"find", "tail"}
                      /\ replies = <<>> /\ cursor = [state |-> "none", pos |-> 0] /\ Waiting
    OBVIOUS
  <2>1. /\ wire = << [op |-> "query", limit |-> R!OpLimit] >> /\ iter.opLimit = R!OpLimit
        /\ query.kind \in {"find", "tail"}
        /\ replies = <<>> /\ cursor = [state |-> "none", pos |-> 0] /\ Waiting
    BY <1>2 DEF QueryInv
  <2>2. m.limit = R!OpLimit
    BY <2>1
  <2> HIDE DEF m
  <2> QED BY <2>1, <2>2
<1>5. Failing => m.op = "query"
  BY <1>2, <1>3 DEF FailInv
<1>6. PICK y : replies' = Append(replies, y) /\ Serves(m, y) /\ Measured(y)
  BY <1>2, <1>4, <1>5, ServeFacts
<1>25. UNCHANGED astray /\ (~Limited \/ y.docs = <<>> \/ cursor'.pos <= Limit)
  BY <1>6 DEF Measured, R!Regular
<1>26. Waiting' <=> Waiting
  BY <1>1, <1>25 DEF Waiting
<1> DEFINE n == Len(y.docs)
<1>7. y \in Replies /\ Whole(y) /\ (y.notFound => y.docs = <<>> /\ y.cursorId = 0) /\ y.docs \in Seq(Int) /\ n \in Nat
  <2>1. y \in Replies /\ Whole(y) /\ (y.notFound => y.docs = <<>> /\ y.cursorId = 0)
    BY <1>6 DEF Serves
  <2> QED BY <2>1 DEF Replies
<1>8. /\ replies' \in Seq(Replies) /\ ReplyInv' /\ Answered' /\ (HeadPartial' <=> HeadPartial)
      /\ PartialLen' = PartialLen /\ AnswerLen' = n /\ replies'[Len(replies')] = y
      /\ replies = <<>> => replies' = <<y>>
      /\ HeadPartial => replies'[1] = replies[1]
      /\ \A i \in DOMAIN replies' : \/ i \in DOMAIN replies /\ replies'[i] = replies[i] /\ ~Whole(replies[i])
                                    \/ replies'[i] = y
  BY <1>2, <1>6, <1>7, ReplyComes
<1>9. /\ cursor' \in [state : {"none", "open", "gone"}, pos : 0..Len(stored)]
      /\ ~Failing =>
           /\ cursor'.pos = cursor.pos + n
           /\ \A i \in DOMAIN y.docs : y.docs[i] = stored[cursor.pos + i]
           /\ m.limit # 0 => n <= R!LimitOf(m.limit)
           /\ y.cursorId = 0 /\ ~y.notFound =>
                /\ cursor'.state = "gone"
                /\ cursor'.pos = Len(stored) \/ (Final(m) /\ n = R!LimitOf(m.limit))
      /\ Failing => /\ y = [docs |-> <<R!ErrorDoc>>, total |-> 1, cursorId |-> 0, notFound |-> FALSE]
                    /\ cursor'.state # "open"
      /\ cursor'.state = "open" => (m.op = "query" /\ y.cursorId = 1) \/ (m.op = "getMore" /\ cursor.state = "open")
      /\ m.op = "query" /\ m.limit < 0 => y.cursorId = 0 /\ cursor'.state # "open"
  BY <1>6 DEF Serves
<1> HIDE DEF m, n
<1>10. /\ Limit' = Limit /\ (Limited' <=> Limited) /\ (Failing' <=> Failing) /\ (R!Overasked' <=> R!Overasked) /\ Pending'
       /\ Received' = Received /\ Base' = Base /\ End' = Base + n /\ End = Base
       /\ Base \in Nat /\ Limit \in Nat /\ cursor.pos \in Nat
  <2>1. Limit' = Limit /\ (Limited' <=> Limited) /\ (Failing' <=> Failing) /\ (R!Overasked' <=> R!Overasked)
    BY <1>1, SameQuery
  <2>2. Received' = Received /\ Base' = Base
    BY <1>1, <1>8 DEF Received, Base
  <2>3. AnswerLen = 0
    BY <1>2 DEF AnswerLen
  <2>4. Base \in Nat /\ Limit \in Nat /\ cursor.pos \in Nat
    BY TypeFacts
  <2>5. End' = Base' + AnswerLen' /\ End = Base + AnswerLen
    BY DEF End
  <2>6. End' = Base + n /\ End = Base
    BY <1>8, <2>2, <2>3, <2>4, <2>5
  <2> QED BY <1>8, <2>1, <2>2, <2>4, <2>6 DEF Pending
<1>11. iter.err = "nil" \/ closed
  BY <1>2 DEF ErrInv
<1>12. iter.err # "notFound" /\ ended # "exhausted"
  BY <1>2 DEF ErrInv
<1>13. \A i \in DOMAIN wire' : wire'[i].op \notin {"query", "getMore"}
  BY <1>2
<1>14. m.op \in {"query", "getMore"} /\ m.limit \in Int
  <2>1. m.op # "kill"
    BY <1>1, <1>2
  <2> QED BY <1>2, <2>1 DEF WireOps
<1>15. TypeInv'
  BY <1>1, <1>2, <1>8, <1>9, <1>25 DEF TypeInv
<1>16. StageInv'
  BY <1>1, <1>3, StageAfter
<1>17. OneRequest' /\ QueryInv'
  BY <1>3, <1>13 DEF OneRequest, QueryInv
<1>18. CountInv' /\ FetchInv'
  BY <1>1, <1>2, <1>3, <1>8, <1>10 DEF CountInv, FetchInv, Fetchers
<1>19. ErrInv'
  BY <1>1, <1>2, <1>10, <1>11, <1>12 DEF ErrInv
<1>20. ContentInv'
  <2> SUFFICES ASSUME ~Failing PROVE ContentInv'
    BY <1>10 DEF ContentInv
  <2>1. /\ cursor.pos = Base
        /\ \A i \in 1..Len(returned) : returned[i] = stored[i]
        /\ \A i \in 1..iter.docData.nelems : Item(iter.docData, i) = stored[Len(returned) + i]
        /\ HeadPartial => \A i \in DOMAIN replies[1].docs : replies[1].docs[i] = stored[Received + i]
    BY <1>2, <1>10 DEF ContentInv
  <2>2. cursor'.pos = End' /\ \A i \in DOMAIN y.docs : y.docs[i] = stored[Base + i]
    BY <1>9, <1>10, <2>1
  <2>3. End' <= cursor'.pos
    BY <1>7, <1>10, <2>2
  <2> QED BY <1>1, <1>8, <1>10, <2>1, <2>2, <2>3 DEF ContentInv
<1>21. LimitInv'
  <2>1. CASE ~Limited
    BY <1>1, <1>10, <2>1 DEF LimitInv
  <2>2. CASE Failing
    BY <1>1, <1>10, <2>2 DEF LimitInv
  <2>3. CASE Limited /\ ~Failing
    <3>1. /\ iter.limit = Limit - Len(returned) /\ Base <= Limit /\ Base < Limit
          /\ iter.err # "nil" /\ ~closed => iter.limit = 0 \/ Base < Limit
          /\ iter.err = "nil" => iter.limit > 0
          /\ iter.opLimit # 0
          /\ iter.opLimit < 0 =>
               /\ iter.cursorId = 0
               /\ \A i \in DOMAIN replies : replies[i].cursorId = 0
               /\ m.op # "getMore"
      BY <1>2, <1>3, <2>3 DEF LimitInv, m
    <3>3. End' <= Limit'
      <4>1. CASE y.docs = <<>>
        <5>1. n = 0
          BY <4>1 DEF n
        <5> QED BY <1>10, <3>1, <5>1
      <4>2. CASE cursor'.pos <= Limit
        <5>1. cursor.pos = Base
          BY <1>2, <1>10, <2>3 DEF ContentInv
        <5> QED BY <1>7, <1>9, <1>10, <2>3, <4>2, <5>1
      <4> QED BY <1>25, <2>3, <4>1, <4>2
    <3>4. iter.opLimit < 0 => y.cursorId = 0 /\ cursor'.state # "open"
      BY <1>4, <1>9, <1>14, <3>1
    <3>5. /\ Limited' /\ iter'.limit = Limit' - Len(returned') /\ Base' <= Limit' /\ Base' < Limit'
          /\ iter'.err # "nil" /\ ~closed' => iter'.limit = 0 \/ Base' < Limit'
          /\ iter'.err = "nil" => iter'.limit > 0
          /\ iter'.opLimit # 0
          /\ iter'.opLimit < 0 =>
               /\ iter'.cursorId = 0 /\ cursor'.state # "open"
               /\ \A i \in DOMAIN replies' : replies'[i].cursorId = 0
      BY <1>1, <1>8, <1>10, <2>3, <3>1, <3>4
    <3> QED BY <1>3, <1>13, <3>3, <3>5 DEF LimitInv
  <2> QED BY <2>1, <2>2, <2>3
<1>22. EndInv'
  <2> SUFFICES ASSUME ~Failing PROVE EndInv'
    BY <1>10 DEF EndInv
  <2>1. Final(m) /\ cursor'.pos = cursor.pos + n /\ n = R!LimitOf(m.limit) => Limited /\ cursor'.pos = Limit
    <3> SUFFICES ASSUME Final(m), cursor'.pos = cursor.pos + n, n = R!LimitOf(m.limit)
                 PROVE  Limited /\ cursor'.pos = Limit
      OBVIOUS
    <3>1. m.limit = R!OpLimit /\ cursor.pos = 0 /\ (R!OpLimit < 0 \/ R!OpLimit = 1)
      BY <1>4 DEF Final
    <3>2. query.batch \in Nat /\ query.limit \in Int
      BY QueriesAssumption DEF TypeInv
    <3> DEFINE b == query.batch
               q == query.limit
    <3>3. b \in Nat /\ q \in Int
      BY <3>2
    <3> HIDE DEF b, q
    <3>4. R!OpLimit = IF b # 0 THEN (IF b = 1 THEN 2 ELSE b) ELSE (IF q = 1 THEN -1 ELSE q)
      BY DEF R!OpLimit, R!BatchOf, R!OpLimitOf, b, q
    <3>5. b = 0 /\ q # 0 /\ (R!OpLimit = q \/ (q = 1 /\ R!OpLimit = -1))
      BY <3>1, <3>3, <3>4
    <3>6. R!LimitOf(R!OpLimit) = R!LimitOf(q) /\ R!LimitOf(q) \in Nat
      BY <3>3, <3>5 DEF R!LimitOf
    <3>7. Limited /\ Limit = R!LimitOf(q)
      BY <3>5 DEF Limited, Limit, q
    <3> QED BY <3>1, <3>6, <3>7
  <2>2. y.cursorId = 0 /\ ~y.notFound => cursor'.state = "gone" /\ Complete(cursor.pos)'
    BY <1>1, <1>9, <1>10, <2>1 DEF Complete
  <2> QED BY <1>1, <1>8, <1>10, <1>12, <2>2 DEF EndInv
<1>23. FailInv'
  <2> SUFFICES ASSUME Failing PROVE FailInv'
    BY <1>10 DEF FailInv
  <2>1. /\ returned = <<>> /\ iter.cursorId = 0
        /\ \A c \in Callers : app[c].pc \notin {"kill", "limitKill", "limitClose"}
        /\ iter.err = "nil" => iter.limit = Limit
    BY <1>3 DEF FailInv
  <2>2. iter.docData.nelems = 0 /\ iter.err = "nil" /\ replies' = << [docs |-> <<R!ErrorDoc>>, total |-> 1, cursorId |-> 0, notFound |-> FALSE] >>
    BY <1>4, <1>5, <1>8, <1>9 DEF Waiting
  <2> QED BY <1>1, <1>3, <1>9, <1>10, <2>1, <2>2 DEF FailInv
<1>24. ReleaseInv'
  <2> SUFFICES ASSUME panic = "none", faults = query.faults, cursor'.state = "open", ~KillPending, "early" \notin astray
               PROVE  FirstUnread' \/ (iter.cursorId = 1 /\ \E c \in Callers : app[c].pc # "done")
    BY <1>1, <1>3, <1>25 DEF ReleaseInv
  <2>1. CASE m.op = "query" /\ y.cursorId = 1
    <3>1. Waiting' /\ ~HeadPartial' /\ Answered' /\ replies'[Len(replies')].cursorId = 1
      BY <1>26, <1>4, <1>8, <2>1 DEF HeadPartial
    <3> QED BY <3>1 DEF FirstUnread
  <2>2. CASE m.op = "getMore" /\ cursor.state = "open"
    BY <1>2, <2>2 DEF ReleaseInv, FirstUnread
  <2> QED BY <1>9, <2>1, <2>2
<1> QED BY <1>8, <1>15, <1>16, <1>17, <1>18, <1>19, <1>20, <1>21, <1>22, <1>23, <1>24

(* A kill is taken out of what is on its way: the other requests stay, in  *)
(* their order.                                                            *)
LEMMA RemovedFacts ==
    ASSUME TypeInv, NEW i \in DOMAIN wire, wire' = R!RemoveAt(wire, i)
    PROVE  /\ wire' \in Seq(WireOps) /\ DOMAIN wire' = 1..(Len(wire) - 1)
           /\ \A j \in DOMAIN wire' : LET k == IF j < i THEN j ELSE j + 1 IN k \in DOMAIN wire /\ k # i /\ wire'[j] = wire[k]
           /\ \A k \in DOMAIN wire : k # i => LET j == IF k < i THEN k ELSE k - 1 IN j \in DOMAIN wire' /\ wire'[j] = wire[k]
<1> DEFINE n == Len(wire)
           a == SubSeq(wire, 1, i - 1)
           b == SubSeq(wire, i + 1, n)
<1>0. wire \in Seq(WireOps)
  BY DEF TypeInv
<1>1. n \in Nat /\ i \in 1..n /\ DOMAIN wire = 1..n
  BY <1>0
<1>2. a \in Seq(WireOps) /\ Len(a) = i - 1 /\ \A j \in 1..(i - 1) : a[j] = wire[j]
  BY <1>0, <1>1
<1>3. b \in Seq(WireOps) /\ Len(b) = n - i /\ \A j \in 1..(n - i) : b[j] = wire[i + j]
  <2> DEFINE lo == i + 1
             l == n - i
  <2>1. lo \in Int /\ lo >= 1 /\ l \in Nat /\ n - lo + 1 = l
    BY <1>1
  <2>2. \A j \in 1..l : lo + j - 1 = i + j
    BY <1>1
  <2> HIDE DEF lo, l, n
  <2>3. n = Len(wire)
    BY DEF n
  <2>4. SubSeq(wire, lo, n) \in Seq(WireOps) /\ Len(SubSeq(wire, lo, n)) = l /\ \A j \in 1..l : SubSeq(wire, lo, n)[j] = wire[lo + j - 1]
    BY <1>0, <1>1, <2>1, <2>3
  <2>5. b = SubSeq(wire, lo, n)
    BY DEF lo
  <2> HIDE DEF b
  <2>6. b \in Seq(WireOps) /\ Len(b) = l /\ \A j \in 1..l : b[j] = wire[i + j]
    BY <2>2, <2>4, <2>5
  <2> QED BY <2>6 DEF l
<1> HIDE DEF a, b
<1>4. wire' = a \o b
  BY DEF a, b, n, R!RemoveAt
<1> HIDE DEF n
<1>5. /\ wire' \in Seq(WireOps) /\ Len(wire') = n - 1
      /\ \A j \in 1..(n - 1) : wire'[j] = IF j <= i - 1 THEN a[j] ELSE b[j - (i - 1)]
  <2>1. /\ a \o b \in Seq(WireOps) /\ Len(a \o b) = Len(a) + Len(b)
        /\ \A j \in 1..(Len(a) + Len(b)) : (a \o b)[j] = IF j <= Len(a) THEN a[j] ELSE b[j - Len(a)]
    <3>1. a \in Seq(WireOps) /\ b \in Seq(WireOps)
      BY <1>2, <1>3
    <3> QED BY <3>1
  <2>2. Len(a) + Len(b) = n - 1
    BY <1>1, <1>2, <1>3
  <2> QED BY <1>2, <1>4, <2>1, <2>2
<1>6. DOMAIN wire' = 1..(n - 1)
  BY <1>1, <1>5
<1>7. \A j \in 1..(n - 1) : wire'[j] = IF j < i THEN wire[j] ELSE wire[j + 1]
  <2> SUFFICES ASSUME NEW j \in 1..(n - 1) PROVE wire'[j] = IF j < i THEN wire[j] ELSE wire[j + 1]
    OBVIOUS
  <2>1. CASE j < i
    BY <1>1, <1>2, <1>5, <2>1
  <2>2. CASE ~(j < i)
    <3> DEFINE k == j - (i - 1)
    <3>1. k \in 1..(n - i) /\ i + k = j + 1 /\ ~(j <= i - 1)
      BY <1>1, <2>2
    <3>2. wire'[j] = b[k]
      BY <1>5, <3>1
    <3> HIDE DEF k
    <3> QED BY <1>3, <2>2, <3>1, <3>2
  <2> QED BY <2>1, <2>2
<1>8. ASSUME NEW j \in 1..(n - 1)
      PROVE  LET k == IF j < i THEN j ELSE j + 1 IN k \in 1..n /\ k # i /\ wire'[j] = wire[k]
  <2>1. CASE j < i
    BY <1>1, <1>7, <2>1
  <2>2. CASE ~(j < i)
    BY <1>1, <1>7, <2>2
  <2> QED BY <2>1, <2>2
<1>9. ASSUME NEW k \in 1..n, k # i
      PROVE  LET j == IF k < i THEN k ELSE k - 1 IN j \in 1..(n - 1) /\ wire'[j] = wire[k]
  <2>1. CASE k < i
    BY <1>1, <1>7, <1>9, <2>1
  <2>2. CASE ~(k < i)
    <3> DEFINE j == k - 1
    <3>1. j \in 1..(n - 1) /\ ~(j < i) /\ j + 1 = k
      BY <1>1, <1>9, <2>2
    <3> HIDE DEF j
    <3>2. wire'[j] = wire[k]
      BY <1>7, <3>1
    <3> QED BY <2>2, <3>1, <3>2 DEF j
  <2> QED BY <2>1, <2>2
<1> QED BY <1>1, <1>5, <1>6, <1>8, <1>9 DEF n

(* The server kills the cursor, perhaps before requests that were sent     *)
(* earlier.                                                                *)
LEMMA serveKillKeeps ==
    ASSUME IterInv, InUse, R!serveKill
    PROVE  IterInv'
<1> USE DEF IterInv
<1>1. PICK i \in DOMAIN wire : wire[i].op = "kill" /\ wire' = R!RemoveAt(wire, i)
  BY DEF R!serveKill
<1>2. /\ cursor' = [cursor EXCEPT !.state = "gone"]
      /\ UNCHANGED <<query, stored, iter, app, replies, returned, closed, ended, faults, panic, astray, reading>> /\ reading
  BY DEF R!serveKill, InUse
<1>3. /\ wire' \in Seq(WireOps)
      /\ \A j \in DOMAIN wire' : LET k == IF j < i THEN j ELSE j + 1 IN k \in DOMAIN wire /\ k # i /\ wire'[j] = wire[k]
      /\ \A k \in DOMAIN wire : k # i => LET j == IF k < i THEN k ELSE k - 1 IN j \in DOMAIN wire' /\ wire'[j] = wire[k]
  BY <1>1, RemovedFacts
<1>4. \A j \in DOMAIN wire' : \E k \in DOMAIN wire : wire'[j] = wire[k]
  BY <1>3
<1>5. /\ \A j \in Requests' : \E k \in Requests : wire'[j] = wire[k] /\ k = IF j < i THEN j ELSE j + 1
      /\ Requests # {} => Requests' # {}
  BY <1>1, <1>3 DEF Requests
<1>6. \A j, k \in Requests' : j = k
  <2>1. \A j \in Requests' : j \in Nat
    BY <1>3 DEF Requests
  <2>2. i \in Nat /\ \A j, k \in Requests : j = k
    BY DEF TypeInv, OneRequest
  <2> QED BY <1>5, <2>1, <2>2
<1>7. /\ \A j \in DOMAIN wire : wire[j].op # "query"
      /\ \A j \in DOMAIN wire' : wire'[j].op # "query"
  <2>1. \A j \in DOMAIN wire : wire[j].op # "query"
    <3> SUFFICES ASSUME NEW j \in DOMAIN wire, wire[j].op = "query" PROVE FALSE
      OBVIOUS
    <3>1. wire = << [op |-> "query", limit |-> R!OpLimit] >>
      BY DEF QueryInv
    <3>2. i = 1
      BY <3>1
    <3> QED BY <1>1, <3>1, <3>2
  <2> QED BY <1>4, <2>1
<1>8. Opened /\ Opened' /\ Fetchers' = Fetchers /\ (Requests' = {} <=> Requests = {})
  <2>1. Opened
    BY <1>1 DEF StageInv
  <2> QED BY <1>2, <1>5, <2>1 DEF Opened, Fetchers
<1>9. /\ (HeadPartial' <=> HeadPartial) /\ (Answered' <=> Answered) /\ PartialLen' = PartialLen /\ AnswerLen' = AnswerLen
      /\ Limit' = Limit /\ (Limited' <=> Limited) /\ (Failing' <=> Failing) /\ (R!Overasked' <=> R!Overasked)
  BY <1>2, SameReplies, SameQuery
<1>10. (Pending' <=> Pending) /\ Received' = Received /\ Base' = Base /\ End' = End
  BY <1>2, <1>8, <1>9 DEF Pending, Received, Base, End
<1>11. cursor' \in [state : {"none", "open", "gone"}, pos : 0..Len(stored)] /\ cursor'.state = "gone" /\ cursor'.pos = cursor.pos
  <2>1. cursor \in [state : {"none", "open", "gone"}, pos : 0..Len(stored)]
    BY DEF TypeInv
  <2> QED BY <1>2, <2>1
<1>12. TypeInv'
  BY <1>2, <1>3, <1>11 DEF TypeInv
<1>13. StageInv'
  BY <1>2, <1>8, StageAfter
<1>14. ReplyInv' /\ OneRequest'
  BY <1>2, <1>6, <1>8, <1>9 DEF ReplyInv, OneRequest
<1>15. QueryInv'
  BY <1>7 DEF QueryInv
<1>16. CountInv' /\ FetchInv'
  BY <1>2, <1>9, <1>10 DEF CountInv, FetchInv
<1>17. ErrInv'
  BY <1>2, <1>10 DEF ErrInv
<1>18. ContentInv'
  BY <1>2, <1>9, <1>10, <1>11 DEF ContentInv
<1>19. LimitInv'
  <2>1. CASE ~Limited
    BY <1>2, <1>9, <2>1 DEF LimitInv
  <2>2. CASE Failing
    BY <1>2, <1>9, <2>2 DEF LimitInv
  <2>3. CASE Limited /\ ~Failing
    <3>1. /\ iter.limit = Limit - Len(returned) /\ Base <= Limit
          /\ Pending \/ iter.docsBeforeMore >= 0 => Base < Limit
          /\ End <= Limit
          /\ iter.err # "nil" /\ ~closed => iter.limit = 0 \/ Base < Limit
          /\ iter.err = "nil" => iter.limit > 0
          /\ iter.opLimit # 0
          /\ iter.opLimit < 0 =>
              /\ iter.cursorId = 0 /\ Fetchers = {}
              /\ \A j \in DOMAIN replies : replies[j].cursorId = 0
      BY <1>8, <2>3 DEF LimitInv
    <3>2. /\ \A j \in Requests' : wire'[j].limit # 0
          /\ \A j \in Requests' : wire'[j].op = "getMore" \/ ~R!Overasked => Base + R!LimitOf(wire'[j].limit) <= Limit
      <4>1. /\ \A j \in Requests : wire[j].limit # 0
            /\ \A j \in Requests : wire[j].op = "getMore" \/ ~R!Overasked => Base + R!LimitOf(wire[j].limit) <= Limit
        BY <1>8, <2>3 DEF LimitInv
      <4> QED BY <1>5, <4>1
    <3>3. iter.opLimit < 0 => \A j \in DOMAIN wire' : wire'[j].op # "getMore"
      <4>1. iter.opLimit < 0 => \A j \in DOMAIN wire : wire[j].op # "getMore"
        BY <1>8, <2>3 DEF LimitInv
      <4> QED BY <1>4, <4>1
    <3>4. cursor'.state # "open"
      BY <1>11
    <3>5. /\ Limited' /\ iter'.limit = Limit' - Len(returned') /\ Base' <= Limit'
          /\ Pending' \/ iter'.docsBeforeMore >= 0 => Base' < Limit'
          /\ End' <= Limit'
          /\ iter'.err # "nil" /\ ~closed' => iter'.limit = 0 \/ Base' < Limit'
          /\ iter'.err = "nil" => iter'.limit > 0
          /\ iter'.opLimit # 0
          /\ iter'.opLimit < 0 =>
              /\ iter'.cursorId = 0 /\ Fetchers' = {}
              /\ \A j \in DOMAIN replies' : replies'[j].cursorId = 0
      BY <1>2, <1>8, <1>9, <1>10, <2>3, <3>1
    <3>6. /\ \A j \in Requests' : wire'[j].limit # 0
          /\ \A j \in Requests' : wire'[j].op = "getMore" \/ ~R!Overasked' => Base' + R!LimitOf(wire'[j].limit) <= Limit'
          /\ iter'.opLimit < 0 => \A j \in DOMAIN wire' : wire'[j].op # "getMore"
      BY <1>2, <1>9, <1>10, <3>2, <3>3
    <3> QED BY <3>4, <3>5, <3>6 DEF LimitInv
  <2> QED BY <2>1, <2>2, <2>3
<1>20. EndInv'
  BY <1>2, <1>8, <1>9, <1>10, <1>11 DEF EndInv, Complete
<1>21. FailInv'
  <2> SUFFICES ASSUME Failing PROVE FailInv'
    BY <1>9 DEF FailInv
  <2>1. Requests = {} /\ Requests' = {}
    BY <1>7, <1>8 DEF FailInv, Requests
  <2> QED BY <1>2, <1>8, <1>9, <1>11, <2>1 DEF FailInv
<1>22. ReleaseInv'
  BY <1>11 DEF ReleaseInv
<1> QED BY <1>12, <1>13, <1>14, <1>15, <1>16, <1>17, <1>18, <1>19, <1>20, <1>21, <1>22

-----------------------------------------------------------------------------
(* What others do to the collection and to the cursor.                     *)

(* A document that is added comes last, and the order stays strict.        *)
LEMMA GrowFacts ==
    ASSUME TypeInv, R!Grow
    PROVE  /\ stored' \in Seq(Documents) /\ \A i, j \in DOMAIN stored' : i < j => stored'[i] < stored'[j]
           /\ Len(stored') = Len(stored) + 1 /\ \A i \in 1..Len(stored) : stored'[i] = stored[i]
<1> DEFINE n == Len(stored)
           d == IF stored = <<>> THEN 1 ELSE R!Last(stored) + 1
<1>1. /\ stored \in Seq(Documents) /\ n \in Nat /\ DOMAIN stored = 1..n
      /\ \A i, j \in 1..n : i < j => stored[i] < stored[j]
      /\ \A i \in 1..n : stored[i] \in Nat \ {0}
  BY SMTT(40) DEF TypeInv, Documents
<1>2. d \in Documents /\ \A i \in 1..n : stored[i] < d
  <2>1. CASE stored = <<>>
    BY <1>1, <2>1 DEF Documents
  <2>2. CASE stored # <<>>
    <3>1. n > 0 /\ R!Last(stored) = stored[n]
      BY <1>1, <2>2 DEF R!Last
    <3>2. d = stored[n] + 1
      BY <2>2, <3>1
    <3> HIDE DEF d, n
    <3>3. \A i \in 1..n : i = n \/ i < n
      BY <1>1
    <3>4. n \in 1..n
      BY <1>1, <3>1
    <3>5. \A i \in 1..n : stored[i] <= stored[n]
      BY <1>1, <3>3, <3>4
    <3> QED BY <1>1, <3>2, <3>4, <3>5 DEF Documents
  <2> QED BY <2>1, <2>2
<1>3. stored' = Append(stored, d)
  BY DEF R!Grow
<1> HIDE DEF d
<1>4. /\ stored' \in Seq(Documents) /\ Len(stored') = n + 1 /\ DOMAIN stored' = 1..(n + 1)
      /\ \A i \in 1..n : stored'[i] = stored[i]
      /\ stored'[n + 1] = d
  BY <1>1, <1>2, <1>3
<1> HIDE DEF n
<1>5. ASSUME NEW i \in 1..(n + 1), NEW j \in 1..(n + 1), i < j PROVE stored'[i] < stored'[j]
  <2>1. i \in 1..n /\ (j = n + 1 \/ j \in 1..n)
    BY <1>1, <1>5
  <2> QED BY <1>1, <1>2, <1>4, <1>5, <2>1
<1> QED BY <1>4, <1>5 DEF n

(* A document is added for a tailable cursor.                              *)
LEMMA GrowKeeps ==
    ASSUME IterInv, InUse, R!Grow
    PROVE  IterInv'
<1> USE DEF IterInv
<1>1. /\ query.kind = "tail" /\ cursor.state # "gone"
      /\ UNCHANGED <<query, iter, app, wire, replies, cursor, returned, closed, ended, faults, panic, astray, reading>> /\ reading
  BY DEF R!Grow, InUse
<1>2. /\ stored' \in Seq(Documents) /\ \A i, j \in DOMAIN stored' : i < j => stored'[i] < stored'[j]
      /\ Len(stored') = Len(stored) + 1 /\ \A i \in 1..Len(stored) : stored'[i] = stored[i]
  BY GrowFacts
<1>3. ~Limited
  BY <1>1, TypeFacts
<1>4. /\ (HeadPartial' <=> HeadPartial) /\ (Answered' <=> Answered) /\ PartialLen' = PartialLen /\ AnswerLen' = AnswerLen
      /\ Limit' = Limit /\ (Limited' <=> Limited) /\ (Failing' <=> Failing) /\ (R!Overasked' <=> R!Overasked) /\ Requests' = Requests
  BY <1>1, SameReplies, SameQuery, SameWire
<1>5. Fetchers' = Fetchers /\ (Opened' <=> Opened)
  BY <1>1 DEF Fetchers, Opened
<1>6. (Pending' <=> Pending) /\ Received' = Received /\ Base' = Base /\ End' = End
  BY <1>1, <1>4, <1>5 DEF Pending, Received, Base, End
<1>7. TypeInv'
  <2>1. cursor' \in [state : {"none", "open", "gone"}, pos : 0..Len(stored')]
    <3>1. cursor \in [state : {"none", "open", "gone"}, pos : 0..Len(stored)] /\ Len(stored) \in Nat
      BY DEF TypeInv
    <3> QED BY <1>1, <1>2, <3>1
  <2> QED BY <1>1, <1>2, <2>1 DEF TypeInv
<1>8. StageInv'
  BY <1>1, <1>5 DEF StageInv
<1>9. ReplyInv' /\ OneRequest'
  BY <1>1, <1>4, <1>5 DEF ReplyInv, OneRequest
<1>10. Waiting' <=> Waiting
  BY <1>1 DEF Waiting
<1>11. QueryInv'
  <2>1. R!OpLimit' = R!OpLimit
    BY <1>1 DEF R!OpLimit
  <2> QED BY <1>1, <1>5, <1>10, <2>1 DEF QueryInv
<1>12. CountInv' /\ FetchInv'
  BY <1>1, <1>4, <1>6 DEF CountInv, FetchInv
<1>13. ErrInv'
  BY <1>1, <1>6 DEF ErrInv
<1>14. ContentInv'
  <2> SUFFICES ASSUME ~Failing PROVE ContentInv'
    BY <1>4 DEF ContentInv
  <2> DEFINE r == Len(returned)
             k == iter.docData.nelems
  <2>1. /\ End <= cursor.pos /\ (Pending \/ iter.err = "nil" \/ replies # <<>> => cursor.pos = End)
        /\ \A i \in 1..r : returned[i] = stored[i]
        /\ \A i \in 1..k : Item(iter.docData, i) = stored[r + i]
        /\ HeadPartial => \A i \in DOMAIN replies[1].docs : replies[1].docs[i] = stored[Received + i]
        /\ Answered => LET x == replies[Len(replies)] IN \A i \in DOMAIN x.docs : x.docs[i] = stored[Base + i]
    BY DEF ContentInv
  <2>2. /\ r \in Nat /\ k \in Nat /\ PartialLen \in Nat /\ AnswerLen \in Nat /\ Received = r + k
        /\ Base = Received + PartialLen /\ End = Base + AnswerLen /\ cursor.pos \in Nat /\ cursor.pos <= Len(stored) /\ Len(stored) \in Nat
    BY TypeFacts, SMTT(40) DEF Base, End, Received
  <2>3. \A i \in 1..End : stored'[i] = stored[i]
    <3>0. End <= cursor.pos /\ End \in Nat
      BY <2>1, TypeFacts
    <3>1. End <= Len(stored) /\ End \in Nat
      BY <2>2, <3>0, SMTT(40)
    <3>2. \A i \in 1..End : i \in 1..Len(stored)
      BY <2>2, <3>1
    <3> QED BY <1>2, <3>2
  <2>4. HeadPartial => DOMAIN replies[1].docs = 1..PartialLen
    BY DEF TypeInv, HeadPartial, PartialLen, Replies
  <2>5. Answered => DOMAIN replies[Len(replies)].docs = 1..AnswerLen
    BY DEF TypeInv, Answered, AnswerLen, Replies
  <2> HIDE DEF r, k
  <2>6. /\ \A i \in 1..r : i \in 1..End
        /\ \A i \in 1..k : r + i \in 1..End
        /\ \A i \in 1..PartialLen : Received + i \in 1..End
        /\ \A i \in 1..AnswerLen : Base + i \in 1..End
    BY <2>2
  <2>7. /\ \A i \in 1..r : returned[i] = stored'[i]
        /\ \A i \in 1..k : Item(iter.docData, i) = stored'[r + i]
        /\ HeadPartial => \A i \in DOMAIN replies[1].docs : replies[1].docs[i] = stored'[Received + i]
        /\ Answered => LET x == replies[Len(replies)] IN \A i \in DOMAIN x.docs : x.docs[i] = stored'[Base + i]
    BY <2>1, <2>3, <2>4, <2>5, <2>6
  <2>8. r = Len(returned) /\ k = iter.docData.nelems
    BY DEF r, k
  <2> QED BY <1>1, <1>4, <1>6, <2>1, <2>7, <2>8 DEF ContentInv
<1>15. LimitInv'
  BY <1>1, <1>3, <1>4 DEF LimitInv
<1>16. EndInv'
  <2>1. \A p : ~Complete(p)
    BY <1>1, <1>3 DEF Complete
  <2> QED BY <1>1, <1>4, <1>5, <1>6, <2>1 DEF EndInv
<1>17. FailInv'
  BY <1>1, <1>4, <1>5 DEF FailInv
<1>18. ReleaseInv'
  BY <1>1, <1>4, <1>10 DEF ReleaseInv, FirstUnread, KillPending
<1> QED BY <1>7, <1>8, <1>9, <1>11, <1>12, <1>13, <1>14, <1>15, <1>16, <1>17, <1>18

(* The server drops the cursor.                                            *)
LEMMA cursorDroppedKeeps ==
    ASSUME IterInv, InUse, R!cursorDropped
    PROVE  IterInv'
<1> USE DEF IterInv
<1>1. /\ cursor.state = "open" /\ faults > 0 /\ faults' = faults - 1 /\ cursor' = [cursor EXCEPT !.state = "gone"]
      /\ UNCHANGED <<query, stored, iter, app, wire, replies, returned, closed, ended, panic, astray, reading>> /\ reading
  BY DEF R!cursorDropped, R!Fault, InUse
<1>2. cursor' \in [state : {"none", "open", "gone"}, pos : 0..Len(stored)] /\ cursor'.state = "gone" /\ cursor'.pos = cursor.pos
  <2>1. cursor \in [state : {"none", "open", "gone"}, pos : 0..Len(stored)]
    BY DEF TypeInv
  <2> QED BY <1>1, <2>1
<1>3. /\ (HeadPartial' <=> HeadPartial) /\ (Answered' <=> Answered) /\ PartialLen' = PartialLen /\ AnswerLen' = AnswerLen
      /\ Limit' = Limit /\ (Limited' <=> Limited) /\ (Failing' <=> Failing) /\ (R!Overasked' <=> R!Overasked) /\ Requests' = Requests
  BY <1>1, SameReplies, SameQuery, SameWire
<1>4. Fetchers' = Fetchers /\ Opened' /\ Opened
  BY <1>1 DEF Fetchers, Opened, StageInv
<1>5. (Pending' <=> Pending) /\ Received' = Received /\ Base' = Base /\ End' = End
  BY <1>1, <1>3, <1>4 DEF Pending, Received, Base, End
<1>6. TypeInv'
  <2>1. faults' \in 0..query.faults
    BY <1>1, QueriesAssumption DEF TypeInv
  <2> QED BY <1>1, <1>2, <2>1 DEF TypeInv
<1>7. StageInv'
  BY <1>1, <1>4, StageAfter
<1>8. ReplyInv' /\ OneRequest'
  BY <1>1, <1>3, <1>4 DEF ReplyInv, OneRequest
<1>9. QueryInv'
  BY <1>1 DEF QueryInv
<1>10. CountInv' /\ FetchInv'
  BY <1>1, <1>3, <1>5 DEF CountInv, FetchInv
<1>11. ErrInv'
  BY <1>1, <1>5 DEF ErrInv
<1>12. ContentInv'
  BY <1>1, <1>2, <1>3, <1>5 DEF ContentInv
<1>13. LimitInv'
  BY <1>1, <1>2, <1>3, <1>4, <1>5 DEF LimitInv
<1>14. EndInv'
  BY <1>1, <1>2, <1>3, <1>4, <1>5 DEF EndInv, Complete
<1>15. FailInv'
  BY <1>1, <1>3, <1>4 DEF FailInv
<1>16. ReleaseInv'
  BY <1>2 DEF ReleaseInv
<1> QED BY <1>6, <1>7, <1>8, <1>9, <1>10, <1>11, <1>12, <1>13, <1>14, <1>15, <1>16

-----------------------------------------------------------------------------
(* The iterator is opened.                                                 *)

(* What a query asks for when only so many documents are wanted.           *)
LEMMA OpLimitFacts ==
    ASSUME query \in Queries
    PROVE  /\ R!OpLimit \in Int
           /\ Limited => R!OpLimit # 0 /\ Limit > 0 /\ (~R!Overasked => R!LimitOf(R!OpLimit) <= Limit)
<1> DEFINE b == query.batch
           q == query.limit
<1>1. b \in Nat /\ q \in Int
  BY QueriesAssumption
<1> HIDE DEF b, q
<1>2. R!OpLimit = IF b # 0 THEN R!BatchOf(b) ELSE R!OpLimitOf(q)
  BY DEF R!OpLimit, b, q
<1>3. Limit = R!LimitOf(q) /\ (Limited <=> q # 0) /\ (R!Overasked <=> q # 0 /\ R!BatchOf(b) > R!LimitOf(q))
  BY DEF Limit, Limited, R!Overasked, b, q
<1>4. R!OpLimit \in Int
  BY <1>1, <1>2 DEF R!BatchOf, R!OpLimitOf
<1>6. ASSUME q # 0 PROVE R!OpLimit # 0 /\ R!LimitOf(q) > 0 /\ (R!BatchOf(b) <= R!LimitOf(q) => R!LimitOf(R!OpLimit) <= R!LimitOf(q))
  <2>1. CASE b # 0
    BY <1>1, <1>2, <1>6, <2>1 DEF R!BatchOf, R!LimitOf
  <2>2. CASE b = 0
    BY <1>1, <1>2, <1>6, <2>2 DEF R!OpLimitOf, R!LimitOf
  <2> QED BY <2>1, <2>2
<1>7. R!BatchOf(b) \in Int /\ R!LimitOf(q) \in Int
  BY <1>1 DEF R!BatchOf, R!LimitOf
<1> QED BY <1>3, <1>4, <1>6, <1>7

(* Every caller with a plan begins with Next or Close.                     *)
LEMMA StartFacts ==
    ASSUME TypeInv, R!StartAll
    PROVE  /\ app' \in [Callers -> [pc : R!Pcs, left : Nat]] /\ Opened' /\ Fetchers' = {}
           /\ \A c \in Callers : app'[c].pc \in FirstPcs(query.plan[c])
           /\ \A c \in Callers : app'[c].pc \in {"done", "next", "close"}
           /\ \E c \in Callers : app'[c].pc # "done"
<1>1. \A c \in Callers : query.plan[c] \in -2..5
  BY QueriesAssumption DEF TypeInv
<1>2. PICK d \in Callers : query.plan[d] # -1
  BY QueriesAssumption DEF TypeInv
<1>3. app' = [c \in Callers |-> [pc |-> R!FirstPc(query.plan[c]),
                                left |-> IF query.plan[c] < 0 THEN 0 ELSE query.plan[c]]]
  BY DEF R!StartAll
<1>4. \A c \in Callers : /\ app'[c] \in [pc : R!Pcs, left : Nat]
                         /\ app'[c].pc = R!FirstPc(query.plan[c])
  BY <1>1, <1>3 DEF R!Pcs, R!FirstPc
<1>5. app' \in [Callers -> [pc : R!Pcs, left : Nat]]
  BY <1>3, <1>4
<1>6. app'[d].pc # "done"
  BY <1>2, <1>4 DEF R!FirstPc
<1>7. Opened' /\ Fetchers' = {}
  BY <1>4 DEF Opened, Fetchers, R!FirstPc
<1> QED BY <1>4, <1>5, <1>6, <1>7 DEF FirstPcs, R!FirstPc

(* Iter and Tail send the query, or fail.                                  *)
LEMMA IterKeeps ==
    ASSUME IterInv, InUse, R!Iter
    PROVE  IterInv'
<1> DEFINE limit == IF query.kind = "tail" THEN 0 ELSE R!LimitOf(query.limit)
           q == [op |-> "query", limit |-> R!OpLimit]
<1>0. /\ TypeInv /\ StageInv
  BY DEF IterInv
<1>1. /\ ~Opened /\ query.kind \in {"find", "tail"} /\ R!StartAll
      /\ UNCHANGED <<query, stored, replies, cursor, returned, closed, ended, panic, astray, reading>> /\ reading
  BY DEF R!Iter, R!Opened, Opened, InUse
<1>2. PICK err \in {"nil", "net"} :
        /\ iter' = R!IterOf(err)
        /\ err = "nil" => wire' = <<q>> /\ faults' = faults
        /\ err = "net" => wire' = wire /\ faults > 0 /\ faults' = faults - 1
  <2>1. \/ iter' = R!IterOf("nil") /\ wire' = <<q>> /\ faults' = faults
        \/ faults > 0 /\ faults' = faults - 1 /\ iter' = R!IterOf("net") /\ wire' = wire
    BY DEF R!Iter, R!Fault
  <2> QED BY <2>1
<1>3. /\ wire = <<>> /\ replies' = <<>> /\ cursor' = [state |-> "none", pos |-> 0] /\ cursor' = cursor
      /\ returned' = <<>> /\ ~closed' /\ ended' = "no"
  BY <1>0, <1>1 DEF StageInv
<1>4. /\ app' \in [Callers -> [pc : R!Pcs, left : Nat]] /\ Opened' /\ Fetchers' = {}
      /\ \A c \in Callers : app'[c].pc \in FirstPcs(query.plan[c])
      /\ \A c \in Callers : app'[c].pc \in {"done", "next", "close"}
  BY <1>0, <1>1, StartFacts
<1>5. /\ R!OpLimit \in Int /\ Limit \in Nat
      /\ Limited => R!OpLimit # 0 /\ Limit > 0 /\ (~R!Overasked => R!LimitOf(R!OpLimit) <= Limit)
      /\ Limit' = Limit /\ (Limited' <=> Limited) /\ (Failing' <=> Failing) /\ (R!Overasked' <=> R!Overasked)
      /\ (Limited => query.kind = "find")
  <2>1. query \in Queries
    BY <1>0 DEF TypeInv
  <2> QED BY <1>0, <1>1, <2>1, OpLimitFacts, TypeFacts, SameQuery
<1>6. limit \in Nat /\ (Limited => limit = Limit) /\ (~Limited => limit = 0)
  BY <1>1, <1>5 DEF Limit, Limited, R!LimitOf
<1>7. /\ iter' = [err |-> err, docsToReceive |-> 1, docsBeforeMore |-> 0, limit |-> limit, opLimit |-> R!OpLimit,
                  cursorId |-> 0, docData |-> R!EmptyQueue, timedout |-> FALSE]
  BY <1>2 DEF R!IterOf, R!Unopened
<1> HIDE DEF limit
<1>8. /\ Typed(iter') /\ iter'.err = err /\ iter'.docsToReceive = 1 /\ iter'.docsBeforeMore = 0
      /\ iter'.limit = limit /\ iter'.opLimit = R!OpLimit /\ iter'.cursorId = 0
      /\ Ring(iter'.docData) /\ iter'.docData.nelems = 0
  <2>1. iter'.docData = R!EmptyQueue
    BY <1>7
  <2>2. Typed(iter') /\ iter'.err = err /\ iter'.docsToReceive = 1 /\ iter'.docsBeforeMore = 0
        /\ iter'.limit = limit /\ iter'.opLimit = R!OpLimit /\ iter'.cursorId = 0
    BY <1>2, <1>5, <1>6, <1>7 DEF Typed, R!Errs
  <2> QED BY <2>1, <2>2, EmptyFacts
<1>9. /\ wire' \in Seq(WireOps) /\ (err = "net" => wire' = <<>> /\ DOMAIN wire' = {} /\ Requests' = {})
      /\ err = "nil" => DOMAIN wire' = {1} /\ wire'[1] = q /\ Requests' = {1}
  <2>1. q \in WireOps
    BY <1>5 DEF WireOps
  <2>2. CASE err = "net"
    BY <1>2, <1>3, <2>2 DEF Requests
  <2>3. CASE err = "nil"
    <3>1. wire' = <<q>>
      BY <1>2, <2>3
    <3>2. q.op # "kill"
      OBVIOUS
    <3> HIDE DEF q
    <3>3. wire' \in Seq(WireOps) /\ DOMAIN wire' = {1} /\ wire'[1] = q
      BY <2>1, <3>1
    <3> QED BY <2>3, <3>2, <3>3 DEF Requests
  <2> QED BY <1>2, <2>2, <2>3
<1>10. q.op = "query" /\ q.limit = R!OpLimit
  OBVIOUS
<1>11. /\ ~HeadPartial' /\ ~Answered' /\ PartialLen' = 0 /\ AnswerLen' = 0 /\ (Pending' <=> err = "nil") /\ DOMAIN replies' = {}
       /\ Received' = 0 /\ Base' = 0 /\ End' = 0 /\ Len(returned') = 0
  <2>1. ~HeadPartial' /\ ~Answered' /\ PartialLen' = 0 /\ AnswerLen' = 0
    BY <1>3, RepliesGone
  <2>2. Pending' <=> err = "nil"
    BY <1>2, <1>4, <1>9, <2>1 DEF Pending
  <2>3. Len(returned') = 0 /\ DOMAIN replies' = {}
    BY <1>3
  <2>4. Received' = 0
    BY <1>8, <2>3 DEF Received
  <2>5. Base' = 0
    BY <2>1, <2>4 DEF Base
  <2>6. End' = 0
    BY <2>1, <2>5 DEF End
  <2> QED BY <2>1, <2>2, <2>3, <2>4, <2>5, <2>6
<1>12. TypeInv'
  <2>1. faults' \in 0..query.faults
    BY <1>0, <1>2, QueriesAssumption DEF TypeInv
  <2>2. replies' \in Seq(Replies) /\ returned' \in Seq(Documents)
    BY <1>3
  <2>3. cursor' \in [state : {"none", "open", "gone"}, pos : 0..Len(stored)]
    BY <1>0, <1>3 DEF TypeInv
  <2> QED BY <1>0, <1>1, <1>4, <1>8, <1>9, <2>1, <2>2, <2>3 DEF TypeInv, Typed
<1> HIDE DEF q
<1>13. StageInv'
  BY <1>1, <1>4, StageAfter
<1>14. ReplyInv' /\ OneRequest'
  <2>1. Len(replies') = 0
    BY <1>3
  <2>2. ReplyInv'
    BY <1>11, <2>1 DEF ReplyInv
  <2> QED BY <1>2, <1>4, <1>9, <1>11, <2>2 DEF OneRequest
<1>15. err = "nil" => Waiting'
  BY <1>1, <1>3, <1>4, <1>8 DEF Waiting
<1>16. QueryInv'
  <2>1. R!OpLimit' = R!OpLimit
    BY <1>1 DEF R!OpLimit
  <2>2. err = "nil" => wire' = << [op |-> "query", limit |-> R!OpLimit] >>
    BY <1>2 DEF q
  <2> QED BY <1>1, <1>2, <1>3, <1>4, <1>8, <1>9, <1>15, <2>1, <2>2 DEF QueryInv
<1>17. CountInv' /\ FetchInv'
  BY <1>4, <1>8, <1>11 DEF CountInv, FetchInv
<1>18. ErrInv'
  BY <1>3, <1>4, <1>8, <1>11 DEF ErrInv
<1>19. ContentInv'
  BY <1>3, <1>8, <1>11 DEF ContentInv
<1>20. LimitInv'
  <2>1. CASE ~Limited
    BY <1>5, <1>6, <1>8, <2>1 DEF LimitInv
  <2>2. CASE Limited
    <3>1. /\ Limit > 0 /\ limit = Limit /\ R!OpLimit # 0 /\ R!LimitOf(R!OpLimit) \in Nat
          /\ ~R!Overasked => R!LimitOf(R!OpLimit) <= Limit
      BY <1>5, <1>6, <2>2 DEF R!LimitOf
    <3>2. /\ \A i \in Requests' : wire'[i].limit # 0
          /\ \A i \in Requests' : wire'[i].op = "getMore" \/ ~R!Overasked' => Base' + R!LimitOf(wire'[i].limit) <= Limit'
      BY <1>2, <1>5, <1>9, <1>10, <1>11, <3>1
    <3>3. /\ iter'.limit = Limit' - Len(returned') /\ Base' <= Limit' /\ Base' < Limit' /\ End' <= Limit'
          /\ iter'.limit > 0 /\ iter'.opLimit # 0 /\ iter'.cursorId = 0 /\ cursor'.state # "open"
      BY <1>3, <1>5, <1>8, <1>11, <3>1
    <3>4. \A i \in DOMAIN wire' : wire'[i].op # "getMore"
      BY <1>2, <1>9, <1>10
    <3> QED BY <1>4, <1>5, <1>11, <2>2, <3>2, <3>3, <3>4 DEF LimitInv
  <2> QED BY <2>1, <2>2
<1>21. EndInv'
  BY <1>2, <1>8, <1>11 DEF EndInv
<1>22. FailInv'
  <2> SUFFICES ASSUME Failing PROVE FailInv'
    BY <1>5 DEF FailInv
  <2>1. limit = Limit
    BY <1>0, <1>6, TypeFacts
  <2>2. \A i \in Requests' : wire'[i].op = "query"
    BY <1>2, <1>9, <1>10
  <2>3. \/ Requests' # {} /\ iter'.docData.nelems = 0 /\ replies' = <<>>
        \/ Requests' = {} /\ iter'.docData.nelems = 0 /\ replies' = <<>> /\ iter'.err \notin {"nil", "notFound"}
    BY <1>2, <1>3, <1>8, <1>9
  <2> QED BY <1>3, <1>4, <1>5, <1>8, <2>1, <2>2, <2>3 DEF FailInv
<1>23. ReleaseInv'
  BY <1>3 DEF ReleaseInv
<1> QED BY <1>12, <1>13, <1>14, <1>16, <1>17, <1>18, <1>19, <1>20, <1>21, <1>22, <1>23 DEF IterInv

(* A command's first batch is queued with the cursor it left, or the       *)
(* command fails.                                                          *)
LEMMA NewIterKeeps ==
    ASSUME IterInv, InUse, R!NewIter
    PROVE  IterInv'
<1>0. TypeInv /\ StageInv
  BY DEF IterInv
<1>1. /\ ~Opened /\ query.kind = "command" /\ R!StartAll
      /\ UNCHANGED <<query, stored, wire, replies, returned, closed, ended, panic, astray, reading>> /\ reading
  BY DEF R!NewIter, R!Opened, Opened, InUse
<1>2. /\ iter = R!Unopened /\ wire' = <<>> /\ replies' = <<>> /\ cursor = [state |-> "none", pos |-> 0]
      /\ returned' = <<>> /\ ~closed' /\ ended' = "no"
  BY <1>0, <1>1 DEF StageInv
<1>3. stored \in Seq(Int) /\ Len(stored) \in Nat
  BY <1>0 DEF TypeInv, Documents
<1>20. \E n \in 0..Len(stored), err \in {"nil", "net"}, id \in 0..1 : \E q : Begun(n, err, q, id)
  <2>1. \/ /\ \E n \in 0..Len(stored) :
                LET open == n < Len(stored)
                IN  /\ iter' = [R!Unopened EXCEPT !.cursorId = IF open THEN 1 ELSE 0, !.docData = R!FirstBatch(n)]
                    /\ cursor' = [state |-> IF open THEN "open" ELSE "gone", pos |-> n]
                    /\ UNCHANGED faults
        \/ R!Fault /\ iter' = [R!Unopened EXCEPT !.err = "net"] /\ UNCHANGED cursor
    BY DEF R!NewIter
  <2>2. CASE \E n \in 0..Len(stored) :
                LET open == n < Len(stored)
                IN  /\ iter' = [R!Unopened EXCEPT !.cursorId = IF open THEN 1 ELSE 0, !.docData = R!FirstBatch(n)]
                    /\ cursor' = [state |-> IF open THEN "open" ELSE "gone", pos |-> n]
                    /\ UNCHANGED faults
    <3>1. PICK n \in 0..Len(stored) :
                LET open == n < Len(stored)
                IN  /\ iter' = [R!Unopened EXCEPT !.cursorId = IF open THEN 1 ELSE 0, !.docData = R!FirstBatch(n)]
                    /\ cursor' = [state |-> IF open THEN "open" ELSE "gone", pos |-> n]
                    /\ UNCHANGED faults
      BY <2>2
    <3> DEFINE id == IF n < Len(stored) THEN 1 ELSE 0
               q == R!FirstBatch(n)
    <3>2. Ring(q) /\ q.nelems = n /\ \A i \in 1..n : Item(q, i) = stored[i]
      BY <1>3, FirstBatchFacts
    <3> HIDE DEF q
    <3>3. iter' = [err |-> "nil", docsToReceive |-> 0, docsBeforeMore |-> 0, limit |-> 0, opLimit |-> 0,
                   cursorId |-> id, docData |-> q, timedout |-> FALSE] /\ id \in 0..1
      <4>1. iter' = [R!Unopened EXCEPT !.cursorId = id, !.docData = q]
        BY <3>1 DEF q
      <4>2. id \in 0..1
        OBVIOUS
      <4> HIDE DEF id
      <4> QED BY <4>1, <4>2 DEF R!Unopened
    <3>4. /\ cursor'.pos = n /\ cursor' \in [state : {"none", "open", "gone"}, pos : 0..Len(stored)]
          /\ faults' \in 0..query.faults
          /\ id = 1 <=> cursor'.state = "open"
          /\ id = 0 => cursor'.state = "gone" /\ n = Len(stored)
      BY <1>0, <1>3, <3>1 DEF TypeInv
    <3> HIDE DEF id
    <3>5. Begun(n, "nil", q, id)
      BY <3>2, <3>3, <3>4 DEF Begun
    <3>6. n \in 0..Len(stored) /\ id \in 0..1 /\ "nil" \in {"nil", "net"}
      BY <3>3
    <3> QED BY <3>5, <3>6, Zenon
  <2>3. CASE R!Fault /\ iter' = [R!Unopened EXCEPT !.err = "net"] /\ UNCHANGED cursor
    <3> DEFINE q == R!EmptyQueue
    <3>1. iter' = [err |-> "net", docsToReceive |-> 0, docsBeforeMore |-> 0, limit |-> 0, opLimit |-> 0,
                   cursorId |-> 0, docData |-> q, timedout |-> FALSE]
      BY <2>3 DEF R!Unopened
    <3>2. /\ cursor'.pos = 0 /\ cursor' \in [state : {"none", "open", "gone"}, pos : 0..Len(stored)] /\ cursor'.state # "open"
          /\ faults' \in 0..query.faults /\ 0 \in 0..Len(stored)
      BY <1>0, <1>2, <1>3, <2>3, QueriesAssumption DEF TypeInv, R!Fault
    <3>3. Ring(q) /\ q.nelems = 0
      BY EmptyFacts
    <3> HIDE DEF q
    <3>4. Begun(0, "net", q, 0)
      BY <3>1, <3>2, <3>3 DEF Begun
    <3>5. 0 \in 0..Len(stored) /\ 0 \in 0..1 /\ "net" \in {"nil", "net"}
      BY <3>2
    <3> QED BY <3>4, <3>5, Zenon
  <2> QED BY <2>1, <2>2, <2>3
<1>21. PICK n \in 0..Len(stored), err \in {"nil", "net"}, id \in 0..1 : \E q : Begun(n, err, q, id)
  BY <1>20
<1>4. PICK q : Begun(n, err, q, id)
  BY <1>21
<1>5. /\ app' \in [Callers -> [pc : R!Pcs, left : Nat]] /\ Opened' /\ Fetchers' = {}
      /\ \A c \in Callers : app'[c].pc \in {"done", "next", "close"}
      /\ \E c \in Callers : app'[c].pc # "done"
  BY <1>0, <1>1, StartFacts
<1>6. ~Limited /\ ~Failing /\ ~Limited' /\ ~Failing'
  <2>1. ~Limited
    BY <1>0, <1>1, TypeFacts
  <2>2. ~Failing
    BY <1>1 DEF Failing
  <2> QED BY <1>1, <2>1, <2>2, SameQuery
<1>7. /\ Typed(iter') /\ iter'.err = err /\ iter'.docsToReceive = 0 /\ iter'.docsBeforeMore = 0
      /\ iter'.limit = 0 /\ iter'.opLimit = 0 /\ iter'.cursorId = id /\ iter'.docData = q
  <2>1. iter' = [err |-> err, docsToReceive |-> 0, docsBeforeMore |-> 0, limit |-> 0, opLimit |-> 0,
                 cursorId |-> id, docData |-> q, timedout |-> FALSE]
    BY <1>4 DEF Begun
  <2> QED BY <2>1 DEF Typed, R!Errs
<1>8. /\ ~HeadPartial' /\ ~Answered' /\ PartialLen' = 0 /\ AnswerLen' = 0 /\ ~Pending' /\ DOMAIN replies' = {} /\ DOMAIN wire' = {}
      /\ Requests' = {} /\ Received' = n /\ Base' = n /\ End' = n /\ Len(returned') = 0
  <2>1. ~HeadPartial' /\ ~Answered' /\ PartialLen' = 0 /\ AnswerLen' = 0
    BY <1>2, RepliesGone
  <2>2. Len(returned') = 0 /\ DOMAIN replies' = {} /\ DOMAIN wire' = {} /\ Requests' = {}
    BY <1>2 DEF Requests
  <2>3. ~Pending'
    BY <1>5, <2>1, <2>2 DEF Pending
  <2>4. Received' = n
    BY <1>4, <1>7, <2>2 DEF Received, Begun
  <2>5. Base' = n
    BY <2>1, <2>4 DEF Base
  <2>6. End' = n
    BY <2>1, <2>5 DEF End
  <2> QED BY <2>1, <2>2, <2>3, <2>4, <2>5, <2>6
<1>9. TypeInv'
  <2>1. replies' \in Seq(Replies) /\ returned' \in Seq(Documents) /\ wire' \in Seq(WireOps)
    BY <1>2
  <2> QED BY <1>0, <1>1, <1>4, <1>5, <1>7, <2>1 DEF TypeInv, Typed, Begun
<1>10. StageInv'
  BY <1>1, <1>5, StageAfter
<1>11. ReplyInv' /\ OneRequest' /\ QueryInv'
  <2>1. Len(replies') = 0
    BY <1>2
  <2>2. ReplyInv'
    BY <1>8, <2>1 DEF ReplyInv
  <2> QED BY <1>5, <1>8, <2>2 DEF OneRequest, QueryInv
<1>12. CountInv' /\ FetchInv' /\ ErrInv'
  <2>1. CountInv' /\ FetchInv'
    BY <1>5, <1>7, <1>8 DEF CountInv, FetchInv
  <2>2. ErrInv'
    BY <1>2, <1>4, <1>5, <1>7, <1>8 DEF ErrInv
  <2> QED BY <2>1, <2>2
<1>13. ContentInv'
  <2>1. \A i \in 1..n : Item(iter'.docData, i) = stored'[Len(returned') + i]
    BY <1>1, <1>4, <1>7, <1>8 DEF Begun
  <2> QED BY <1>4, <1>7, <1>8, <2>1 DEF ContentInv, Begun
<1>14. LimitInv'
  BY <1>6, <1>7 DEF LimitInv
<1>15. EndInv'
  BY <1>1, <1>4, <1>7, <1>8 DEF EndInv, Complete, Begun
<1>16. FailInv'
  BY <1>6 DEF FailInv
<1>17. ReleaseInv'
  BY <1>4, <1>5, <1>7 DEF ReleaseInv, Begun
<1> QED BY <1>9, <1>10, <1>11, <1>12, <1>13, <1>14, <1>15, <1>16, <1>17 DEF IterInv

-----------------------------------------------------------------------------
(* The whole program keeps the invariant.                                  *)

(* Before the iterator is opened the invariant is about types only.        *)
LEMMA FreshFacts == TypeInv /\ StageInv /\ ~Opened => IterInv
<1> SUFFICES ASSUME TypeInv, StageInv, ~Opened PROVE IterInv
  OBVIOUS
<1>1. /\ \A c \in Callers : app[c].pc = "start"
      /\ iter = R!Unopened /\ wire = <<>> /\ replies = <<>>
      /\ cursor = [state |-> "none", pos |-> 0] /\ returned = <<>> /\ ~closed /\ ended = "no"
  BY DEF StageInv
<1>2. /\ iter.err = "nil" /\ iter.docsToReceive = 0 /\ iter.docsBeforeMore = 0 /\ iter.limit = 0
      /\ iter.cursorId = 0 /\ iter.docData = R!EmptyQueue
  BY <1>1 DEF R!Unopened
<1>3. iter.docData.nelems = 0
  BY <1>2, EmptyFacts
<1>4. /\ DOMAIN wire = {} /\ DOMAIN replies = {} /\ Len(replies) = 0 /\ Len(returned) = 0
      /\ Requests = {} /\ Fetchers = {} /\ ~Answered /\ ~HeadPartial /\ ~Pending
  BY <1>1 DEF Requests, Fetchers, Answered, HeadPartial, Pending
<1>5. PartialLen = 0 /\ AnswerLen = 0
  BY <1>4 DEF PartialLen, AnswerLen
<1>6. Received = 0
  BY <1>3, <1>4 DEF Received
<1>7. Base = 0
  BY <1>5, <1>6 DEF Base
<1>8. End = 0
  BY <1>5, <1>7 DEF End
<1>9. ReplyInv /\ OneRequest /\ QueryInv
  BY <1>4 DEF ReplyInv, OneRequest, QueryInv
<1>10. CountInv /\ FetchInv
  BY <1>1, <1>2, <1>4, <1>5 DEF CountInv, FetchInv
<1>11. ErrInv
  BY <1>1, <1>2, <1>4 DEF ErrInv
<1>12. ContentInv
  BY <1>1, <1>3, <1>4, <1>8 DEF ContentInv
<1>13. LimitInv /\ EndInv /\ FailInv
  BY <1>2 DEF LimitInv, EndInv, FailInv
<1>14. ReleaseInv
  BY <1>1 DEF ReleaseInv
<1> QED BY <1>9, <1>10, <1>11, <1>12, <1>13, <1>14 DEF IterInv

(* The invariant holds at first.                                           *)
LEMMA InitHolds == Init => IInv
<1> SUFFICES ASSUME Init PROVE IInv
  OBVIOUS
<1>1. PICK p \in Plans, q \in Queries :
        /\ plan = p /\ collection = p.there /\ wfaults = p.faults
        /\ query = q /\ faults = q.faults
  BY DEF Init
<1>2. /\ W!Init /\ R!Init /\ stored = <<>> /\ reading = FALSE
  BY DEF Init
<1>3. /\ iter = R!Unopened /\ app = [c \in Callers |-> [pc |-> "start", left |-> 0]]
      /\ wire = <<>> /\ replies = <<>> /\ cursor = [state |-> "none", pos |-> 0]
      /\ returned = <<>> /\ closed = FALSE /\ ended = "no" /\ panic = "none" /\ astray = {}
  BY <1>2 DEF R!Init
<1>4. WriteInv
  <2>1. collection \in SUBSET Documents /\ IsFiniteSet(collection) /\ wfaults \in Nat
    BY <1>1, PlansAssumption
  <2>2. Len(plan.calls) \in Nat
    BY <1>1, PlansAssumption
  <2>3. bulk = [actions |-> <<>>, next |-> 1, at |-> 1, from |-> 0, acc |-> <<>>, errs |-> <<>>, failed |-> FALSE, matched |-> 0]
        /\ writer = "queue"
    BY <1>2 DEF W!Init, W!NewBulk
  <2> DEFINE none == <<>>
  <2>4. none \in Seq(Actions) /\ Len(none) = 0
    OBVIOUS
  <2>5. bulk = [actions |-> none, next |-> 1, at |-> 1, from |-> 0, acc |-> none, errs |-> none, failed |-> FALSE, matched |-> 0]
    BY <2>3
  <2> HIDE DEF none
  <2>6. bulk.actions = none /\ bulk.at = 1 /\ 1 \in 1..Len(plan.calls) + 1 /\ 1 \in 1..Len(none) + 1
    BY <2>2, <2>4, <2>5
  <2>7. bulk \in [actions : Seq(Actions), next : 1..Len(plan.calls) + 1, at : 1..Len(bulk.actions) + 1,
                  from : Nat, acc : {bulk.acc}, errs : {bulk.errs}, failed : BOOLEAN, matched : Nat]
    BY <2>4, <2>5, <2>6
  <2> QED BY <1>1, <2>1, <2>3, <2>6, <2>7 DEF WriteInv
<1>5. PICK c \in Callers : TRUE
  BY <1>1, QueriesAssumption
<1>6. ~Opened /\ StageInv
  BY <1>2, <1>3, <1>5 DEF Opened, StageInv
<1>7. TypeInv
  <2>1. query \in Queries /\ faults \in 0..query.faults /\ reading \in BOOLEAN
    <3>1. query \in Queries /\ faults = query.faults /\ query.faults \in Nat
      BY <1>1, QueriesAssumption
    <3> DEFINE f == query.faults
    <3>2. reading \in BOOLEAN
      BY <1>2, Zenon
    <3> HIDE DEF f
    <3>3. faults \in 0..f
      BY <3>1 DEF f
    <3> QED BY <3>1, <3>2, <3>3 DEF f
  <2>2. stored \in Seq(Documents) /\ \A i, j \in DOMAIN stored : i < j => stored[i] < stored[j]
    BY <1>2
  <2>3. Typed(iter) /\ Ring(iter.docData)
    <3>1. Typed(iter)
      BY <1>3 DEF Typed, R!Unopened, R!Errs
    <3>2. iter.docData = R!EmptyQueue
      BY <1>3 DEF R!Unopened
    <3> QED BY <3>1, <3>2, EmptyFacts
  <2>4. app \in [Callers -> [pc : R!Pcs, left : Nat]]
    BY <1>3 DEF R!Pcs
  <2>5. wire \in Seq(WireOps) /\ replies \in Seq(Replies) /\ returned \in Seq(Documents)
    BY <1>3
  <2>6. cursor \in [state : {"none", "open", "gone"}, pos : 0..Len(stored)]
    BY <1>2, <1>3
  <2>7. /\ closed \in BOOLEAN /\ ended \in {"no", "exhausted", "error"} /\ panic # R!LimitPanic
        /\ astray \subseteq {"early", "unwoken"}
    BY <1>3 DEF R!LimitPanic
  <2> QED BY <2>1, <2>2, <2>3, <2>4, <2>5, <2>6, <2>7 DEF TypeInv, Typed
<1>8. StrayInv
  BY <1>3, <1>7 DEF StrayInv, TypeInv
<1> QED BY <1>4, <1>6, <1>7, <1>8, FreshFacts DEF IInv

(* The iteration begins on what was written.                               *)
LEMMA StartReadingKeeps == IInv /\ StartReading => IInv'
<1> SUFFICES ASSUME IInv, StartReading PROVE IInv'
  OBVIOUS
<1>0. WriteInv /\ StrayInv /\ (R!Regular => TypeInv /\ StageInv)
  BY DEF IInv, IterInv
<1>1. /\ ~reading /\ reading' = TRUE /\ stored' = InOrder(collection)
      /\ UNCHANGED <<plan, collection, bulk, writer, wfaults, query, iter, app, wire, replies, cursor, returned, closed, ended, faults, panic, astray>>
  BY DEF StartReading, writing
<1>2. WriteInv'
  BY <1>0, <1>1 DEF WriteInv
<1>3. stored' \in Seq(Documents) /\ \A i, j \in DOMAIN stored' : i < j => stored'[i] < stored'[j]
  BY <1>0, <1>1, InOrderFacts DEF WriteInv, Contents, Increasing
<1>8. StrayInv'
  BY <1>0, <1>1, SameQuery DEF StrayInv
<1>9. R!Regular' <=> R!Regular
  BY <1>1 DEF R!Regular
<1>7. ASSUME R!Regular PROVE IterInv'
  <2>0. TypeInv /\ StageInv
    BY <1>0, <1>7
  <2>4. ~Opened /\ ~Opened' /\ cursor = [state |-> "none", pos |-> 0]
    BY <1>1, <2>0 DEF StageInv, Opened
  <2>5. TypeInv'
    <3>1. Len(stored') \in Nat
      BY <1>3
    <3>2. cursor' \in [state : {"none", "open", "gone"}, pos : 0..Len(stored')]
      BY <1>1, <2>4, <3>1
    <3> QED BY <1>1, <1>3, <2>0, <3>2 DEF TypeInv
  <2>6. StageInv'
    BY <1>1, <2>0, <2>4 DEF StageInv
  <2>7. (TypeInv /\ StageInv /\ ~Opened)' => IterInv'
    BY FreshFacts, PTL
  <2> QED BY <2>4, <2>5, <2>6, <2>7
<1> QED BY <1>2, <1>7, <1>8, <1>9 DEF IInv

(* The iteration does not change the query, nor go on after a panic.       *)
LEMMA QueryStays == ASSUME R!Next PROVE query' = query /\ R!Running
<1>1. CASE R!Iter \/ R!NewIter \/ R!replyDocument \/ R!replyEmpty \/ R!replyCut \/ R!connectionDies \/ R!serveBatch
           \/ R!serveKill \/ R!Grow \/ R!cursorDropped
  BY <1>1, Zenon DEF R!Iter, R!NewIter, R!replyDocument, R!replyEmpty, R!replyCut, R!connectionDies, R!serveBatch,
     R!serveKill, R!Grow, R!cursorDropped
<1>2. ASSUME NEW c \in Callers,
             \/ R!NextWaits(c) \/ R!NextTimesOut(c) \/ R!NextDelivers(c) \/ R!getMore(c) \/ R!getMoreFails(c)
             \/ R!Close(c) \/ R!Kill(c)
      PROVE  query' = query /\ R!Running
  BY <1>2, Zenon DEF R!NextWaits, R!NextTimesOut, R!NextDelivers, R!getMore, R!getMoreFails, R!Close, R!Kill
<1> QED BY <1>1, <1>2 DEF R!Next

(* A step of the iteration.                                                *)
LEMMA ReadKeeps ==
    ASSUME IterInv, reading, R!Next, UNCHANGED reading, R!Regular'
    PROVE  IterInv'
<1>0. InUse
  BY QueryStays DEF InUse, R!Running
<1>1. CASE R!Iter
  BY <1>0, <1>1, IterKeeps
<1>2. CASE R!NewIter
  BY <1>0, <1>2, NewIterKeeps
<1>3. ASSUME NEW c \in Callers, R!NextWaits(c) PROVE IterInv'
  BY <1>0, <1>3, NextWaitsKeeps
<1>4. ASSUME NEW c \in Callers, R!NextTimesOut(c) PROVE IterInv'
  BY <1>0, <1>4, NextTimesOutKeeps
<1>5. ASSUME NEW c \in Callers, R!NextDelivers(c) PROVE IterInv'
  BY <1>0, <1>5, NextDeliversKeeps
<1>6. ASSUME NEW c \in Callers, R!getMore(c) PROVE IterInv'
  BY <1>0, <1>6, getMoreKeeps
<1>7. ASSUME NEW c \in Callers, R!getMoreFails(c) PROVE IterInv'
  BY <1>0, <1>7, getMoreFailsKeeps
<1>8. ASSUME NEW c \in Callers, R!Close(c) PROVE IterInv'
  BY <1>0, <1>8, CloseKeeps
<1>9. ASSUME NEW c \in Callers, R!Kill(c) PROVE IterInv'
  BY <1>0, <1>9, KillKeeps
<1>10. CASE R!replyDocument
  BY <1>0, <1>10, replyDocumentKeeps
<1>11. CASE R!replyEmpty
  BY <1>0, <1>11, replyEmptyKeeps
<1>12. CASE R!replyCut
  BY <1>0, <1>12, replyCutKeeps
<1>13. CASE R!connectionDies
  BY <1>0, <1>13, connectionDiesKeeps
<1>14. CASE R!serveBatch
  BY <1>0, <1>14, serveBatchKeeps
<1>15. CASE R!serveKill
  BY <1>0, <1>15, serveKillKeeps
<1>16. CASE R!Grow
  BY <1>0, <1>16, GrowKeeps
<1>17. CASE R!cursorDropped
  BY <1>0, <1>17, cursorDroppedKeeps
<1> QED BY <1>1, <1>2, <1>3, <1>4, <1>5, <1>6, <1>7, <1>8, <1>9, <1>10, <1>11, <1>12, <1>13, <1>14, <1>15, <1>16, <1>17 DEF R!Next

(* A batch beyond the limit comes only when Batch asks for it.             *)
LEMMA OverrunFacts ==
    ASSUME IterInv, R!serveBatch
    PROVE  astray' = astray \/ (astray' = astray \union {"overrun"} /\ R!Overasked)
<1> DEFINE m == wire[1]
<1>1. wire # <<>> /\ Head(wire).op # "kill"
  BY DEF R!serveBatch
<1>2. /\ Head(wire) = m /\ m \in WireOps /\ 1 \in DOMAIN wire /\ Requests = {1} /\ Pending /\ ~Answered
  BY <1>1, RequestTaken DEF IterInv
<1>3. Opened
  BY <1>1 DEF StageInv, IterInv
<1>4. Failing => m.op = "query"
  BY <1>2, <1>3 DEF FailInv, IterInv
<1>5. m.op = "query" => query.kind \in {"find", "tail"} /\ cursor = [state |-> "none", pos |-> 0]
  BY <1>2 DEF QueryInv, IterInv
<1>6. PICK y : Serves(m, y) /\ Measured(y)
  BY <1>2, <1>4, <1>5, ServeFacts DEF IterInv
<1>7. m.op \in {"query", "getMore"} /\ m.limit \in Int
  BY <1>1, <1>2 DEF WireOps
<1>8. Limit \in Nat /\ cursor.pos \in Nat /\ Base \in Nat
  BY TypeFacts DEF IterInv
<1>9. CASE astray' = astray \union {"overrun"} /\ Limited /\ cursor'.pos > Limit
  <2>1. ~Failing
    <3>1. Failing => cursor'.pos = 0
      BY <1>4, <1>5, <1>6 DEF Serves
    <3> QED BY <1>8, <1>9, <3>1
  <2> SUFFICES ASSUME ~R!Overasked PROVE FALSE
    BY <1>9
  <2>2. m.limit # 0 /\ Base + R!LimitOf(m.limit) <= Limit
    BY <1>2, <1>3, <1>9, <2>1 DEF LimitInv, IterInv
  <2>3. cursor.pos = Base
    <3>1. cursor.pos = End
      BY <1>2, <2>1 DEF ContentInv, IterInv
    <3> QED BY <1>2, <1>8, <3>1 DEF End, AnswerLen
  <2> DEFINE k == Len(y.docs)
             l == R!LimitOf(m.limit)
  <2>4. k \in Nat /\ cursor'.pos = cursor.pos + k /\ k <= l
    BY <1>6, <2>1, <2>2 DEF Serves, Replies
  <2>5. l \in Nat /\ Base + l <= Limit
    BY <1>7, <2>2 DEF R!LimitOf
  <2> HIDE DEF k, l
  <2> QED BY <1>8, <1>9, <2>3, <2>4, <2>5
<1> QED BY <1>6, <1>9 DEF Measured

(* What happens astray, and what it takes.                                 *)
LEMMA StrayKeeps ==
    ASSUME StrayInv, R!Regular => IterInv, R!Next
    PROVE  StrayInv'
<1>1. UNCHANGED query
  BY QueryStays
<1>2. faults' \in {faults, faults - 1} /\ (faults' # faults => faults > 0)
  BY DEF R!Next, R!Iter, R!NewIter, R!NextWaits, R!NextTimesOut, R!NextDelivers, R!getMore, R!getMoreFails,
         R!Close, R!Kill, R!replyDocument, R!replyEmpty, R!replyCut, R!connectionDies, R!serveBatch,
         R!serveKill, R!Grow, R!cursorDropped, R!Fault
<1>3. \/ astray' \in {astray, astray \union {"early"}, astray \union {"unwoken"}}
      \/ astray' = astray \union {"cut"} /\ faults > 0 /\ faults' = faults - 1
      \/ R!serveBatch /\ astray' = astray \union {"overrun"}
  BY DEF R!Next, R!Iter, R!NewIter, R!NextWaits, R!NextTimesOut, R!NextDelivers, R!getMore, R!getMoreFails,
         R!Close, R!Kill, R!replyDocument, R!replyEmpty, R!replyCut, R!connectionDies, R!serveBatch,
         R!serveKill, R!Grow, R!cursorDropped, R!Fault, R!Strays, R!MarkEarly, R!Answer
<1>4. query.faults \in Nat /\ faults \in 0..query.faults /\ query \in Queries
  BY QueriesAssumption DEF StrayInv
<1>5. faults' \in 0..query.faults /\ (faults # query.faults \/ faults' # faults => faults' # query.faults)
  <2> DEFINE f == query.faults
  <2>1. f \in Nat /\ faults \in 0..f
    BY <1>4
  <2> HIDE DEF f
  <2>2. faults' \in 0..f /\ (faults # f \/ faults' # faults => faults' # f)
    BY <1>2, <2>1
  <2> QED BY <2>2 DEF f
<1>6. R!Overasked' <=> R!Overasked
  BY <1>1, SameQuery
<1>7. CASE R!serveBatch /\ astray' = astray \union {"overrun"}
  <2>1. R!Overasked \/ "cut" \in astray
    <3>1. CASE R!Regular
      BY <1>7, <3>1, OverrunFacts DEF R!Regular
    <3>2. CASE ~R!Regular
      BY <3>2 DEF R!Regular, StrayInv
    <3> QED BY <3>1, <3>2
  <2> QED BY <1>1, <1>4, <1>5, <1>6, <1>7, <2>1 DEF StrayInv
<1>8. CASE astray' = astray \union {"cut"} /\ faults > 0 /\ faults' = faults - 1
  <2>1. faults' # query.faults
    BY <1>4, <1>5, <1>8
  <2> QED BY <1>1, <1>4, <1>5, <1>8, <2>1 DEF StrayInv
<1>9. CASE astray' \in {astray, astray \union {"early"}, astray \union {"unwoken"}}
  BY <1>1, <1>4, <1>5, <1>6, <1>9 DEF StrayInv
<1> QED BY <1>3, <1>7, <1>8, <1>9

(* The iterator does not become regular again.                             *)
LEMMA RegularBefore ==
    ASSUME R!Next, R!Regular'
    PROVE  R!Regular
<1>1. astray \subseteq astray'
  BY DEF R!Next, R!Iter, R!NewIter, R!NextWaits, R!NextTimesOut, R!NextDelivers, R!getMore, R!getMoreFails,
         R!Close, R!Kill, R!replyDocument, R!replyEmpty, R!replyCut, R!connectionDies, R!serveBatch,
         R!serveKill, R!Grow, R!cursorDropped, R!Strays, R!MarkEarly, R!Answer
<1> QED BY <1>1 DEF R!Regular

(* Every step of the program keeps the invariant.                          *)
LEMMA StepKeeps == IInv /\ [Next]_vars => IInv'
<1> SUFFICES ASSUME IInv, [Next]_vars PROVE IInv'
  OBVIOUS
<1>0. WriteInv /\ StrayInv /\ (R!Regular => IterInv)
  BY DEF IInv
<1>1. ASSUME UNCHANGED <<iterating, reading>> PROVE StrayInv' /\ (R!Regular' => IterInv')
  <2>1. UNCHANGED <<query, faults, astray>>
    BY <1>1 DEF iterating
  <2>2. StrayInv' /\ (R!Regular' <=> R!Regular)
    BY <1>0, <2>1, SameQuery DEF StrayInv, R!Regular
  <2> QED BY <1>0, <1>1, <2>2, SameIteration
<1>2. CASE W!Next /\ UNCHANGED <<iterating, reading>>
  BY <1>0, <1>1, <1>2, WriteKeeps DEF IInv
<1>3. CASE StartReading
  BY <1>3, StartReadingKeeps
<1>4. CASE reading /\ R!Next /\ UNCHANGED <<writing, reading>>
  <2>1. WriteInv'
    BY <1>0, <1>4 DEF WriteInv, writing
  <2> QED BY <1>0, <1>4, <2>1, ReadKeeps, StrayKeeps, RegularBefore DEF IInv
<1>5. CASE UNCHANGED vars
  <2>1. WriteInv'
    BY <1>0, <1>5 DEF WriteInv, writing, vars
  <2> QED BY <1>0, <1>1, <1>5, <2>1 DEF IInv, vars
<1> QED BY <1>2, <1>3, <1>4, <1>5 DEF Next, Step, Done

(* The invariant holds in every state of the program.                      *)
THEOREM Invariant == Spec => []IInv
<1>1. Init => IInv
  BY InitHolds
<1>2. IInv /\ [Next]_vars => IInv'
  BY StepKeeps
<1> QED BY <1>1, <1>2, PTL DEF Spec

-----------------------------------------------------------------------------
(* What the invariant implies.                                             *)

(* The types that the runs check.                                          *)
LEMMA TypesHold == IInv /\ R!Regular => TypeOK
<1> SUFFICES ASSUME IInv, R!Regular PROVE TypeOK
  OBVIOUS
<1>1. WriteInv /\ TypeInv
  BY DEF IInv, IterInv
<1>2. W!TypeOK
  <2>1. /\ writer \in {"queue", "acquire", "write", "done", "crashed"} /\ wfaults \in Nat
        /\ bulk.next \in 1..Len(plan.calls) + 1 /\ bulk.at \in 1..Len(bulk.actions) + 1
        /\ bulk.failed \in BOOLEAN /\ bulk.matched \in Nat /\ bulk.actions \in Seq(Actions)
    BY <1>1 DEF WriteInv
  <2>2. \A i \in DOMAIN bulk.actions : bulk.actions[i].docs # <<>>
    <3> SUFFICES ASSUME NEW i \in DOMAIN bulk.actions PROVE bulk.actions[i].docs # <<>>
      OBVIOUS
    <3>1. bulk.actions[i] \in Actions
      BY <2>1
    <3> QED BY <3>1 DEF Actions
  <2>3. Len(W!Queued) = Len(plan.calls)
    BY <1>1, PlanFacts
  <2> QED BY <2>1, <2>2, <2>3 DEF W!TypeOK
<1>3. R!TypeOK
  <2>1. iter.docData.nelems \in 0..R!Slots(iter.docData)
    BY <1>1 DEF TypeInv, Ring
  <2>2. faults \in Nat
    BY <1>1, QueriesAssumption DEF TypeInv
  <2>3. \A c \in Callers : app[c].pc \in R!Pcs /\ app[c].left \in Nat
    BY <1>1 DEF TypeInv
  <2>4. cursor.state \in {"none", "open", "gone"} /\ cursor.pos \in 0..Len(stored)
    BY <1>1 DEF TypeInv
  <2>5. closed \in BOOLEAN /\ ended \in {"no", "exhausted", "error"}
        /\ astray \subseteq {"overrun", "cut", "early", "unwoken"}
    BY <1>1 DEF TypeInv
  <2> QED BY <1>1, <2>1, <2>2, <2>3, <2>4, <2>5, TypeFacts DEF R!TypeOK
<1> QED BY <1>1, <1>2, <1>3 DEF TypeOK, TypeInv

(* Unless a reply was cut, or more came than the limit, or Close was too   *)
(* early, the end leaves no cursor open when nothing failed.               *)
LEMMA ReleaseHolds == IInv /\ ~R!Overasked => R!CursorIsReleased
<1> SUFFICES ASSUME IInv, ~R!Overasked, R!Running, R!Finished, wire = <<>>, faults = query.faults,
                    "early" \notin astray, cursor.state = "open"
             PROVE  FALSE
  BY DEF R!CursorIsReleased
<1>0. StrayInv /\ (R!Regular => IterInv)
  BY DEF IInv
<1>7. R!Regular
  BY <1>0 DEF StrayInv, R!Regular
<1>1. ReleaseInv /\ TypeInv
  BY <1>0, <1>7 DEF IterInv
<1>2. panic = "none" /\ \A c \in Callers : app[c].pc = "done"
  BY DEF R!Running, R!Finished
<1>3. ~KillPending
  BY <1>2 DEF KillPending
<1>4. FirstUnread
  BY <1>1, <1>2, <1>3 DEF ReleaseInv
<1>5. PICK c \in Callers : query.plan[c] # -1 /\ query.plan[c] \in -2..5
  BY <1>1, QueriesAssumption DEF TypeInv
<1>6. app[c].pc \in {"close", "next", "wait"}
  <2>1. app[c].pc \in FirstPcs(query.plan[c])
    BY <1>4 DEF FirstUnread, Waiting
  <2> QED BY <1>5, <2>1 DEF FirstPcs
<1> QED BY <1>2, <1>6

(* For every plan of writes and every query: no batch goes beyond the      *)
(* limit, and Next does not panic over one, unless Batch was beyond it or  *)
(* a reply was cut while getMore was under way, however batches are        *)
(* requested ahead; and but for such a Batch the end of the iteration      *)
(* leaves no cursor open, unless something failed or Close came before     *)
(* the first reply.  The types hold as long as the iterator is regular.    *)
THEOREM CursorsKept ==
    Spec => []((R!Regular => TypeOK) /\ R!LimitIsExact /\ (~R!Overasked => CursorsAreKept))
<1>1. IInv => (R!Regular => TypeOK) /\ R!LimitIsExact /\ (~R!Overasked => CursorsAreKept)
  <2> SUFFICES ASSUME IInv
               PROVE  (R!Regular => TypeOK) /\ R!LimitIsExact /\ (~R!Overasked => CursorsAreKept)
    OBVIOUS
  <2>1. R!LimitIsExact
    <3>1. StrayInv /\ (R!Regular => panic # R!LimitPanic)
      BY DEF IInv, IterInv, TypeInv
    <3> QED BY <3>1 DEF StrayInv, R!Regular, R!LimitIsExact
  <2> QED BY <2>1, ReleaseHolds, TypesHold DEF CursorsAreKept
<1> QED BY <1>1, Invariant, PTL

-----------------------------------------------------------------------------
(* The iteration implements ResultStream: each of its steps is one of      *)
(* ResultStream or changes nothing that is seen there.                     *)

Failed == ~closed /\ iter.err \notin {"nil", "notFound"}
Moves == [R!Stream!Next \/ R!HiddenEnd]_R!Stream!streamVars

(* Nothing the abstract stream sees changes.                               *)
LEMMA Stutters ==
    ASSUME UNCHANGED <<stored, query, returned, closed, ended>>, Failed' <=> Failed
    PROVE  Moves
<1>1. (~closed /\ iter.err \notin {"nil", "notFound"})' = (~closed /\ iter.err \notin {"nil", "notFound"})
  BY DEF Failed
<1>2. R!LimitOf(query.limit)' = R!LimitOf(query.limit)
  OBVIOUS
<1>3. UNCHANGED R!Stream!streamVars
  BY <1>1, <1>2 DEF R!Stream!streamVars
<1> QED BY <1>3 DEF Moves

(* Something failed: the next end may be an error.                         *)
LEMMA Fails ==
    ASSUME UNCHANGED <<stored, query, returned, closed>>, iter'.err \notin {"nil", "notFound"}, ended' \in {ended, "error"}
    PROVE  Moves
<1>1. (~closed /\ iter.err \notin {"nil", "notFound"})' = ~closed
  OBVIOUS
<1>2. R!LimitOf(query.limit)' = R!LimitOf(query.limit)
  OBVIOUS
<1>3. R!Stream!Fail
  BY <1>1, <1>2 DEF R!Stream!Fail
<1> QED BY <1>3 DEF Moves, R!Stream!Next

(* The document returned last is where Position finds it.                  *)
LEMMA PositionFacts ==
    ASSUME TypeInv, ContentInv, ~Failing
    PROVE  R!Stream!Position = Len(returned) /\ Len(returned) <= Len(stored)
<1> DEFINE r == Len(returned)
           n == Len(stored)
<1>1. /\ End <= cursor.pos /\ \A i \in 1..r : returned[i] = stored[i]
  BY DEF ContentInv
<1>2. /\ returned \in Seq(Documents) /\ r \in Nat /\ n \in Nat /\ DOMAIN stored = 1..n
      /\ \A i \in 1..n : stored[i] \in Nat
      /\ \A i, j \in 1..n : i < j => stored[i] < stored[j]
  BY SMTT(40) DEF TypeInv, Documents
<1>3. r <= n
  <2>1. /\ iter.docData.nelems \in Nat /\ PartialLen \in Nat /\ AnswerLen \in Nat /\ cursor.pos \in 0..n
        /\ Received = r + iter.docData.nelems /\ Base = Received + PartialLen /\ End = Base + AnswerLen
    BY TypeFacts DEF Received, Base, End
  <2>2. End <= cursor.pos
    BY <1>1
  <2> DEFINE k == iter.docData.nelems
  <2> HIDE DEF r, n, k
  <2>3. Received = r + k /\ k \in Nat
    BY <2>1 DEF k
  <2> QED BY <1>2, <2>1, <2>2, <2>3, SMTT(40)
<1>4. R!Stream!Position = IF returned = <<>> THEN 0
                          ELSE CHOOSE i \in DOMAIN stored : stored[i] = returned[r]
  BY DEF R!Stream!Position
<1>5. CASE returned = <<>>
  BY <1>3, <1>4, <1>5
<1>6. CASE returned # <<>>
  <2>1. r \in 1..r /\ r \in 1..n
    BY <1>2, <1>3, <1>6
  <2>2. returned[r] = stored[r]
    BY <1>1, <2>1
  <2> HIDE DEF r, n
  <2>3. \A i \in 1..n : stored[i] = stored[r] => i = r
    <3> SUFFICES ASSUME NEW i \in 1..n, stored[i] = stored[r] PROVE i = r
      OBVIOUS
    <3>1. ~(i < r) /\ ~(r < i)
      BY <1>2, <2>1
    <3> QED BY <1>2, <2>1, <3>1
  <2>4. (CHOOSE i \in DOMAIN stored : stored[i] = returned[r]) = r
    BY <1>2, <2>1, <2>2, <2>3
  <2> QED BY <1>3, <1>4, <1>6, <2>4 DEF r, n
<1> QED BY <1>5, <1>6

(* A document returned is the one after the last, and within the limit.    *)
LEMMA Returns ==
    ASSUME IterInv, IterInv', UNCHANGED <<stored, query, closed, ended>>, Opened', iter.docData.nelems > 0,
           NEW d \in Documents, returned' = Append(returned, d), Failed' = Failed \/ Failed' = TRUE
    PROVE  Moves
<1> DEFINE r == Len(returned)
           n == Len(stored)
<1>0. TypeInv /\ ContentInv /\ ErrInv /\ TypeInv' /\ ContentInv' /\ LimitInv' /\ FailInv'
  BY DEF IterInv
<1>1. /\ returned \in Seq(Documents) /\ r \in Nat /\ Len(returned') = r + 1 /\ returned'[r + 1] = d /\ returned' # <<>>
      /\ n \in Nat /\ DOMAIN stored = 1..n
  <2>1. returned \in Seq(Documents) /\ n \in Nat /\ DOMAIN stored = 1..n
    BY <1>0, SMTT(40) DEF TypeInv
  <2>2. returned' = Append(returned, d) /\ d \in Documents
    OBVIOUS
  <2> HIDE DEF n
  <2> QED BY <2>1, <2>2
<1>2. ~Failing /\ ~Failing'
  <2>1. ~Failing'
    BY <1>0, <1>1 DEF FailInv
  <2> QED BY <2>1, SameQuery
<1>3. R!Stream!Position = r
  BY <1>0, <1>2, PositionFacts
<1>4. r + 1 <= n
  <2>1. Len(returned') <= Len(stored')
    <3>1. (TypeInv /\ ContentInv /\ ~Failing => Len(returned) <= Len(stored))'
      BY PositionFacts, PTL
    <3> QED BY <1>0, <1>2, <3>1
  <2> QED BY <1>1, <2>1
<1>5. d = stored[r + 1]
  <2>1. \A i \in 1..Len(returned') : returned'[i] = stored'[i]
    BY <1>0, <1>2 DEF ContentInv
  <2> HIDE DEF r
  <2>2. r + 1 \in 1..Len(returned')
    BY <1>1
  <2> QED BY <1>1, <2>1, <2>2
<1>6. Limit \in Nat /\ (Limit > 0 => r < Limit)
  <2>1. Limit \in Nat /\ (Limited <=> Limit # 0) /\ Limit' = Limit /\ (Limited' <=> Limited)
    BY <1>0, TypeFacts, SameQuery
  <2>2. Limited => iter'.limit = Limit - (r + 1) /\ iter'.limit \in Nat
    <3>1. Limited' => iter'.limit = Limit' - Len(returned')
      BY <1>0, <1>2 DEF LimitInv
    <3>2. iter'.limit \in Nat
      BY <1>0 DEF TypeInv
    <3> QED BY <1>1, <2>1, <3>1, <3>2
  <2> HIDE DEF r
  <2> DEFINE l == iter'.limit
  <2> HIDE DEF l
  <2>3. Limited => l = Limit - (r + 1) /\ l \in Nat
    BY <2>2 DEF l
  <2> QED BY <1>1, <2>1, <2>3
<1>7. ended # "exhausted"
  BY <1>0 DEF ErrInv
<1> HIDE DEF r, n
<1>8. r < R!Stream!Wanted
  <2>1. R!Stream!Wanted = IF Limit > 0 /\ Limit < n THEN Limit ELSE n
    BY DEF R!Stream!Wanted, Limit, n
  <2> QED BY <1>1, <1>4, <1>6, <2>1
<1>9. r + 1 \in DOMAIN stored /\ r + 1 = R!Stream!Position + 1 /\ returned' = Append(returned, stored[r + 1])
  BY <1>1, <1>3, <1>4, <1>5
<1>10. (~closed /\ iter.err \notin {"nil", "notFound"})' \in {(~closed /\ iter.err \notin {"nil", "notFound"}), TRUE}
  BY DEF Failed
<1>11. R!Stream!Return
  <2>1. R!LimitOf(query.limit)' = R!LimitOf(query.limit)
    OBVIOUS
  <2>2. Len(returned) < R!Stream!Wanted
    BY <1>8 DEF r
  <2>3. \E i \in DOMAIN stored : /\ i = R!Stream!Position + 1
                                 /\ returned' = Append(returned, stored[i])
    BY <1>9
  <2> QED BY <1>7, <1>10, <2>1, <2>2, <2>3 DEF R!Stream!Return
<1> QED BY <1>11 DEF Moves, R!Stream!Next

(* Steps of the reading goroutine and the server that keep the error.      *)
LEMMA QuietSteps ==
    ASSUME IterInv, UNCHANGED query,
           R!replyDocument \/ R!connectionDies \/ R!serveBatch \/ R!serveKill \/ R!cursorDropped
    PROVE  Moves
<1>0. TypeInv
  BY DEF IterInv
<1>1. UNCHANGED <<stored, query, returned, closed, ended>> /\ iter'.err = iter.err
  <2>1. CASE R!replyDocument
    BY <1>0, <2>1 DEF TypeInv, R!replyDocument
  <2>2. CASE R!connectionDies
    BY <1>0, <2>2 DEF TypeInv, R!connectionDies, R!ServerVars
  <2>3. CASE R!serveBatch
    BY <1>0, <2>3 DEF TypeInv, R!serveBatch
  <2>4. CASE R!serveKill
    BY <1>0, <2>4 DEF TypeInv, R!serveKill
  <2>5. CASE R!cursorDropped
    BY <1>0, <2>5 DEF TypeInv, R!cursorDropped
  <2> QED BY <2>1, <2>2, <2>3, <2>4, <2>5
<1>2. Failed' <=> Failed
  BY <1>1 DEF Failed
<1> QED BY <1>1, <1>2, Stutters

(* What a caller does, other than returning from Next.                     *)
LEMMA CallerStreams ==
    ASSUME IterInv, NEW c \in Callers,
           R!NextWaits(c) \/ R!NextTimesOut(c) \/ R!Close(c) \/ R!Kill(c)
    PROVE  Moves
<1>0. TypeInv
  BY DEF IterInv
<1>1. CASE R!NextWaits(c) \/ R!NextTimesOut(c)
  <2>1. UNCHANGED <<stored, query, returned, closed, ended>> /\ iter'.err = iter.err
    <3>1. CASE R!NextWaits(c)
      BY <1>0, <3>1 DEF TypeInv, R!NextWaits, R!ServerVars
    <3>2. CASE R!NextTimesOut(c)
      BY <1>0, <3>2 DEF TypeInv, R!NextTimesOut, R!ServerVars
    <3> QED BY <1>1, <3>1, <3>2
  <2>2. Failed' <=> Failed
    BY <2>1 DEF Failed
  <2> QED BY <2>1, <2>2, Stutters
<1>2. CASE R!Close(c)
  <2>1. UNCHANGED <<stored, query, returned, ended>> /\ iter'.err = iter.err
    BY <1>0, <1>2 DEF TypeInv, R!Close, R!ServerVars
  <2>2. closed' = (closed \/ (app[c].pc = "close" /\ iter.err = "nil")) /\ closed \in BOOLEAN
    BY <1>0, <1>2 DEF TypeInv, R!Close
  <2>3. CASE closed' = closed
    <3>1. Failed' <=> Failed
      BY <2>1, <2>3 DEF Failed
    <3> QED BY <2>1, <2>3, <3>1, Stutters
  <2>4. CASE closed' # closed
    <3>1. closed' = TRUE
      BY <2>2, <2>4
    <3>2. (~closed /\ iter.err \notin {"nil", "notFound"})' = FALSE
      BY <3>1
    <3>3. R!LimitOf(query.limit)' = R!LimitOf(query.limit)
      BY <2>1
    <3>4. R!Stream!Close
      BY <2>1, <3>1, <3>2, <3>3 DEF R!Stream!Close
    <3> QED BY <3>4 DEF Moves, R!Stream!Next
  <2> QED BY <2>3, <2>4
<1>3. CASE R!Kill(c)
  <2>1. UNCHANGED <<stored, query, returned, closed, ended>>
    BY <1>3 DEF R!Kill
  <2>2. \/ iter' = iter
        \/ iter' = [iter EXCEPT !.err = IF @ \in {"nil", "notFound"} THEN "net" ELSE @]
    BY <1>3 DEF R!Kill
  <2>3. iter'.err = iter.err \/ iter'.err = "net"
    BY <1>0, <2>2 DEF TypeInv
  <2>4. CASE iter'.err = iter.err
    <3>1. Failed' <=> Failed
      BY <2>1, <2>4 DEF Failed
    <3> QED BY <2>1, <3>1, Stutters
  <2>5. CASE iter'.err = "net"
    BY <2>1, <2>5, Fails
  <2> QED BY <2>3, <2>4, <2>5
<1> QED BY <1>1, <1>2, <1>3

(* The iterator is opened, or that fails.                                  *)
LEMMA OpeningStreams ==
    ASSUME IterInv, R!Iter \/ R!NewIter
    PROVE  Moves
<1>0. TypeInv /\ StageInv
  BY DEF IterInv
<1>1. UNCHANGED <<stored, query, returned, closed, ended>>
  BY DEF R!Iter, R!NewIter
<1>2. iter'.err \in {"nil", "net"} /\ iter.err = "nil"
  <2>1. ~R!Opened
    BY DEF R!Iter, R!NewIter
  <2>2. iter = R!Unopened
    BY <1>0, <2>1 DEF StageInv, Opened, R!Opened
  <2>3. CASE R!Iter
    <3>1. iter' = R!IterOf("nil") \/ iter' = R!IterOf("net")
      BY <2>3 DEF R!Iter
    <3> QED BY <2>2, <3>1 DEF R!IterOf, R!Unopened
  <2>4. CASE R!NewIter
    <3>1. \/ \E n, id : iter' = [R!Unopened EXCEPT !.cursorId = id, !.docData = R!FirstBatch(n)]
          \/ iter' = [R!Unopened EXCEPT !.err = "net"]
      <4>1. \/ \E n \in 0..Len(stored) :
                 iter' = [R!Unopened EXCEPT !.cursorId = IF n < Len(stored) THEN 1 ELSE 0, !.docData = R!FirstBatch(n)]
            \/ iter' = [R!Unopened EXCEPT !.err = "net"]
        BY <2>4, Zenon DEF R!NewIter
      <4> QED BY <4>1
    <3> QED BY <2>2, <3>1 DEF R!Unopened
  <2> QED BY <2>2, <2>3, <2>4
<1>3. CASE iter'.err = "nil"
  <2>1. Failed' <=> Failed
    BY <1>1, <1>2, <1>3 DEF Failed
  <2> QED BY <1>1, <2>1, Stutters
<1>4. CASE iter'.err = "net"
  BY <1>1, <1>4, Fails
<1> QED BY <1>2, <1>3, <1>4

(* An empty reply, or one that is cut: the end may be an error.            *)
LEMMA ReplyStreams ==
    ASSUME IterInv, UNCHANGED query, R!replyEmpty \/ R!replyCut
    PROVE  Moves
<1>0. TypeInv /\ ReplyInv /\ OneRequest /\ ErrInv
  BY DEF IterInv
<1>1. UNCHANGED <<stored, query, returned, closed, ended>>
  BY DEF R!replyEmpty, R!replyCut
<1>2. CASE R!replyEmpty
  <2>1. replies # <<>> /\ Head(replies).docs = <<>>
    BY <1>2 DEF R!replyEmpty
  <2>2. iter.err = "nil" \/ closed
    BY <1>0, <2>1, EmptyReply DEF ErrInv
  <2>3. iter'.err = iter.err \/ iter'.err = "cursor" \/ iter'.err = "notFound"
    <3>1. iter' = [iter EXCEPT
            !.docsToReceive = @ - 1,
            !.cursorId = IF Head(replies).cursorId # 0 THEN Head(replies).cursorId ELSE @,
            !.err = IF Head(replies).cursorId # 0 THEN @
                    ELSE IF Head(replies).notFound THEN "cursor" ELSE "notFound"]
      BY <1>2 DEF R!replyEmpty
    <3> QED BY <1>0, <3>1 DEF TypeInv
  <2>4. CASE iter'.err = "cursor"
    BY <1>1, <2>4, Fails
  <2>5. CASE iter'.err # "cursor"
    <3>1. Failed' <=> Failed
      BY <1>1, <2>2, <2>3, <2>5 DEF Failed
    <3> QED BY <1>1, <3>1, Stutters
  <2> QED BY <2>4, <2>5
<1>3. CASE R!replyCut
  <2>1. iter'.err = "net"
    BY <1>0, <1>3 DEF TypeInv, R!replyCut
  <2> QED BY <1>1, <2>1, Fails
<1> QED BY <1>2, <1>3

(* Documents are added at the end.                                         *)
LEMMA Grows ==
    ASSUME TypeInv, UNCHANGED <<query, returned, closed, ended, iter>>, stored' \in Seq(Documents),
           Len(stored') > Len(stored), \A i \in 1..Len(stored) : stored'[i] = stored[i]
    PROVE  Moves
<1> DEFINE n == Len(stored)
<1>1. stored \in Seq(Documents) /\ n \in Nat /\ stored' \in Seq(Documents) /\ Len(stored') \in Nat
  BY DEF TypeInv
<1>2. SubSeq(stored', 1, n) = stored
  <2>1. n <= Len(stored')
    BY <1>1
  <2>2. /\ SubSeq(stored', 1, n) \in Seq(Documents) /\ Len(SubSeq(stored', 1, n)) = n
        /\ \A i \in 1..n : SubSeq(stored', 1, n)[i] = stored'[i]
    <3> HIDE DEF n
    <3> QED BY <1>1, <2>1
  <2> DEFINE s == SubSeq(stored', 1, n)
  <2>3. s \in Seq(Documents) /\ Len(s) = Len(stored) /\ \A i \in 1..Len(s) : s[i] = stored[i]
    BY <2>2
  <2> HIDE DEF s
  <2>4. s = stored
    BY <1>1, <2>3, SeqEqual
  <2> QED BY <2>4 DEF s
<1>3. (~closed /\ iter.err \notin {"nil", "notFound"})' = (~closed /\ iter.err \notin {"nil", "notFound"})
  OBVIOUS
<1>4. R!LimitOf(query.limit)' = R!LimitOf(query.limit)
  OBVIOUS
<1>5. R!Stream!Grow
  BY <1>2, <1>3, <1>4 DEF R!Stream!Grow
<1> QED BY <1>5 DEF Moves, R!Stream!Next

(* A document is added for a tailable cursor.                              *)
LEMMA GrowStreams ==
    ASSUME IterInv, R!Grow
    PROVE  Moves
<1>0. TypeInv
  BY DEF IterInv
<1>1. UNCHANGED <<query, returned, closed, ended, iter>>
  BY DEF R!Grow
<1>2. /\ stored' \in Seq(Documents) /\ Len(stored') = Len(stored) + 1
      /\ \A i \in 1..Len(stored) : stored'[i] = stored[i]
  BY <1>0, GrowFacts
<1>3. Len(stored) \in Nat
  BY <1>0, TypeFacts
<1> QED BY <1>0, <1>1, <1>2, <1>3, Grows

(* What was written is what is read.                                       *)
LEMMA StartReadingStreams ==
    ASSUME IterInv, IterInv', StartReading
    PROVE  Moves
<1>0. TypeInv /\ StageInv /\ TypeInv'
  BY DEF IterInv
<1>1. stored = <<>> /\ UNCHANGED <<query, returned, closed, ended, iter>>
  BY <1>0 DEF StartReading, StageInv
<1>2. stored' \in Seq(Documents)
  BY <1>0 DEF TypeInv
<1>3. CASE stored' = <<>>
  <2>1. Failed' <=> Failed
    BY <1>1 DEF Failed
  <2> QED BY <1>1, <1>3, <2>1, Stutters
<1>4. CASE stored' # <<>>
  <2>1. Len(stored) = 0 /\ Len(stored') > 0
    BY <1>1, <1>2, <1>4
  <2>2. \A i \in 1..Len(stored) : stored'[i] = stored[i]
    BY <2>1
  <2> QED BY <1>0, <1>1, <1>2, <2>1, <2>2, Grows
<1> QED BY <1>3, <1>4

(* The end of the result set, or of what the limit allows, is the only one *)
(* that is taken for it.                                                   *)
LEMMA Exhausts ==
    ASSUME IterInv', UNCHANGED <<stored, query, returned, closed>>, Opened', iter'.err = "notFound",
           iter'.docData.nelems = 0, ended = "no", ended' = "exhausted", ~Failed
    PROVE  Moves
<1>0. TypeInv' /\ QueryInv' /\ ContentInv' /\ LimitInv' /\ EndInv' /\ FailInv'
  BY DEF IterInv
<1>1. CASE Failing
  <2>1. Failing' /\ Limit' = Limit
    BY <1>1, SameQuery
  <2>2. CASE Requests' # {}
    <3>1. \A i \in Requests' : wire'[i].op = "query"
      BY <1>0, <2>1 DEF FailInv
    <3>2. Waiting'
      BY <1>0, <2>2, <3>1 DEF QueryInv, Requests
    <3> QED BY <3>2 DEF Waiting
  <2>3. CASE Requests' = {}
    <3>1. Limit' = 1
      BY <1>0, <2>1, <2>3 DEF FailInv
    <3> QED BY <1>1, <2>1, <3>1 DEF Moves, R!HiddenEnd, R!HiddenError, Failing, Limit
  <2> QED BY <2>2, <2>3
<1>2. SUFFICES ASSUME ~Failing PROVE Moves
  BY <1>1
<1>3. closed \/ Len(returned) = R!Stream!Wanted
  <2> SUFFICES ASSUME ~closed PROVE Len(returned) = R!Stream!Wanted
    OBVIOUS
  <2>1. ~Failing'
    BY <1>2, SameQuery
  <2>2. Complete(Received)'
    BY <1>0, <2>1 DEF EndInv
  <2> DEFINE r == Len(returned)
             n == Len(stored)
  <2>3. /\ r \in Nat /\ n \in Nat /\ Limit \in Nat /\ (Limited <=> Limit # 0)
        /\ Received' \in Nat /\ PartialLen' \in Nat /\ Base' = Received' + PartialLen'
        /\ Limit' = Limit /\ (Limited' <=> Limited)
    <3>1. (TypeInv => /\ Len(returned) \in Nat /\ Len(stored) \in Nat /\ Limit \in Nat /\ (Limited <=> Limit # 0)
                      /\ Received \in Nat /\ PartialLen \in Nat)'
      BY TypeFacts, PTL
    <3>2. Limit' = Limit /\ (Limited' <=> Limited)
      BY SameQuery
    <3>3. Base' = Received' + PartialLen'
      BY DEF Base
    <3> QED BY <1>0, <3>1, <3>2, <3>3
  <2>4. Received' = r
    BY <2>3 DEF Received
  <2>5. r <= n
    <3>1. (TypeInv /\ ContentInv /\ ~Failing => Len(returned) <= Len(stored))'
      BY PositionFacts, PTL
    <3> QED BY <1>0, <2>1, <3>1
  <2>6. Limited => Base' <= Limit
    BY <1>0, <2>1, <2>3 DEF LimitInv
  <2>7. r = n \/ (Limited /\ r = Limit)
    BY <2>2, <2>3, <2>4 DEF Complete
  <2>8. R!Stream!Wanted = IF Limit > 0 /\ Limit < n THEN Limit ELSE n
    BY DEF R!Stream!Wanted, Limit
  <2> HIDE DEF r, n
  <2>9. Limited => r <= Limit
    <3> DEFINE b == Base'
               p == PartialLen'
    <3>1. b = r + p /\ p \in Nat
      BY <2>3, <2>4
    <3> HIDE DEF b, p
    <3>2. Limited => b <= Limit
      BY <2>6 DEF b
    <3> QED BY <2>3, <3>1, <3>2
  <2>10. r = R!Stream!Wanted
    BY <2>3, <2>5, <2>7, <2>8, <2>9
  <2> QED BY <2>10 DEF r
<1>4. (~closed /\ iter.err \notin {"nil", "notFound"})' = FALSE /\ (~closed /\ iter.err \notin {"nil", "notFound"}) = FALSE
  BY DEF Failed
<1>5. R!LimitOf(query.limit)' = R!LimitOf(query.limit)
  OBVIOUS
<1>6. R!Stream!Exhaust
  BY <1>3, <1>4, <1>5 DEF R!Stream!Exhaust
<1> QED BY <1>6 DEF Moves, R!Stream!Next

(* What Deliver returns, be it the end, an error or a document.            *)
LEMMA DeliverStreams ==
    ASSUME IterInv, IterInv', UNCHANGED <<stored, query, closed>>, Opened, Opened',
           NEW c \in Callers, NEW it, Typed(it), R!Deliver(c, it), ~TooMany(it),
           it.docData = iter.docData, it.limit = iter.limit, it.cursorId = iter.cursorId, it.err = iter.err
    PROVE  Moves
<1> DEFINE n == iter.docData.nelems
           doc == Item(iter.docData, 1)
<1>0. TypeInv /\ ContentInv /\ LimitInv /\ FailInv /\ Ring(it.docData) /\ n \in Nat
  BY TypeFacts DEF IterInv
<1>1. CASE n = 0
  <2>1. DeliversNothing(c, it)
    BY <1>0, <1>1, DeliverFacts
  <2>2. /\ iter'.err = (IF it.err = "nil" THEN "notFound" ELSE it.err) /\ iter'.docData = iter.docData
        /\ ended' = IF it.err \in {"nil", "notFound"} THEN (IF ended = "no" THEN "exhausted" ELSE ended) ELSE "error"
        /\ UNCHANGED returned
    BY <2>1 DEF DeliversNothing, Typed
  <2>3. CASE it.err \notin {"nil", "notFound"}
    BY <2>2, <2>3, Fails
  <2>4. CASE it.err \in {"nil", "notFound"}
    <3>1. ~Failed /\ ~Failed' /\ iter'.err = "notFound"
      BY <2>2, <2>4 DEF Failed
    <3>2. CASE ended = "no"
      <4>1. ended' = "exhausted" /\ iter'.docData.nelems = 0
        BY <1>1, <2>2, <2>4, <3>2
      <4> QED BY <2>2, <3>1, <3>2, <4>1, Exhausts
    <3>3. CASE ended # "no"
      <4>1. ended' = ended
        BY <2>2, <2>4, <3>3
      <4> QED BY <2>2, <3>1, <4>1, Stutters
    <3> QED BY <3>2, <3>3
  <2> QED BY <2>3, <2>4
<1>2. CASE n > 0 /\ doc = R!ErrorDoc
  <2>1. DeliversError(c, it)
    BY <1>0, <1>2, DeliverFacts
  <2>2. Failing
    BY <1>0, <1>2, DocumentFacts
  <2>3. iter.err = "nil" /\ iter.limit = Limit /\ iter.cursorId = 0
    BY <1>0, <1>2, <2>2 DEF FailInv
  <2>4. /\ iter'.err = (IF iter.limit = 1 THEN "notFound" ELSE "query") /\ UNCHANGED returned
        /\ ended' = IF iter'.err = "notFound" THEN (IF ended = "no" THEN "exhausted" ELSE ended) ELSE "error"
    BY <2>1, <2>3 DEF DeliversError
  <2>5. CASE iter.limit = 1 /\ ended' # ended
    BY <2>2, <2>3, <2>4, <2>5 DEF Moves, R!HiddenEnd, R!HiddenError, Failing, Limit
  <2>6. CASE iter.limit = 1 /\ ended' = ended
    <3>1. ~Failed /\ ~Failed'
      BY <2>3, <2>4, <2>6 DEF Failed
    <3> QED BY <2>4, <2>6, <3>1, Stutters
  <2>7. CASE iter.limit # 1
    BY <2>4, <2>7, Fails
  <2> QED BY <2>5, <2>6, <2>7
<1>3. CASE n > 0 /\ doc # R!ErrorDoc
  <2>1. DeliversDoc(c, it)
    BY <1>0, <1>3, DeliverFacts
  <2>2. ~Failing
    BY <1>0, <1>3 DEF FailInv
  <2>3. doc \in Documents
    BY <1>0, <1>3, <2>2, DocumentFacts
  <2>4. /\ iter'.err = (IF iter.limit = 1 THEN "notFound" ELSE it.err)
        /\ returned' = Append(returned, doc) /\ UNCHANGED ended
    BY <2>1 DEF DeliversDoc
  <2>5. iter.limit = 1 => ~Failed
    <3> SUFFICES ASSUME iter.limit = 1, iter.err # "nil", ~closed PROVE FALSE
      BY DEF Failed
    <3> DEFINE r == Len(returned)
    <3>1. Limited
      BY <1>0 DEF LimitInv
    <3>2. 1 = Limit - r /\ Base < Limit
      BY <1>0, <2>2, <3>1 DEF LimitInv
    <3>3. r \in Nat /\ PartialLen \in Nat /\ Limit \in Nat /\ Base = (r + n) + PartialLen
      BY <1>0, TypeFacts DEF Base, Received
    <3> HIDE DEF r, n
    <3> QED BY <1>0, <1>3, <3>2, <3>3
  <2>6. Failed' = Failed \/ Failed' = TRUE
    <3>1. CASE iter.limit = 1
      BY <2>4, <2>5, <3>1 DEF Failed
    <3>2. CASE iter.limit # 1
      BY <2>4, <3>2 DEF Failed
    <3> QED BY <3>1, <3>2
  <2> HIDE DEF doc
  <2> QED BY <1>3, <2>3, <2>4, <2>6, Returns
<1> HIDE DEF n
<1> QED BY <1>0, <1>1, <1>2, <1>3

(* Whoever is returned from Next had opened the iterator.                  *)
LEMMA DeliverOpened ==
    ASSUME TypeInv, StageInv, NEW c \in Callers, app[c].pc # "start", NEW it, Typed(it), it.docData = iter.docData,
           R!Deliver(c, it), ~TooMany(it)
    PROVE  Opened /\ Opened'
<1>1. Ring(it.docData) /\ it.docData.nelems \in Nat
  BY TypeFacts
<1>2. R!ReturnTrue(c) \/ \E pc \in {"close", "limitClose", "prefetch"} : R!Go(c, pc)
  <2>1. DeliversNothing(c, it) \/ DeliversError(c, it) \/ DeliversDoc(c, it)
    <3>1. it.docData.nelems = 0 \/ it.docData.nelems > 0
      BY <1>1
    <3> QED BY <1>1, <3>1, DeliverFacts
  <2>2. CASE DeliversNothing(c, it) \/ DeliversError(c, it)
    BY <2>2 DEF DeliversNothing, DeliversError
  <2>3. CASE DeliversDoc(c, it)
    BY <2>3 DEF DeliversDoc
  <2> QED BY <2>1, <2>2, <2>3
<1>3. \E pc \in R!Pcs \ {"start"} : Moved(c, pc)
  BY <1>2, ReturnMoves, GoMoves DEF R!Pcs
<1> QED BY <1>3, MovedFacts

(* Next returns.                                                           *)
LEMMA NextDeliversStreams ==
    ASSUME IterInv, IterInv', UNCHANGED <<query, reading>>, NEW c \in Callers, R!NextDelivers(c)
    PROVE  Moves
<1> DEFINE it == [iter EXCEPT !.timedout = FALSE]
<1>0. TypeInv /\ StageInv /\ TypeInv'
  BY DEF IterInv
<1>1. app[c].pc = "next" /\ R!Deliver(c, it) /\ UNCHANGED <<query, stored, closed>>
  BY DEF R!NextDelivers, R!ServerVars
<1>2. /\ Typed(it) /\ it.docData = iter.docData /\ it.err = iter.err /\ it.limit = iter.limit
      /\ it.cursorId = iter.cursorId
  BY <1>0 DEF TypeInv, Typed
<1> HIDE DEF it
<1>4. ~TooMany(it)
  <2>1. TooMany(it) => panic' = R!LimitPanic
    BY <1>0, <1>1, <1>2, TypeFacts, DeliverFacts
  <2> QED BY <1>0, <2>1 DEF TypeInv
<1>3. Opened /\ Opened'
  BY <1>0, <1>1, <1>2, <1>4, DeliverOpened DEF StageInv
<1> QED BY <1>1, <1>2, <1>3, <1>4, DeliverStreams

(* The request for more, which Next returns after when an error came, or   *)
(* that it could not be sent.                                              *)
LEMMA getMoreStreams ==
    ASSUME IterInv, UNCHANGED query, NEW c \in Callers, R!getMore(c) \/ R!getMoreFails(c)
    PROVE  Moves
<1>0. TypeInv
  BY DEF IterInv
<1>1. /\ app[c].pc \in {"getMore", "prefetch"} /\ UNCHANGED <<query, stored, closed>>
  BY DEF R!getMore, R!getMoreFails, R!ServerVars
<1>2. /\ iter.err # "notFound" /\ (app[c].pc = "getMore" => iter.docData.nelems = 0)
      /\ R!Wanting \in Int /\ iter.docsToReceive \in Nat \ {0} /\ Typed(iter)
  BY <1>1, AskingFacts
<1>3. CASE R!getMoreFails(c)
  <2>1. PICK it \in R!Unsent :
          IF app[c].pc = "getMore" THEN R!Deliver(c, it)
          ELSE iter' = it /\ R!ReturnTrue(c) /\ UNCHANGED <<returned, ended, panic>>
    BY <1>3 DEF R!getMoreFails
  <2>2. Typed(it) /\ it.err = "net" /\ it.docData = iter.docData
    BY <1>2, <2>1, UnsentFacts
  <2>3. iter' = it /\ ended' \in {ended, "error"} /\ UNCHANGED returned
    BY <1>0, <1>2, <2>1, <2>2, FailureDelivered
  <2> QED BY <1>1, <2>2, <2>3, Fails
<1>4. CASE R!getMore(c)
  <2> DEFINE it == [iter EXCEPT !.opLimit = R!Wanting]
  <2>1. IF app[c].pc = "getMore" /\ iter.err # "nil" THEN R!Deliver(c, it)
        ELSE iter' = it /\ UNCHANGED <<returned, ended>>
    BY <1>4 DEF R!getMore
  <2>2. Typed(it) /\ it.err = iter.err /\ it.docData = iter.docData
    BY <1>2 DEF Typed
  <2> HIDE DEF it
  <2>3. CASE app[c].pc = "getMore" /\ iter.err # "nil"
    <3>1. iter' = it /\ ended' = "error" /\ UNCHANGED returned
      BY <1>0, <1>2, <2>1, <2>2, <2>3, FailureDelivered
    <3> QED BY <1>1, <1>2, <2>2, <2>3, <3>1, Fails
  <2>4. CASE ~(app[c].pc = "getMore" /\ iter.err # "nil")
    <3>1. iter'.err = iter.err /\ UNCHANGED <<returned, ended>>
      BY <2>1, <2>2, <2>4
    <3>2. Failed' <=> Failed
      BY <1>1, <3>1 DEF Failed
    <3> QED BY <1>1, <3>1, <3>2, Stutters
  <2> QED BY <2>3, <2>4
<1> QED BY <1>3, <1>4

-----------------------------------------------------------------------------
(* Every step of the program is a step of ResultStream.                    *)

(* A step of the iterator, the server or the connection.                   *)
LEMMA ReadStreams ==
    ASSUME IterInv, IterInv', R!Next, UNCHANGED reading
    PROVE  Moves
<1>1. UNCHANGED query
  BY DEF R!Next, R!Iter, R!NewIter, R!NextWaits, R!NextTimesOut, R!NextDelivers, R!getMore, R!getMoreFails,
         R!Close, R!Kill, R!replyDocument, R!replyEmpty, R!replyCut, R!connectionDies, R!serveBatch,
         R!serveKill, R!Grow, R!cursorDropped
<1>2. CASE R!Iter \/ R!NewIter
  BY <1>2, OpeningStreams
<1>3. ASSUME NEW c \in Callers,
             R!NextWaits(c) \/ R!NextTimesOut(c) \/ R!Close(c) \/ R!Kill(c)
      PROVE  Moves
  BY <1>3, CallerStreams
<1>4. ASSUME NEW c \in Callers, R!NextDelivers(c) PROVE Moves
  BY <1>1, <1>4, NextDeliversStreams
<1>5. ASSUME NEW c \in Callers, R!getMore(c) \/ R!getMoreFails(c) PROVE Moves
  BY <1>1, <1>5, getMoreStreams
<1>6. CASE R!replyEmpty \/ R!replyCut
  BY <1>1, <1>6, ReplyStreams
<1>7. CASE R!replyDocument \/ R!connectionDies \/ R!serveBatch \/ R!serveKill \/ R!cursorDropped
  BY <1>1, <1>7, QuietSteps
<1>8. CASE R!Grow
  BY <1>8, GrowStreams
<1> QED BY <1>2, <1>3, <1>4, <1>5, <1>6, <1>7, <1>8, SMTT(40) DEF R!Next

(* And of the writes, which the stream does not see.                       *)
LEMMA StepMoves == IInv /\ IInv' /\ [Next]_vars /\ R!Regular' => Moves
<1> SUFFICES ASSUME IInv, IInv', [Next]_vars, R!Regular' PROVE Moves
  OBVIOUS
<1>0. IterInv' /\ (R!Regular => IterInv)
  BY DEF IInv
<1>1. CASE UNCHANGED iterating
  <2>1. UNCHANGED <<stored, query, returned, closed, ended, iter>>
    BY <1>1 DEF iterating
  <2>2. Failed' <=> Failed
    BY <2>1 DEF Failed
  <2> QED BY <2>1, <2>2, Stutters
<1>2. CASE StartReading
  <2>1. R!Regular
    BY <1>2 DEF StartReading, R!Regular
  <2> QED BY <1>0, <1>2, <2>1, StartReadingStreams
<1>3. CASE R!Next /\ UNCHANGED <<writing, reading>>
  BY <1>0, <1>3, RegularBefore, ReadStreams
<1> QED BY <1>1, <1>2, <1>3 DEF Next, Step, Done, vars

(* At first nothing was returned, closed or ended.                         *)
LEMMA InitStreams == Init => R!Stream!Init
<1> SUFFICES ASSUME Init PROVE R!Stream!Init
  OBVIOUS
<1>1. returned = <<>> /\ closed = FALSE /\ ended = "no" /\ iter.err = "nil"
  BY DEF Init, R!Init, R!Unopened
<1>2. (~closed /\ iter.err \notin {"nil", "notFound"}) = FALSE
  BY <1>1
<1> QED BY <1>1, <1>2 DEF R!Stream!Init

(* For every plan of writes and every query: however many batches the      *)
(* documents come in, however they are requested ahead and whoever calls   *)
(* Next, the iterator returns every document once and in order, ends       *)
(* without an error only after the last one, or the last one the limit     *)
(* allows, and leaves none out unless something failed: until, in a query  *)
(* with a Batch above its Limit, more came than the limit allows, or a     *)
(* reply was cut while getMore was under way, and but for the end of a     *)
(* failing query with a limit of 1.                                        *)
THEOREM IteratorImplementsStream == Spec => ImplementsStream
<1>1. Init => R!Stream!Init
  BY InitStreams
<1>2. IInv /\ IInv' /\ [Next]_vars => [R!StreamStep]_R!Stream!streamVars
  BY StepMoves DEF R!StreamStep, Moves
<1>3. Spec => []IInv
  BY Invariant
<1>4. Spec => R!Stream!Init /\ [][R!StreamStep]_R!Stream!streamVars
  BY <1>1, <1>2, <1>3, PTL DEF Spec
<1> QED BY <1>4 DEF ImplementsStream, R!ImplementsStream

-----------------------------------------------------------------------------
(* What the writes did and reported.                                       *)

(* One more operation.                                                     *)
LEMMA CarryProgress ==
    ASSUME NEW ops \in Seq(Operations), NEW goOn \in BOOLEAN, NEW i \in Nat, i < Len(ops),
           NEW r \in Carryings, Progress(ops, goOn, i, r)
    PROVE  Progress(ops, goOn, i + 1, W!Carry(r, ops[i + 1]))
<1> DEFINE op == ops[i + 1]
           there == op.doc \in r.docs
           n == IF op.op # "insert" /\ (there \/ op.op = "upsert") THEN 1 ELSE 0
           docs == IF W!Kind(op.op) = "remove" THEN r.docs \ {op.doc}
                   ELSE IF op.op \in {"insert", "upsert"} THEN r.docs \cup {op.doc} ELSE r.docs
           bad == op \in plan.rejected \/ (op.op = "insert" /\ there)
           up == r.upserted \/ (op.op = "upsert" /\ ~there)
           e == [r EXCEPT !.errors = Append(r.errors, op), !.stop = ~r.goOn]
           d == [r EXCEPT !.docs = docs, !.done = Append(r.done, op), !.n = r.n + n, !.upserted = up]
<1>0. i + 1 \in 1..Len(ops) /\ op \in Operations
  OBVIOUS
<1>1. /\ r \in [docs : SUBSET Documents, done : Seq(Operations), errors : Seq(Operations), n : Nat,
                upserted : BOOLEAN, stop : BOOLEAN, goOn : BOOLEAN]
  BY DEF Carryings
<1>2. W!Carry(r, op) = IF r.stop THEN r ELSE IF bad THEN e ELSE d
  BY DEF W!Carry
<1>3. bad \/ (op \notin plan.rejected)
  OBVIOUS
<1>4. bad => ~(op \notin plan.rejected /\ op.op # "insert")
  OBVIOUS
<1>5. /\ e.done = r.done /\ e.errors = Append(r.errors, op) /\ e.stop = ~r.goOn /\ e.goOn = r.goOn
      /\ d.done = Append(r.done, op) /\ d.errors = r.errors /\ d.stop = r.stop /\ d.goOn = r.goOn
  BY <1>1
<1>6. r.done \in Seq(Operations) /\ r.errors \in Seq(Operations) /\ r.stop \in BOOLEAN /\ r.goOn \in BOOLEAN
  BY <1>1
<1> HIDE DEF there, n, docs, bad, up, e, d
<1>7. \A k \in 1..(i + 1) : k = i + 1 \/ k \in 1..i
  OBVIOUS
<1>8. \A k \in 1..i : k \in 1..(i + 1)
  OBVIOUS
<1>9. i + 1 \in 1..(i + 1)
  OBVIOUS
<1>10. Injective(ops) => \A k \in 1..i : ops[k] # op
  BY <1>0 DEF Injective
<1>11. op = ops[i + 1]
  OBVIOUS
<1> HIDE DEF op
<1>12. CASE r.stop
  <2>1. ~goOn /\ W!Carry(r, op) = r
    BY <1>2, <1>12 DEF Progress, ProgressOf
  <2>2. Progress(ops, goOn, i + 1, r)
    BY <1>8, <1>12, <2>1 DEF Progress, ProgressOf
  <2> QED BY <1>11, <2>1, <2>2
<1>13. CASE ~r.stop /\ bad
  <2> DEFINE es == Append(r.errors, op)
             m == Len(r.errors)
  <2>1. /\ es \in Seq(Operations) /\ Len(es) = m + 1 /\ m \in Nat /\ es # <<>>
        /\ es[m + 1] = op /\ \A j \in 1..m : es[j] = r.errors[j]
    BY <1>0, <1>6, AppendOne
  <2>2. \A j \in 1..(m + 1) : j = m + 1 \/ j \in 1..m
    BY <2>1
  <2>3. m + 1 \in 1..(m + 1) /\ \A j \in 1..m : j \in 1..(m + 1)
    BY <2>1
  <2>4. e.done = r.done /\ e.errors = es /\ e.stop = ~goOn /\ e.goOn = goOn
    BY <1>5 DEF Progress, ProgressOf
  <2>5. \A j \in 1..Len(r.done) : \E k \in 1..(i + 1) : r.done[j] = ops[k]
    BY <1>8 DEF Progress, ProgressOf
  <2>6. \A j \in 1..(m + 1) : \E k \in 1..(i + 1) : es[j] = ops[k]
    BY <1>8, <1>9, <1>11, <2>1, <2>2 DEF Progress, ProgressOf
  <2>7. Injective(ops) => /\ Injective(r.done)
                          /\ \A j \in 1..Len(r.done) : \A k \in 1..(m + 1) : r.done[j] # es[k]
    <3> SUFFICES ASSUME Injective(ops)
                 PROVE  Injective(r.done) /\ \A j \in 1..Len(r.done) : \A k \in 1..(m + 1) : r.done[j] # es[k]
      OBVIOUS
    <3>1. Injective(r.done) /\ \A j \in 1..Len(r.done) : \A k \in 1..m : r.done[j] # r.errors[k]
      BY DEF Progress, ProgressOf
    <3>2. \A j \in 1..Len(r.done) : r.done[j] # op
      BY <1>10 DEF Progress, ProgressOf
    <3> QED BY <2>1, <2>2, <3>1, <3>2
  <2>8. \A k \in 1..(i + 1) : \/ \E j \in 1..Len(r.done) : r.done[j] = ops[k]
                              \/ \E j \in 1..(m + 1) : es[j] = ops[k]
    <3> SUFFICES ASSUME NEW k \in 1..(i + 1)
                 PROVE  \/ \E j \in 1..Len(r.done) : r.done[j] = ops[k]
                        \/ \E j \in 1..(m + 1) : es[j] = ops[k]
      OBVIOUS
    <3>1. CASE k = i + 1
      BY <1>11, <2>1, <2>3, <3>1
    <3>2. CASE k \in 1..i
      <4>1. \/ \E j \in 1..Len(r.done) : r.done[j] = ops[k]
            \/ \E j \in 1..m : r.errors[j] = ops[k]
        BY <1>13, <3>2 DEF Progress, ProgressOf
      <4> HIDE DEF es, m
      <4> QED BY <2>1, <2>3, <4>1
    <3> QED BY <1>7, <3>1, <3>2
  <2>9. ~(\A k \in 1..Len(ops) : ops[k] \notin plan.rejected /\ ops[k].op # "insert")
    <3>1. ~(op \notin plan.rejected /\ op.op # "insert")
      BY <1>4, <1>13
    <3> QED BY <1>0, <1>11, <3>1
  <2>10. ~goOn => Begins(r.done, ops)
    BY DEF Progress, ProgressOf
  <2> HIDE DEF es, m
  <2>11. ProgressOf(ops, goOn, i + 1, r.done, es, ~goOn)
    BY <2>1, <2>5, <2>6, <2>7, <2>8, <2>9, <2>10 DEF ProgressOf
  <2>12. Progress(ops, goOn, i + 1, e)
    BY <2>4, <2>11 DEF Progress
  <2> QED BY <1>2, <1>11, <1>13, <2>12
<1>14. CASE ~r.stop /\ ~bad
  <2> DEFINE ds == Append(r.done, op)
             m == Len(r.done)
  <2>1. /\ ds \in Seq(Operations) /\ Len(ds) = m + 1 /\ m \in Nat
        /\ ds[m + 1] = op /\ \A j \in 1..m : ds[j] = r.done[j]
    BY <1>0, <1>6, AppendOne
  <2>2. \A j \in 1..(m + 1) : j = m + 1 \/ j \in 1..m
    BY <2>1
  <2>3. m + 1 \in 1..(m + 1) /\ \A j \in 1..m : j \in 1..(m + 1)
    BY <2>1
  <2>4. d.done = ds /\ d.errors = r.errors /\ d.stop = r.stop /\ d.goOn = goOn
    BY <1>5 DEF Progress, ProgressOf
  <2>5. \A j \in 1..(m + 1) : \E k \in 1..(i + 1) : ds[j] = ops[k]
    BY <1>8, <1>9, <1>11, <2>1, <2>2 DEF Progress, ProgressOf
  <2>6. \A j \in 1..Len(r.errors) : \E k \in 1..(i + 1) : r.errors[j] = ops[k]
    BY <1>8 DEF Progress, ProgressOf
  <2>7. Injective(ops) => /\ Injective(ds)
                          /\ \A j \in 1..(m + 1) : \A k \in 1..Len(r.errors) : ds[j] # r.errors[k]
    <3> SUFFICES ASSUME Injective(ops)
                 PROVE  Injective(ds) /\ \A j \in 1..(m + 1) : \A k \in 1..Len(r.errors) : ds[j] # r.errors[k]
      OBVIOUS
    <3>1. Injective(r.done) /\ \A j \in 1..m : \A k \in 1..Len(r.errors) : r.done[j] # r.errors[k]
      BY DEF Progress, ProgressOf
    <3>2. \A j \in 1..m : r.done[j] # op
      BY <1>10 DEF Progress, ProgressOf
    <3>3. \A k \in 1..Len(r.errors) : r.errors[k] # op
      BY <1>10 DEF Progress, ProgressOf
    <3>4. Injective(ds)
      BY <2>1, <2>2, <3>1, <3>2 DEF Injective
    <3> QED BY <2>1, <2>2, <3>1, <3>3, <3>4
  <2>8. \A k \in 1..(i + 1) : \/ \E j \in 1..(m + 1) : ds[j] = ops[k]
                              \/ \E j \in 1..Len(r.errors) : r.errors[j] = ops[k]
    <3> SUFFICES ASSUME NEW k \in 1..(i + 1)
                 PROVE  \/ \E j \in 1..(m + 1) : ds[j] = ops[k]
                        \/ \E j \in 1..Len(r.errors) : r.errors[j] = ops[k]
      OBVIOUS
    <3>1. CASE k = i + 1
      BY <1>11, <2>1, <2>3, <3>1
    <3>2. CASE k \in 1..i
      <4>1. \/ \E j \in 1..m : r.done[j] = ops[k]
            \/ \E j \in 1..Len(r.errors) : r.errors[j] = ops[k]
        BY <1>14, <3>2 DEF Progress, ProgressOf
      <4> HIDE DEF ds, m
      <4> QED BY <2>1, <2>3, <4>1
    <3> QED BY <1>7, <3>1, <3>2
  <2>9. ~goOn => Begins(ds, ops) /\ m = i
    <3> SUFFICES ASSUME ~goOn PROVE Begins(ds, ops) /\ m = i
      OBVIOUS
    <3>1. m = i /\ \A j \in 1..m : r.done[j] = ops[j]
      BY <1>14 DEF Progress, ProgressOf, Begins
    <3>2. \A j \in 1..(m + 1) : ds[j] = ops[j]
      BY <1>11, <2>1, <2>2, <3>1
    <3>3. Len(ds) <= Len(ops)
      BY <1>0, <2>1, <3>1
    <3> QED BY <2>1, <3>1, <3>2, <3>3 DEF Begins
  <2>10. /\ ~goOn => (r.errors = <<>> <=> ~r.stop)
         /\ goOn => ~r.stop
         /\ (\A k \in 1..Len(ops) : ops[k] \notin plan.rejected /\ ops[k].op # "insert") => r.errors = <<>>
    BY DEF Progress, ProgressOf
  <2> HIDE DEF ds, m
  <2>11. ProgressOf(ops, goOn, i + 1, ds, r.errors, r.stop)
    BY <2>1, <2>5, <2>6, <2>7, <2>8, <2>9, <2>10 DEF ProgressOf
  <2>12. Progress(ops, goOn, i + 1, d)
    BY <2>4, <2>11 DEF Progress
  <2> QED BY <1>2, <1>11, <1>14, <2>12
<1> QED BY <1>12, <1>13, <1>14

(* All of a message.                                                       *)
LEMMA CarriedProgress ==
    ASSUME Contents(collection), NEW ops \in Seq(Operations), NEW goOn \in BOOLEAN
    PROVE  W!Carried(ops, goOn) \in Carryings /\ Progress(ops, goOn, Len(ops), W!Carried(ops, goOn))
<1> DEFINE n == Len(ops)
           b == [docs |-> collection, done |-> <<>>, errors |-> <<>>, n |-> 0, upserted |-> FALSE,
                 stop |-> FALSE, goOn |-> goOn]
<1>1. n \in Nat
  OBVIOUS
<1>2. PICK g \in [0..n -> Carryings] :
        W!Carried(ops, goOn) = g[n] /\ g[0] = b /\ \A i \in 1..n : g[i] = W!Carry(g[i - 1], ops[i])
  BY CarriedSteps, Zenon
<1>3. Progress(ops, goOn, 0, b)
  BY DEF Progress, ProgressOf, Injective, Begins
<1> HIDE DEF b, n
<1> DEFINE S == {i \in Nat : i <= n => Progress(ops, goOn, i, g[i])}
<1>4. ASSUME NEW i \in Nat, i + 1 <= n, Progress(ops, goOn, i, g[i]) PROVE Progress(ops, goOn, i + 1, g[i + 1])
  <2>1. i + 1 \in 1..n /\ i \in 0..n /\ (i + 1) - 1 = i /\ i < n
    BY <1>1, <1>4
  <2>2. g[i + 1] = W!Carry(g[i], ops[i + 1]) /\ g[i] \in Carryings
    BY <1>2, <2>1
  <2> QED BY <1>4, <2>1, <2>2, CarryProgress DEF n
<1>5. 0 \in S /\ \A i \in Nat : i \in S => i + 1 \in S
  BY <1>1, <1>2, <1>3, <1>4
<1> HIDE DEF S
<1>6. n \in S
  BY <1>1, <1>5, SetInduction
<1> QED BY <1>1, <1>2, <1>6 DEF S, n

(* Every outcome is such.                                                  *)
LEMMA OutcomeIsOk ==
    ASSUME Contents(collection), wfaults \in Nat, plan.safe \in BOOLEAN, plan.command \in BOOLEAN,
           NEW ops \in Seq(Operations), NEW goOn \in BOOLEAN,
           NEW o \in W!Outcomes(ops, goOn)
    PROVE  OutcomeOk(ops, goOn, o)
<1> DEFINE r == W!Carried(ops, goOn)
           none == [r EXCEPT !.docs = collection, !.done = <<>>, !.errors = <<>>, !.n = 0]
           lost == [r EXCEPT !.errors = <<>>, !.n = 0]
<1>1. r \in Carryings /\ Progress(ops, goOn, Len(ops), r)
  BY CarriedProgress
<1>2. \/ o = [r |-> r, err |-> IF r.errors # <<>> /\ plan.safe THEN "write" ELSE "nil", fault |-> FALSE]
      \/ wfaults # 0 /\ o = [r |-> none, err |-> "net", fault |-> TRUE]
      \/ wfaults # 0 /\ o = [r |-> lost, err |-> "net", fault |-> TRUE]
      \/ wfaults # 0 /\ r.errors = <<>> /\ plan.command /\ plan.safe /\ o = [r |-> r, err |-> "concern", fault |-> TRUE]
  BY DEF W!Outcomes
<1> HIDE DEF r
<1>3. /\ r.done \in Seq(Operations) /\ r.errors \in Seq(Operations) /\ r.stop \in BOOLEAN
      /\ none.done = <<>> /\ none.errors = <<>> /\ lost.done = r.done /\ lost.errors = <<>>
  BY <1>1 DEF Carryings
<1> HIDE DEF none, lost
<1>4. ProgressOf(ops, goOn, Len(ops), r.done, r.errors, r.stop)
  BY <1>1 DEF Progress
<1> DEFINE D == r.done
           E == r.errors
           stop == r.stop
<1>5. D \in Seq(Operations) /\ E \in Seq(Operations) /\ stop \in BOOLEAN /\ ProgressOf(ops, goOn, Len(ops), D, E, stop)
  BY <1>3, <1>4
<1>6. CASE o = [r |-> r, err |-> IF r.errors # <<>> /\ plan.safe THEN "write" ELSE "nil", fault |-> FALSE]
  <2>1. /\ o.r.done = D /\ o.r.errors = E /\ o.fault = FALSE
        /\ o.err = IF E # <<>> /\ plan.safe THEN "write" ELSE "nil"
    BY <1>6
  <2> HIDE DEF D, E, stop
  <2>2. o.err = "nil" /\ plan.safe => E = <<>>
    BY <2>1
  <2>3. E = <<>> => /\ ~stop \/ goOn
                    /\ \A k \in 1..Len(ops) : \E j \in 1..Len(D) : D[j] = ops[k]
                    /\ ~goOn => Len(D) = Len(ops)
    <3> SUFFICES ASSUME E = <<>>
                 PROVE  /\ ~stop /\ \A k \in 1..Len(ops) : \E j \in 1..Len(D) : D[j] = ops[k]
                        /\ ~goOn => Len(D) = Len(ops)
      OBVIOUS
    <3>1. ~stop
      BY <1>5 DEF ProgressOf
    <3>2. \A k \in 1..Len(ops) : \/ \E j \in 1..Len(D) : D[j] = ops[k]
                                 \/ \E j \in 1..Len(E) : E[j] = ops[k]
      BY <1>5, <3>1 DEF ProgressOf
    <3>3. Len(E) = 0
      OBVIOUS
    <3>4. ~goOn => Len(D) = Len(ops)
      BY <1>5, <3>1 DEF ProgressOf
    <3> QED BY <3>1, <3>2, <3>3, <3>4
  <2>4. /\ \A j \in 1..Len(D) : \E k \in 1..Len(ops) : D[j] = ops[k]
        /\ \A j \in 1..Len(E) : \E k \in 1..Len(ops) : E[j] = ops[k]
        /\ Injective(ops) => /\ Injective(D)
                             /\ \A j \in 1..Len(D) : \A k \in 1..Len(E) : D[j] # E[k]
        /\ goOn => \A k \in 1..Len(ops) : \/ \E j \in 1..Len(D) : D[j] = ops[k]
                                          \/ \E j \in 1..Len(E) : E[j] = ops[k]
        /\ ~goOn => Begins(D, ops)
        /\ (\A k \in 1..Len(ops) : ops[k] \notin plan.rejected /\ ops[k].op # "insert") => E = <<>>
    BY <1>5 DEF ProgressOf
  <2>5. (\A k \in 1..Len(ops) : ops[k] \notin plan.rejected /\ ops[k].op # "insert") => o.err # "write"
    BY <2>1, <2>4
  <2>6. o.err \in {"nil", "write"} /\ (o.err = "write" => E # <<>>)
    BY <2>1
  <2> QED BY <1>5, <2>1, <2>2, <2>3, <2>4, <2>5, <2>6 DEF OutcomeOk
<1>7. CASE wfaults # 0 /\ o = [r |-> none, err |-> "net", fault |-> TRUE]
  <2>1. o.r.done = <<>> /\ o.r.errors = <<>> /\ o.fault = TRUE /\ o.err = "net" /\ wfaults > 0
    BY <1>3, <1>7
  <2> QED BY <2>1 DEF OutcomeOk, Injective, Begins
<1>8. CASE wfaults # 0 /\ o = [r |-> lost, err |-> "net", fault |-> TRUE]
  <2>1. o.r.done = D /\ o.r.errors = <<>> /\ o.fault = TRUE /\ o.err = "net" /\ wfaults > 0
    BY <1>3, <1>8
  <2> HIDE DEF D, E, stop
  <2>2. /\ \A j \in 1..Len(D) : \E k \in 1..Len(ops) : D[j] = ops[k]
        /\ Injective(ops) => Injective(D)
        /\ ~goOn => Begins(D, ops)
    BY <1>5 DEF ProgressOf
  <2> QED BY <1>5, <2>1, <2>2 DEF OutcomeOk
<1>9. CASE wfaults # 0 /\ plan.command /\ o = [r |-> r, err |-> "concern", fault |-> TRUE]
  <2>1. o.r.done = D /\ o.r.errors = E /\ o.fault = TRUE /\ o.err = "concern" /\ wfaults > 0 /\ plan.command
    BY <1>3, <1>9
  <2> HIDE DEF D, E, stop
  <2>2. /\ \A j \in 1..Len(D) : \E k \in 1..Len(ops) : D[j] = ops[k]
        /\ Injective(ops) => Injective(D)
        /\ ~goOn => Begins(D, ops)
    BY <1>5 DEF ProgressOf
  <2> QED BY <1>5, <2>1, <2>2 DEF OutcomeOk
<1> QED BY <1>2, <1>6, <1>7, <1>8, <1>9

(* The documents of an action.                                             *)
LEMMA DocsFacts ==
    ASSUME NEW b, WritesTyped(b), NEW a \in 1..Len(b.actions)
    PROVE  b.actions[a].docs \in Seq(Operations) /\ Len(b.actions[a].docs) \in Nat \ {0} /\ b.actions[a] \in Actions
<1>1. b.actions[a] \in Actions
  BY DEF WritesTyped
<1>2. b.actions[a].docs \in Seq(Operations) \ {<<>>}
  BY <1>1 DEF Actions
<1>3. Len(b.actions[a].docs) \in Nat /\ Len(b.actions[a].docs) # 0
  BY <1>2
<1> QED BY <1>1, <1>2, <1>3

(* What is sent when a message has gone, and more of its action is left;   *)
LEMMA SentPart ==
    ASSUME NEW b, NEW c, WritesTyped(b), b.at \in 1..Len(b.actions), NEW n \in Nat, b.from <= n,
           c.actions = b.actions, c.at = b.at, c.from = n
    PROVE  SentOps(c) = SentOps(b) \cup Between(b, n)
<1>1. b.at \in Nat /\ b.from \in Nat /\ Len(b.actions) \in Nat
  BY DEF WritesTyped
<1>2. ASSUME NEW x, x \in SentOps(c) PROVE x \in SentOps(b) \cup Between(b, n)
  <2>1. PICK a \in 1..Len(b.actions) : \E k \in 1..Len(b.actions[a].docs) :
                x = b.actions[a].docs[k] /\ (a < b.at \/ (a = b.at /\ k <= n))
    BY <1>2 DEF SentOps
  <2>2. PICK k \in 1..Len(b.actions[a].docs) :
                x = b.actions[a].docs[k] /\ (a < b.at \/ (a = b.at /\ k <= n))
    BY <2>1
  <2>3. CASE a < b.at \/ (a = b.at /\ k <= b.from)
    BY <1>2, <2>2, <2>3 DEF SentOps
  <2>4. CASE a = b.at /\ k <= n /\ b.from < k
    BY <1>2, <2>2, <2>4 DEF SentOps, Between
  <2>5. k \in Int
    OBVIOUS
  <2> QED BY <1>1, <2>2, <2>3, <2>4, <2>5
<1>3. ASSUME NEW x \in SentOps(b) PROVE x \in SentOps(c)
  <2>1. PICK a \in 1..Len(b.actions) : \E k \in 1..Len(b.actions[a].docs) :
                x = b.actions[a].docs[k] /\ (a < b.at \/ (a = b.at /\ k <= b.from))
    BY DEF SentOps
  <2>2. PICK k \in 1..Len(b.actions[a].docs) :
                x = b.actions[a].docs[k] /\ (a < b.at \/ (a = b.at /\ k <= b.from))
    BY <2>1
  <2>3. a < c.at \/ (a = c.at /\ k <= c.from)
    BY <1>1, <2>2
  <2> QED BY <2>2, <2>3 DEF SentOps
<1>4. ASSUME NEW x \in Between(b, n) PROVE x \in SentOps(c)
  BY DEF SentOps, Between
<1> QED BY <1>2, <1>3, <1>4

(* and when an action is over.                                             *)
LEMMA SentAction ==
    ASSUME NEW b, NEW c, WritesTyped(b), b.at \in 1..Len(b.actions),
           c.actions = b.actions, c.at = b.at + 1, c.from = 0
    PROVE  SentOps(c) = SentOps(b) \cup Between(b, Len(b.actions[b.at].docs))
<1>1. b.at \in Nat /\ b.from \in Nat /\ Len(b.actions) \in Nat
  BY DEF WritesTyped
<1> DEFINE n == Len(b.actions[b.at].docs)
<1>2. ASSUME NEW x, x \in SentOps(c) PROVE x \in SentOps(b) \cup Between(b, n)
  <2>1. PICK a \in 1..Len(b.actions) : \E k \in 1..Len(b.actions[a].docs) :
                x = b.actions[a].docs[k] /\ (a < b.at + 1 \/ (a = b.at + 1 /\ k <= 0))
    BY <1>2 DEF SentOps
  <2>2. PICK k \in 1..Len(b.actions[a].docs) :
                x = b.actions[a].docs[k] /\ (a < b.at + 1 \/ (a = b.at + 1 /\ k <= 0))
    BY <2>1
  <2>3. CASE a < b.at \/ (a = b.at /\ k <= b.from)
    BY <1>2, <2>2, <2>3 DEF SentOps
  <2>4. CASE a = b.at /\ b.from < k
    BY <1>2, <2>2, <2>4 DEF SentOps, Between
  <2>5. k \in Int /\ 1 <= k
    OBVIOUS
  <2> QED BY <1>1, <2>2, <2>3, <2>4, <2>5
<1>3. ASSUME NEW x \in SentOps(b) PROVE x \in SentOps(c)
  <2>1. PICK a \in 1..Len(b.actions) : \E k \in 1..Len(b.actions[a].docs) :
                x = b.actions[a].docs[k] /\ (a < b.at \/ (a = b.at /\ k <= b.from))
    BY DEF SentOps
  <2>2. PICK k \in 1..Len(b.actions[a].docs) :
                x = b.actions[a].docs[k] /\ (a < b.at \/ (a = b.at /\ k <= b.from))
    BY <2>1
  <2>3. a < c.at
    BY <1>1, <2>2
  <2> QED BY <2>2, <2>3 DEF SentOps
<1>4. ASSUME NEW x \in Between(b, n) PROVE x \in SentOps(c)
  <2>1. b.at < c.at
    BY <1>1
  <2> QED BY <2>1 DEF SentOps, Between
<1> QED BY <1>2, <1>3, <1>4

(* What is on its way was not sent before.                                 *)
LEMMA NotSentYet ==
    ASSUME NEW b, WritesTyped(b), b.at \in 1..Len(b.actions), Sorted(b), NEW n
    PROVE  Between(b, n) \cap SentOps(b) = {} /\ Between(b, n) \subseteq AllOps(b) /\ SentOps(b) \subseteq AllOps(b)
<1>1. b.at \in Nat /\ b.from \in Nat /\ Len(b.actions) \in Nat
  BY DEF WritesTyped
<1>2. ASSUME NEW x \in Between(b, n), x \in SentOps(b) PROVE FALSE
  <2>1. PICK m \in 1..Len(b.actions[b.at].docs) : x = b.actions[b.at].docs[m] /\ b.from < m
    BY DEF Between
  <2>2. PICK a \in 1..Len(b.actions) : \E k \in 1..Len(b.actions[a].docs) :
                x = b.actions[a].docs[k] /\ (a < b.at \/ (a = b.at /\ k <= b.from))
    BY <1>2 DEF SentOps
  <2>3. PICK k \in 1..Len(b.actions[a].docs) :
                x = b.actions[a].docs[k] /\ (a < b.at \/ (a = b.at /\ k <= b.from))
    BY <2>2
  <2>4. CASE a = b.at
    <3>1. k # m
      BY <1>1, <2>1, <2>3, <2>4
    <3> QED BY <2>1, <2>3, <2>4, <3>1 DEF Sorted, Injective
  <2>5. CASE a # b.at
    BY <2>1, <2>3, <2>5 DEF Sorted
  <2> QED BY <2>4, <2>5
<1>3. Between(b, n) \subseteq AllOps(b)
  BY DEF Between, AllOps
<1>4. SentOps(b) \subseteq AllOps(b)
  BY DEF SentOps, AllOps
<1> QED BY <1>2, <1>3, <1>4

(* Nothing was sent at first, and all once every action is over.           *)
LEMMA SentEnds ==
    ASSUME NEW b, WritesTyped(b)
    PROVE  /\ b.at = 1 /\ b.from = 0 => SentOps(b) = {}
           /\ b.at = Len(b.actions) + 1 => SentOps(b) = AllOps(b)
<1>1. Len(b.actions) \in Nat
  BY DEF WritesTyped
<1>2. ASSUME b.at = 1, b.from = 0, NEW x \in SentOps(b) PROVE FALSE
  <2>1. PICK a \in 1..Len(b.actions) : \E k \in 1..Len(b.actions[a].docs) : a < 1 \/ (a = 1 /\ k <= 0)
    BY <1>2 DEF SentOps
  <2> QED BY <2>1
<1>3. ASSUME b.at = Len(b.actions) + 1, NEW x \in AllOps(b) PROVE x \in SentOps(b)
  <2>1. \A a \in 1..Len(b.actions) : a < b.at
    BY <1>1, <1>3
  <2> QED BY <2>1 DEF SentOps, AllOps
<1>4. SentOps(b) \subseteq AllOps(b)
  BY DEF SentOps, AllOps
<1> QED BY <1>2, <1>3, <1>4

(* The plan of a bulk.                                                     *)
LEMMA BulkPlan ==
    ASSUME WriteInv
    PROVE  /\ plan.safe \in BOOLEAN /\ plan.command \in BOOLEAN /\ plan.ordered \in BOOLEAN /\ plan.single \in BOOLEAN
           /\ plan.faults \in Nat /\ W!Telling \in BOOLEAN
           /\ W!Queued \in Seq(Operations) /\ Len(W!Queued) = Len(plan.calls) /\ Len(W!Queued) \in Nat
           /\ ~plan.single => Injective(W!Queued)
<1>1. plan \in Plans
  BY DEF WriteInv
<1>2. /\ {plan.ordered, plan.safe, plan.command, plan.single} \subseteq BOOLEAN /\ plan.faults \in Nat
      /\ plan.calls \in Seq([op : Ops, doc : Documents])
      /\ ~plan.single => \A i, j \in DOMAIN plan.calls : i # j => plan.calls[i] # plan.calls[j]
  BY <1>1, PlansAssumption
<1>3. /\ Len(W!Queued) = Len(plan.calls) /\ Len(plan.calls) \in Nat
      /\ \A i \in 1..Len(plan.calls) : W!Queued[i] \in Operations
  BY PlanFacts
<1>4. /\ W!Queued = [i \in 1..Len(plan.calls) |-> W!Op(plan.calls[i].op, plan.calls[i].doc)]
      /\ DOMAIN plan.calls = 1..Len(plan.calls)
  BY <1>2 DEF W!Queued
<1>5. W!Queued \in Seq(Operations)
  <2>1. W!Queued = [i \in 1..Len(plan.calls) |-> W!Queued[i]]
    BY <1>4
  <2> QED BY <1>3, <2>1
<1>6. ASSUME ~plan.single PROVE Injective(W!Queued)
  <2> SUFFICES ASSUME NEW i \in 1..Len(plan.calls), NEW j \in 1..Len(plan.calls), i # j
               PROVE  W!Queued[i] # W!Queued[j]
    BY <1>3 DEF Injective
  <2>1. plan.calls[i] # plan.calls[j]
    BY <1>2, <1>4, <1>6
  <2>2. plan.calls[i] \in [op : Ops, doc : Documents] /\ plan.calls[j] \in [op : Ops, doc : Documents]
    BY <1>2, ElementOfSeq
  <2>3. plan.calls[i].op # plan.calls[j].op \/ plan.calls[i].doc # plan.calls[j].doc
    BY <2>1, <2>2
  <2>4. /\ W!Queued[i] = [op |-> plan.calls[i].op, doc |-> plan.calls[i].doc]
        /\ W!Queued[j] = [op |-> plan.calls[j].op, doc |-> plan.calls[j].doc]
    BY <1>4 DEF W!Op
  <2> QED BY <2>3, <2>4
<1>7. W!Telling \in BOOLEAN
  BY DEF W!Telling
<1> QED BY <1>2, <1>3, <1>5, <1>6, <1>7

(* The queue of actions has its types.                                     *)
LEMMA BulkTyped ==
    ASSUME WriteInv
    PROVE  /\ WritesTyped(bulk) /\ Len(bulk.actions) \in Nat /\ bulk.at \in 1..(Len(bulk.actions) + 1)
           /\ bulk.next \in 1..(Len(plan.calls) + 1) /\ bulk.failed \in BOOLEAN
           /\ writer \in {"acquire", "write"} => bulk.at \in 1..Len(bulk.actions)
<1>1. /\ bulk.actions \in Seq(Actions) /\ bulk.at \in 1..Len(bulk.actions) + 1 /\ bulk.from \in Nat
      /\ bulk.next \in 1..Len(plan.calls) + 1 /\ bulk.failed \in BOOLEAN
      /\ writer \in {"acquire", "write"} => bulk.at <= Len(bulk.actions)
  BY DEF WriteInv
<1>2. Len(bulk.actions) \in Nat
  BY <1>1
<1> QED BY <1>1, <1>2 DEF WritesTyped

(* A message carries the next documents of the current action: all of      *)
(* them, BatchMax or fewer, or one.                                        *)
LEMMA MessageFacts ==
    ASSUME WriteInv, writer = "write", ~plan.single, BulkInv
    PROVE  LET docs == bulk.actions[bulk.at].docs
               n == bulk.from + Len(W!Part)
           IN  /\ docs = W!Current.docs /\ docs \in Seq(Operations) /\ Len(docs) \in Nat
               /\ W!Part \in Seq(Operations) /\ Len(W!Part) \in Nat /\ n \in Nat
               /\ bulk.from < n /\ n <= Len(docs)
               /\ \A i \in 1..Len(W!Part) : W!Part[i] = docs[bulk.from + i]
               /\ ~W!Splits /\ ~W!OneByOne => n = Len(docs)
               /\ W!OneByOne => Len(W!Part) = 1
               /\ Injective(W!Part)
               /\ \A i \in 1..Len(W!Part) : W!Kind(W!Part[i].op) = W!Current.op
               /\ \A x : x \in Between(bulk, n) <=> \E i \in 1..Len(W!Part) : x = W!Part[i]
<1> DEFINE docs == bulk.actions[bulk.at].docs
           f == bulk.from
           size == IF W!Splits THEN BatchMax ELSE IF W!OneByOne THEN 1 ELSE Len(docs)
           to == f + size
           e == IF to > Len(docs) THEN Len(docs) ELSE to
           n == f + Len(W!Part)
<1>1. bulk.at \in 1..Len(bulk.actions) /\ WritesTyped(bulk) /\ f \in Nat
  BY BulkTyped DEF WritesTyped
<1>2. docs \in Seq(Operations) /\ Len(docs) \in Nat \ {0} /\ docs = W!Current.docs /\ W!Current = bulk.actions[bulk.at]
  BY <1>1, DocsFacts DEF W!Current
<1>3. /\ f < Len(docs) /\ (~W!Splits /\ ~W!OneByOne => f = 0)
      /\ Sorted(bulk)
  BY <1>2 DEF BulkInv, PlaceInv
<1>4. W!Part = SubSeq(docs, f + 1, e)
  BY <1>2 DEF W!Part
<1>5. Injective(docs) /\ \A k \in 1..Len(docs) : W!Kind(docs[k].op) = W!Current.op
  BY <1>1, <1>2, <1>3 DEF Sorted
<1>6. W!Splits /\ W!OneByOne => FALSE
  BY DEF W!Splits, W!Large, W!OneByOne
<1>7. /\ size \in Nat \ {0} /\ (W!OneByOne => size = 1)
      /\ ~W!Splits /\ ~W!OneByOne => size = Len(docs)
  BY <1>2, <1>6, CapsAssumption
<1> HIDE DEF docs, f, size
<1>8. /\ e \in Nat /\ f < e /\ e <= Len(docs)
      /\ ~W!Splits /\ ~W!OneByOne => e = Len(docs)
      /\ W!OneByOne => e = f + 1
  BY <1>1, <1>2, <1>3, <1>7
<1> HIDE DEF to, e
<1>9. /\ W!Part \in Seq(Operations) /\ Len(W!Part) = e - f
      /\ \A i \in 1..(e - f) : W!Part[i] = docs[f + i]
  <2>1. SubSeq(docs, f + 1, e) \in Seq(Operations) /\ Len(SubSeq(docs, f + 1, e)) = e - f
    BY <1>1, <1>2, <1>8
  <2>2. ASSUME NEW i \in 1..(e - f) PROVE SubSeq(docs, f + 1, e)[i] = docs[f + i]
    BY <1>1, <1>2, <1>8
  <2> QED BY <1>4, <2>1, <2>2
<1>10. n = e
  BY <1>1, <1>8, <1>9
<1> HIDE DEF n
<1>11. Len(W!Part) \in Nat
  BY <1>9
<1>12. \A i \in 1..Len(W!Part) : f + i \in 1..Len(docs) /\ f < f + i /\ f + i <= e
  BY <1>1, <1>2, <1>8, <1>9
<1>13. Injective(W!Part)
  <2> SUFFICES ASSUME NEW i \in 1..Len(W!Part), NEW j \in 1..Len(W!Part), i # j
               PROVE  W!Part[i] # W!Part[j]
    BY DEF Injective
  <2>1. f + i # f + j
    BY <1>1, <1>11
  <2>2. docs[f + i] # docs[f + j]
    BY <1>5, <1>12, <2>1 DEF Injective
  <2> QED BY <1>9, <2>2
<1>14. \A i \in 1..Len(W!Part) : W!Kind(W!Part[i].op) = W!Current.op
  BY <1>5, <1>9, <1>12
<1>15. ASSUME NEW x PROVE x \in Between(bulk, n) <=> \E i \in 1..Len(W!Part) : x = W!Part[i]
  <2>1. ASSUME x \in Between(bulk, n) PROVE \E i \in 1..Len(W!Part) : x = W!Part[i]
    <3>1. PICK k \in 1..Len(docs) : x = docs[k] /\ f < k /\ k <= e
      BY <1>10, <2>1 DEF Between, docs, f
    <3>2. k - f \in 1..(e - f) /\ f + (k - f) = k
      BY <1>1, <1>2, <1>8, <3>1
    <3> QED BY <1>9, <3>1, <3>2
  <2>2. ASSUME NEW i \in 1..Len(W!Part), x = W!Part[i] PROVE x \in Between(bulk, n)
    <3>1. x = docs[f + i] /\ f + i \in 1..Len(docs) /\ f < f + i /\ f + i <= e
      BY <1>9, <1>12, <2>2
    <3>2. x \in Operations
      BY <1>2, <3>1
    <3> QED BY <1>10, <3>1, <3>2 DEF Between, docs, f
  <2> QED BY <2>1, <2>2
<1>16. /\ docs = W!Current.docs /\ docs \in Seq(Operations) /\ Len(docs) \in Nat
       /\ W!Part \in Seq(Operations) /\ Len(W!Part) \in Nat /\ n \in Nat
       /\ f < n /\ n <= Len(docs)
       /\ ~W!Splits /\ ~W!OneByOne => n = Len(docs)
       /\ W!OneByOne => Len(W!Part) = 1
  <2>1. W!OneByOne => e - f = 1
    BY <1>1, <1>8
  <2> QED BY <1>2, <1>8, <1>9, <1>10, <1>11, <2>1
<1> QED BY <1>9, <1>13, <1>14, <1>15, <1>16 DEF docs, n, f

(* What a message does to what was done and to what is reported.           *)
LEMMA MessageSent ==
    ASSUME WriteInv, writer = "write", ~plan.single, BulkInv,
           NEW o \in W!Outcomes(W!Part, ~plan.ordered), W!Exchange(o)
    PROVE  LET S == SentOps(bulk) \cup Between(bulk, bulk.from + Len(W!Part)) IN
           /\ OutcomeOk(W!Part, ~plan.ordered, o)
           /\ applied' \in Seq(Operations) /\ Injective(applied') /\ ToSet(applied') \subseteq S
           /\ o.err = "nil" /\ plan.safe /\ SentOps(bulk) \subseteq ToSet(applied) => S \subseteq ToSet(applied')
           /\ \A kept : ~o.fault /\ ~plan.ordered /\ kept = SentOps(bulk) \ ToSet(applied) =>
                       kept \cup ToSet(o.r.errors) = S \ ToSet(applied')
           /\ \A k \in Nat : plan.ordered /\ Begins(applied, W!Queued) /\ Len(applied) = k
                              /\ Len(W!Part) + k <= Len(W!Queued) /\ (\A i \in 1..Len(W!Part) : W!Part[i] = W!Queued[k + i]) =>
                /\ Begins(applied', W!Queued)
                /\ o.err = "nil" /\ plan.safe => Len(applied') = k + Len(W!Part)
           /\ wfaults' \in Nat /\ wfaults' <= wfaults
           /\ IF o.fault THEN wfaults' < wfaults ELSE wfaults' = wfaults
<1> DEFINE n == bulk.from + Len(W!Part)
           P == Between(bulk, n)
           D == o.r.done
           E == o.r.errors
           ops == W!Part
<1>1. /\ ops \in Seq(Operations) /\ Len(ops) \in Nat /\ Injective(ops)
      /\ \A x : x \in P <=> \E i \in 1..Len(ops) : x = ops[i]
  BY MessageFacts
<1>2. /\ plan.safe \in BOOLEAN /\ plan.command \in BOOLEAN /\ plan.ordered \in BOOLEAN /\ wfaults \in Nat /\ Contents(collection)
      /\ W!Queued \in Seq(Operations)
  BY BulkPlan, PlanFacts DEF WriteInv
<1>3. OutcomeOk(ops, ~plan.ordered, o)
  <2>1. (~plan.ordered) \in BOOLEAN
    BY <1>2
  <2> QED BY <1>1, <1>2, <2>1, OutcomeIsOk
<1>4. applied' = applied \o D /\ wfaults' = IF o.fault THEN wfaults - 1 ELSE wfaults
  BY DEF W!Exchange
<1>5. /\ applied \in Seq(Operations) /\ Injective(applied) /\ ToSet(applied) \subseteq SentOps(bulk)
  BY DEF BulkInv, DoneInv
<1>6. P \cap SentOps(bulk) = {}
  <2>1. WritesTyped(bulk) /\ bulk.at \in 1..Len(bulk.actions) /\ Sorted(bulk)
    BY BulkTyped DEF BulkInv
  <2> QED BY <2>1, NotSentYet
<1>7. /\ D \in Seq(Operations) /\ E \in Seq(Operations)
      /\ o.fault \in BOOLEAN => (o.fault <=> o.err \in {"net", "concern"})
      /\ o.fault => wfaults > 0
      /\ \A j \in 1..Len(D) : \E k \in 1..Len(ops) : D[j] = ops[k]
      /\ Injective(D)
      /\ plan.ordered => Begins(D, ops)
      /\ o.err = "nil" /\ plan.safe => /\ \A k \in 1..Len(ops) : \E j \in 1..Len(D) : D[j] = ops[k]
                                       /\ plan.ordered => Len(D) = Len(ops)
      /\ ~o.fault => /\ \A j \in 1..Len(E) : \E k \in 1..Len(ops) : E[j] = ops[k]
                     /\ \A j \in 1..Len(D) : \A k \in 1..Len(E) : D[j] # E[k]
                     /\ ~plan.ordered => \A k \in 1..Len(ops) : \/ \E j \in 1..Len(D) : D[j] = ops[k]
                                                                \/ \E j \in 1..Len(E) : E[j] = ops[k]
  BY <1>1, <1>3 DEF OutcomeOk
<1> HIDE DEF P, D, E, ops, n
<1>8. DOMAIN D = 1..Len(D) /\ DOMAIN E = 1..Len(E)
  BY <1>7
<1>9. ToSet(D) \subseteq P
  <2>1. \A j \in 1..Len(D) : D[j] \in P
    BY <1>1, <1>7
  <2> QED BY <1>8, <2>1 DEF ToSet
<1>10. o.err = "nil" /\ plan.safe => P \subseteq ToSet(D)
  <2> SUFFICES ASSUME o.err = "nil", plan.safe, NEW x \in P PROVE x \in ToSet(D)
    OBVIOUS
  <2>1. PICK k \in 1..Len(ops) : x = ops[k]
    BY <1>1
  <2>2. PICK j \in 1..Len(D) : D[j] = ops[k]
    BY <1>7
  <2> QED BY <1>8, <2>1, <2>2 DEF ToSet
<1>11. ~o.fault /\ ~plan.ordered => ToSet(E) = P \ ToSet(D)
  <2> SUFFICES ASSUME ~o.fault, ~plan.ordered PROVE ToSet(E) = P \ ToSet(D)
    OBVIOUS
  <2>1. ASSUME NEW k \in 1..Len(E) PROVE E[k] \in P /\ E[k] \notin ToSet(D)
    <3>1. E[k] \in P
      BY <1>1, <1>7
    <3>2. \A j \in 1..Len(D) : D[j] # E[k]
      BY <1>7
    <3> QED BY <1>8, <3>1, <3>2 DEF ToSet
  <2>2. ASSUME NEW x \in P, x \notin ToSet(D) PROVE x \in ToSet(E)
    <3>1. PICK k \in 1..Len(ops) : x = ops[k]
      BY <1>1
    <3>2. \A j \in 1..Len(D) : D[j] # ops[k]
      BY <1>8, <2>2, <3>1 DEF ToSet
    <3>3. PICK j \in 1..Len(E) : E[j] = ops[k]
      BY <1>7, <3>2
    <3> QED BY <1>8, <3>1, <3>3 DEF ToSet
  <2>3. ToSet(E) \subseteq P \ ToSet(D)
    BY <1>8, <2>1 DEF ToSet
  <2> QED BY <2>2, <2>3
<1>12. ToSet(applied) \cap ToSet(D) = {}
  BY <1>5, <1>6, <1>9
<1>13. /\ applied' \in Seq(Operations) /\ Injective(applied') /\ ToSet(applied') = ToSet(applied) \cup ToSet(D)
       /\ Len(applied') = Len(applied) + Len(D) /\ Len(applied) \in Nat /\ Len(D) \in Nat
  BY <1>4, <1>5, <1>7, <1>12, ConcatFacts
<1>14. ToSet(applied') \subseteq SentOps(bulk) \cup P
  BY <1>5, <1>9, <1>13
<1>15. o.err = "nil" /\ plan.safe /\ SentOps(bulk) \subseteq ToSet(applied) => SentOps(bulk) \cup P \subseteq ToSet(applied')
  BY <1>10, <1>13
<1>16. ASSUME NEW kept, ~o.fault, ~plan.ordered, kept = SentOps(bulk) \ ToSet(applied)
       PROVE  kept \cup ToSet(E) = (SentOps(bulk) \cup P) \ ToSet(applied')
  BY <1>5, <1>6, <1>9, <1>11, <1>13, <1>16
<1>17. ASSUME NEW k \in Nat, plan.ordered, Begins(applied, W!Queued), Len(applied) = k,
              Len(ops) + k <= Len(W!Queued), \A i \in 1..Len(ops) : ops[i] = W!Queued[k + i]
       PROVE  /\ Begins(applied', W!Queued)
              /\ o.err = "nil" /\ plan.safe => Len(applied') = k + Len(ops)
  <2>1. Len(D) <= Len(ops) /\ \A i \in 1..Len(D) : D[i] = ops[i]
    BY <1>7, <1>17 DEF Begins
  <2>2. Len(D) + k <= Len(W!Queued) /\ \A i \in 1..Len(D) : D[i] = W!Queued[k + i]
    <3>1. \A i \in 1..Len(D) : i \in 1..Len(ops)
      BY <1>1, <1>13, <2>1
    <3>2. Len(W!Queued) \in Nat
      BY <1>2
    <3> QED BY <1>1, <1>13, <1>17, <2>1, <3>1, <3>2
  <2>3. Begins(applied \o D, W!Queued)
    BY <1>2, <1>5, <1>7, <1>17, <2>2, BeginsMore
  <2>4. o.err = "nil" /\ plan.safe => Len(D) = Len(ops)
    BY <1>7, <1>17
  <2> QED BY <1>4, <1>13, <1>17, <2>3, <2>4
<1>18. wfaults' \in Nat /\ wfaults' <= wfaults /\ IF o.fault THEN wfaults' < wfaults ELSE wfaults' = wfaults
  BY <1>2, <1>4, <1>7
<1> QED BY <1>3, <1>13, <1>14, <1>15, <1>16, <1>17, <1>18 DEF n, P, E, ops

(* A plan is not changed, and nothing is queued up while Run is going on.  *)
LEMMA SameQueue ==
    ASSUME UNCHANGED plan, bulk'.actions = bulk.actions, bulk'.next = bulk.next
    PROVE  /\ W!Queued' = W!Queued /\ W!Telling' = W!Telling
           /\ Sorted(bulk) => Sorted(bulk)'
           /\ AllOps(bulk)' = AllOps(bulk)
           /\ \A s : Starts(bulk, s) => Starts(bulk, s)'
<1>1. W!Queued' = W!Queued /\ W!Telling' = W!Telling
  BY DEF W!Queued, W!Telling, W!Op
<1>2. AllOps(bulk)' = AllOps(bulk)
  BY DEF AllOps
<1>3. Sorted(bulk) => Sorted(bulk)'
  <2>1. {W!Queued[i] : i \in 1..(bulk.next - 1)}' = {W!Queued[i] : i \in 1..(bulk.next - 1)}
    BY <1>1
  <2> DEFINE A == bulk.actions
             B == bulk'.actions
             Half(x) == /\ \A a \in 1..Len(x) :
                             /\ Injective(x[a].docs)
                             /\ \A k \in 1..Len(x[a].docs) : W!Kind(x[a].docs[k].op) = x[a].op
                        /\ \A a, c \in 1..Len(x) : a # c =>
                             \A k \in 1..Len(x[a].docs) : \A m \in 1..Len(x[c].docs) : x[a].docs[k] # x[c].docs[m]
  <2>2. Sorted(bulk) => Half(A) /\ AllOps(bulk) = {W!Queued[i] : i \in 1..(bulk.next - 1)}
    BY DEF Sorted
  <2>3. Half(B) /\ AllOps(bulk)' = {W!Queued[i] : i \in 1..(bulk.next - 1)}' => Sorted(bulk)'
    BY Zenon DEF Sorted, Injective, W!Kind
  <2>4. A = B
    OBVIOUS
  <2> HIDE DEF A, B, Half
  <2> QED BY <1>2, <2>1, <2>2, <2>3, <2>4
<1>4. \A s : Starts(bulk, s) => Starts(bulk, s)'
  BY <1>1, Zenon DEF Starts
<1> QED BY <1>1, <1>2, <1>3, <1>4

(* An action is over: it was sent to its end, or given up.                 *)
LEMMA OverKeeps ==
    ASSUME WriteInv, ~plan.single, BulkInv, writer \in {"acquire", "write"}, UNCHANGED plan,
           NEW errors \in Seq(Reports), NEW err \in {"nil", "write", "net", "concern"}, NEW n,
           W!checkSuccess(bulk, errors, err, n),
           wfaults' \in Nat, wfaults' <= wfaults,
           applied' \in Seq(Operations), Injective(applied'),
           NEW S, S = SentOps(bulk) \cup Between(bulk, Len(bulk.actions[bulk.at].docs)),
           ToSet(applied') \subseteq S,
           errors = <<>> /\ err = "nil" /\ W!Telling /\ ~W!BatchLost' /\ ~bulk.failed => S \subseteq ToSet(applied'),
           ~plan.ordered /\ plan.command /\ plan.safe /\ wfaults' = plan.faults =>
             /\ errors = <<>> => err = "nil"
             /\ ToSet(bulk.errs) \cup ToSet(errors) = S \ ToSet(applied'),
           plan.ordered /\ W!Telling =>
             /\ Begins(applied', W!Queued)
             /\ errors = <<>> /\ err = "nil" =>
                  Len(applied') = Len(applied) + (Len(bulk.actions[bulk.at].docs) - bulk.from)
    PROVE  BulkInv'
<1> DEFINE new == IF errors # <<>> THEN errors ELSE IF err # "nil" THEN <<W!Op(err, 0)>> ELSE <<>>
           L == Len(bulk.actions[bulk.at].docs)
<1>1. /\ WritesTyped(bulk) /\ Len(bulk.actions) \in Nat /\ bulk.at \in 1..Len(bulk.actions) /\ bulk.failed \in BOOLEAN
      /\ bulk.from \in Nat
  BY BulkTyped DEF WritesTyped
<1>2. L \in Nat
  BY <1>1, DocsFacts
<1>3. /\ bulk'.actions = bulk.actions /\ bulk'.next = bulk.next /\ bulk'.at = bulk.at + 1 /\ bulk'.from = 0
      /\ bulk'.acc = <<>> /\ bulk'.errs = bulk.errs \o new /\ bulk'.failed = (bulk.failed \/ new # <<>>)
      /\ writer' = IF bulk.at = Len(bulk.actions) \/ (new # <<>> /\ plan.ordered) THEN "done" ELSE "acquire"
  <2>1. /\ bulk' = [bulk EXCEPT !.errs = bulk.errs \o new, !.failed = bulk.failed \/ new # <<>>, !.matched = bulk.matched + n,
                                !.at = bulk.at + 1, !.from = 0, !.acc = <<>>]
        /\ writer' = IF bulk.at = Len(bulk.actions) \/ (new # <<>> /\ plan.ordered) THEN "done" ELSE "acquire"
    BY DEF W!checkSuccess
  <2> HIDE DEF new
  <2>2. bulk \in [actions : Seq(Actions), next : 1..Len(plan.calls) + 1, at : 1..Len(bulk.actions) + 1,
                   from : Nat, acc : {bulk.acc}, errs : {bulk.errs}, failed : BOOLEAN, matched : Nat]
    BY DEF WriteInv
  <2> DEFINE e == bulk.errs \o new
             f == bulk.failed \/ new # <<>>
  <2>3. /\ bulk' = [bulk EXCEPT !.errs = e, !.failed = f, !.matched = bulk.matched + n, !.at = bulk.at + 1, !.from = 0, !.acc = <<>>]
    BY <2>1
  <2> HIDE DEF e, f
  <2>4. /\ bulk'.actions = bulk.actions /\ bulk'.next = bulk.next /\ bulk'.at = bulk.at + 1 /\ bulk'.from = 0
        /\ bulk'.acc = <<>> /\ bulk'.errs = e /\ bulk'.failed = f
    BY <2>2, <2>3
  <2> QED BY <2>1, <2>4 DEF e, f
<1>4. new \in Seq(Reports) /\ (new = <<>> <=> errors = <<>> /\ err = "nil") /\ (new = errors \/ errors = <<>>)
  <2>1. err # "nil" => <<W!Op(err, 0)>> \in Seq(Reports) /\ <<W!Op(err, 0)>> # <<>>
    BY DEF Reports, Failures, W!Op
  <2> QED BY <2>1
<1> HIDE DEF new, L
<1>5. /\ W!Queued' = W!Queued /\ W!Telling' = W!Telling /\ Sorted(bulk)' /\ AllOps(bulk)' = AllOps(bulk)
      /\ \A s : Starts(bulk, s) => Starts(bulk, s)'
  BY <1>3, SameQueue DEF BulkInv
<1>6. PlaceInv /\ DoneInv /\ OrderInv /\ Sorted(bulk)
  BY DEF BulkInv
<1>7. plan.safe \in BOOLEAN /\ plan.command \in BOOLEAN /\ plan.ordered \in BOOLEAN /\ plan.faults \in Nat /\ wfaults \in Nat
  BY BulkPlan DEF WriteInv
<1>8. SentOps(bulk)' = S /\ S \subseteq AllOps(bulk)
  <2>1. SentOps(bulk') = SentOps(bulk) \cup Between(bulk, L)
    BY <1>1, <1>3, SentAction, Zenon DEF L
  <2>2. SentOps(bulk)' = SentOps(bulk')
    BY DEF SentOps
  <2>3. Between(bulk, L) \subseteq AllOps(bulk) /\ SentOps(bulk) \subseteq AllOps(bulk)
    BY <1>1, <1>6, NotSentYet
  <2> QED BY <2>1, <2>2, <2>3 DEF L
<1>9. /\ writer' \in {"acquire", "done"}
      /\ writer' = "acquire" => bulk.at # Len(bulk.actions) /\ (plan.ordered => new = <<>>)
      /\ writer' = "done" => bulk.at = Len(bulk.actions) \/ (new # <<>> /\ plan.ordered)
  BY <1>3
<1>10. PlaceInv'
  <2>1. writer \in {"acquire", "write"} => bulk.next = Len(W!Queued) + 1
    BY <1>6 DEF PlaceInv
  <2>2. plan.ordered /\ W!Telling /\ writer' = "acquire" => ~bulk'.failed
    BY <1>3, <1>6, <1>9 DEF PlaceInv
  <2>3. writer' = "done" /\ (~plan.ordered \/ ~bulk'.failed) => bulk'.at = Len(bulk'.actions) + 1
    BY <1>3, <1>9
  <2>4. wfaults' <= plan.faults
    BY <1>6, <1>7 DEF PlaceInv
  <2> QED BY <1>3, <1>5, <1>9, <2>1, <2>2, <2>3, <2>4 DEF PlaceInv
<1>11. /\ bulk.acc \in Seq(Reports) /\ bulk.errs \in Seq(Reports)
  BY <1>6 DEF DoneInv
<1>12. bulk.errs \o new \in Seq(Reports) /\ ToSet(bulk.errs \o new) = ToSet(bulk.errs) \cup ToSet(new)
  BY <1>4, <1>11, ConcatFacts
<1>13. ToSet(<<>>) = {} /\ <<>> \in Seq(Reports)
  BY DEF ToSet
<1>14. DoneInv'
  <2>1. W!Telling /\ ~W!BatchLost' /\ ~bulk'.failed => S \subseteq ToSet(applied')
    BY <1>3, <1>4
  <2>2. ~plan.ordered /\ plan.command /\ plan.safe /\ wfaults' = plan.faults => ToSet(bulk'.errs) \cup ToSet(bulk'.acc) = S \ ToSet(applied')
    <3>1. ASSUME ~plan.ordered, plan.command, plan.safe, wfaults' = plan.faults PROVE new = errors
      BY <1>4, <3>1 DEF new
    <3> QED BY <1>3, <1>12, <1>13, <3>1
  <2>3. ToSet(applied') \subseteq AllOps(bulk)'
    BY <1>5, <1>8
  <2>4. ToSet(applied)' = ToSet(applied') /\ ToSet(bulk.errs)' = ToSet(bulk'.errs) /\ ToSet(bulk.acc)' = ToSet(bulk'.acc)
    BY DEF ToSet
  <2>5. Injective(applied)'
    BY DEF Injective
  <2>6. bulk'.acc \in Seq(Reports) /\ bulk'.errs \in Seq(Reports)
    BY <1>3, <1>12, <1>13
  <2> QED BY <1>5, <1>8, <2>1, <2>2, <2>3, <2>4, <2>5, <2>6 DEF DoneInv
<1>15. OrderInv'
  <2> SUFFICES ASSUME plan.ordered PROVE OrderInv'
    BY DEF OrderInv
  <2>1. PICK s \in [1..(Len(bulk.actions) + 1) -> 0..(bulk.next - 1)] :
          /\ Starts(bulk, s)
          /\ W!Telling => Begins(applied, W!Queued)
          /\ W!Telling /\ writer \in {"acquire", "write"} => Len(applied) = s[bulk.at] + bulk.from
    BY <1>6 DEF OrderInv
  <2>2. s[bulk.at + 1] = s[bulk.at] + L
    BY <1>1, <2>1 DEF Starts, L
  <2>3. s[bulk.at] \in Nat
    <3>1. bulk.at \in 1..(Len(bulk.actions) + 1)
      BY <1>1
    <3>2. s[bulk.at] \in 0..(bulk.next - 1)
      BY <2>1, <3>1
    <3> QED BY <3>2
  <2>4. W!Telling /\ writer' = "acquire" => Len(applied') = s[bulk'.at] + bulk'.from
    <3>1. ASSUME W!Telling, writer' = "acquire" PROVE Len(applied') = s[bulk.at + 1] + 0
      <4>1. errors = <<>> /\ err = "nil"
        BY <1>4, <1>9, <3>1
      <4>2. Len(applied') = Len(applied) + (L - bulk.from)
        BY <3>1, <4>1 DEF L
      <4>3. Len(applied) = s[bulk.at] + bulk.from
        BY <2>1, <3>1
      <4> QED BY <1>1, <1>2, <2>2, <2>3, <4>2, <4>3
    <3> QED BY <1>3, <3>1
  <2>5. Starts(bulk, s)'
    BY <1>5, <2>1
  <2>6. s \in [1..(Len(bulk'.actions) + 1) -> 0..(bulk'.next - 1)]
    BY <1>3
  <2>7. W!Telling' => Begins(applied, W!Queued)'
    BY <1>5 DEF Begins
  <2>8. W!Telling' /\ writer' \in {"acquire", "write"} => Len(applied') = s[bulk'.at] + bulk'.from
    BY <1>5, <1>9, <2>4
  <2> QED BY <2>5, <2>6, <2>7, <2>8 DEF OrderInv
<1> QED BY <1>5, <1>10, <1>14, <1>15 DEF BulkInv

(* A message was sent, and more of its action is left.                     *)
LEMMA GoesOnKeeps ==
    ASSUME WriteInv, ~plan.single, BulkInv, writer = "write", UNCHANGED <<plan, writer>>,
           NEW acc \in Seq(Reports), NEW n \in Nat, bulk.from <= n, n < Len(bulk.actions[bulk.at].docs),
           bulk' = [bulk EXCEPT !.acc = acc, !.from = n],
           ~W!Splits => acc = <<>>, W!Splits \/ W!OneByOne,
           wfaults' \in Nat, wfaults' <= wfaults,
           applied' \in Seq(Operations), Injective(applied'),
           NEW S, S = SentOps(bulk) \cup Between(bulk, n),
           ToSet(applied') \subseteq S,
           acc = <<>> /\ W!Telling /\ ~W!BatchLost' /\ ~bulk.failed => S \subseteq ToSet(applied'),
           ~plan.ordered /\ plan.command /\ plan.safe /\ wfaults' = plan.faults =>
             ToSet(bulk.errs) \cup ToSet(acc) = S \ ToSet(applied'),
           plan.ordered /\ W!Telling =>
             /\ acc = <<>> /\ Begins(applied', W!Queued)
             /\ Len(applied') = Len(applied) + (n - bulk.from)
    PROVE  BulkInv'
<1>1. /\ WritesTyped(bulk) /\ Len(bulk.actions) \in Nat /\ bulk.at \in 1..Len(bulk.actions) /\ bulk.failed \in BOOLEAN
      /\ bulk.from \in Nat
  BY BulkTyped DEF WritesTyped
<1>3. /\ bulk'.actions = bulk.actions /\ bulk'.next = bulk.next /\ bulk'.at = bulk.at /\ bulk'.from = n
      /\ bulk'.acc = acc /\ bulk'.errs = bulk.errs /\ bulk'.failed = bulk.failed
  <2>1. bulk \in [actions : Seq(Actions), next : 1..Len(plan.calls) + 1, at : 1..Len(bulk.actions) + 1,
                   from : Nat, acc : {bulk.acc}, errs : {bulk.errs}, failed : BOOLEAN, matched : Nat]
    BY DEF WriteInv
  <2> QED BY <2>1
<1>5. /\ W!Queued' = W!Queued /\ W!Telling' = W!Telling /\ Sorted(bulk)' /\ AllOps(bulk)' = AllOps(bulk)
      /\ \A s : Starts(bulk, s) => Starts(bulk, s)'
  BY <1>3, SameQueue DEF BulkInv
<1>6. PlaceInv /\ DoneInv /\ OrderInv /\ Sorted(bulk)
  BY DEF BulkInv
<1>7. plan.safe \in BOOLEAN /\ plan.command \in BOOLEAN /\ plan.ordered \in BOOLEAN /\ plan.faults \in Nat /\ wfaults \in Nat
  BY BulkPlan DEF WriteInv
<1>8. SentOps(bulk)' = S /\ S \subseteq AllOps(bulk)
  <2>1. SentOps(bulk') = SentOps(bulk) \cup Between(bulk, n)
    BY <1>1, <1>3, SentPart, Zenon
  <2>2. SentOps(bulk)' = SentOps(bulk')
    BY DEF SentOps
  <2>3. Between(bulk, n) \subseteq AllOps(bulk) /\ SentOps(bulk) \subseteq AllOps(bulk)
    BY <1>1, <1>6, NotSentYet
  <2> QED BY <2>1, <2>2, <2>3
<1>9. W!Current' = W!Current /\ W!Splits' = W!Splits /\ W!OneByOne' = W!OneByOne
  BY <1>3 DEF W!Current, W!Splits, W!Large, W!OneByOne
<1>10. PlaceInv'
  <2>1. bulk.next = Len(W!Queued) + 1
    BY <1>6 DEF PlaceInv
  <2>2. plan.ordered /\ W!Telling => ~bulk'.failed /\ acc = <<>>
    BY <1>3, <1>6 DEF PlaceInv
  <2>4. wfaults' <= plan.faults
    BY <1>6, <1>7 DEF PlaceInv
  <2>5. bulk'.from < Len(W!Current.docs)
    BY <1>3 DEF W!Current
  <2> QED BY <1>3, <1>5, <1>9, <2>1, <2>2, <2>4, <2>5 DEF PlaceInv
<1>11. /\ bulk.acc \in Seq(Reports) /\ bulk.errs \in Seq(Reports)
  BY <1>6 DEF DoneInv
<1>14. DoneInv'
  <2>3. ToSet(applied') \subseteq AllOps(bulk)'
    BY <1>5, <1>8
  <2>4. ToSet(applied)' = ToSet(applied') /\ ToSet(bulk.errs)' = ToSet(bulk'.errs) /\ ToSet(bulk.acc)' = ToSet(bulk'.acc)
    BY DEF ToSet
  <2>5. Injective(applied)'
    BY DEF Injective
  <2> QED BY <1>3, <1>5, <1>8, <1>11, <2>3, <2>4, <2>5 DEF DoneInv
<1>15. OrderInv'
  <2> SUFFICES ASSUME plan.ordered PROVE OrderInv'
    BY DEF OrderInv
  <2>1. PICK s \in [1..(Len(bulk.actions) + 1) -> 0..(bulk.next - 1)] :
          /\ Starts(bulk, s)
          /\ W!Telling => Begins(applied, W!Queued)
          /\ W!Telling /\ writer \in {"acquire", "write"} => Len(applied) = s[bulk.at] + bulk.from
    BY <1>6 DEF OrderInv
  <2>3. s[bulk.at] \in Nat
    <3>1. bulk.at \in 1..(Len(bulk.actions) + 1)
      BY <1>1
    <3>2. s[bulk.at] \in 0..(bulk.next - 1)
      BY <2>1, <3>1
    <3> QED BY <3>2
  <2>4. W!Telling => Len(applied') = s[bulk'.at] + bulk'.from
    <3>1. ASSUME W!Telling PROVE Len(applied') = s[bulk.at] + n
      <4>3. Len(applied) = s[bulk.at] + bulk.from
        BY <2>1, <3>1
      <4>4. Len(applied') = Len(applied) + (n - bulk.from)
        BY <3>1, Zenon
      <4> QED BY <1>1, <2>3, <4>3, <4>4
    <3> QED BY <1>3, <3>1
  <2>5. Starts(bulk, s)'
    BY <1>5, <2>1
  <2>6. s \in [1..(Len(bulk'.actions) + 1) -> 0..(bulk'.next - 1)]
    BY <1>3
  <2>7. W!Telling' => Begins(applied, W!Queued)'
    BY <1>5 DEF Begins
  <2>8. W!Telling' /\ writer' \in {"acquire", "write"} => Len(applied') = s[bulk'.at] + bulk'.from
    BY <1>5, <2>4
  <2> QED BY <2>5, <2>6, <2>7, <2>8 DEF OrderInv
<1> QED BY <1>5, <1>10, <1>14, <1>15 DEF BulkInv

(* A message of an ordered bulk carries on where what was done ends.       *)
LEMMA NextInOrder ==
    ASSUME WriteInv, writer = "write", ~plan.single, BulkInv, plan.ordered, W!Telling
    PROVE  /\ Begins(applied, W!Queued) /\ Len(applied) \in Nat /\ Len(W!Part) + Len(applied) <= Len(W!Queued)
           /\ \A i \in 1..Len(W!Part) : W!Part[i] = W!Queued[Len(applied) + i]
<1> DEFINE docs == bulk.actions[bulk.at].docs
           n == bulk.from + Len(W!Part)
           q == Len(W!Queued)
<1>1. /\ Len(docs) \in Nat /\ Len(W!Part) \in Nat /\ n <= Len(docs)
      /\ \A i \in 1..Len(W!Part) : W!Part[i] = docs[bulk.from + i]
  BY MessageFacts
<1>2. /\ Len(bulk.actions) \in Nat /\ bulk.at \in 1..Len(bulk.actions) /\ bulk.from \in Nat /\ q \in Nat
  BY BulkTyped, BulkPlan DEF WritesTyped
<1>3. /\ OrderInv /\ bulk.next = q + 1 /\ applied \in Seq(Operations)
  BY DEF BulkInv, PlaceInv, DoneInv
<1>4. PICK s \in [1..(Len(bulk.actions) + 1) -> 0..(bulk.next - 1)] :
        /\ Starts(bulk, s)
        /\ W!Telling => Begins(applied, W!Queued)
        /\ W!Telling /\ writer \in {"acquire", "write"} => Len(applied) = s[bulk.at] + bulk.from
  BY <1>3 DEF OrderInv
<1>5. /\ Begins(applied, W!Queued) /\ Len(applied) = s[bulk.at] + bulk.from /\ Len(applied) \in Nat
  BY <1>3, <1>4
<1>6. s[bulk.at] \in Nat /\ s[bulk.at + 1] \in 0..q
  <2>1. bulk.at \in 1..(Len(bulk.actions) + 1) /\ bulk.at + 1 \in 1..(Len(bulk.actions) + 1)
    BY <1>2
  <2>2. s[bulk.at] \in 0..(bulk.next - 1) /\ s[bulk.at + 1] \in 0..(bulk.next - 1)
    BY <1>4, <2>1
  <2> HIDE DEF q
  <2> QED BY <1>2, <1>3, <2>2
<1>7. /\ s[bulk.at + 1] = s[bulk.at] + Len(docs)
      /\ \A k \in 1..Len(docs) : docs[k] = W!Queued[s[bulk.at] + k]
  BY <1>2, <1>4 DEF Starts
<1> HIDE DEF docs, q
<1>8. Len(W!Part) + Len(applied) <= q
  BY <1>1, <1>2, <1>5, <1>6, <1>7
<1>9. ASSUME NEW i \in 1..Len(W!Part) PROVE W!Part[i] = W!Queued[Len(applied) + i]
  <2>1. bulk.from + i \in 1..Len(docs) /\ s[bulk.at] + (bulk.from + i) = Len(applied) + i
    <3> DEFINE p == Len(W!Part)
               f == bulk.from
               L == Len(docs)
               x == s[bulk.at]
               a == Len(applied)
    <3>1. p \in Nat /\ f \in Nat /\ L \in Nat /\ x \in Nat /\ a = x + f /\ f + p <= L /\ i \in 1..p
      BY <1>1, <1>2, <1>5, <1>6
    <3> HIDE DEF p, f, L, x, a
    <3>2. f + i \in 1..L /\ x + (f + i) = a + i
      BY <3>1
    <3> QED BY <3>2 DEF f, L, x, a
  <2>2. W!Part[i] = docs[bulk.from + i]
    BY <1>1
  <2>3. docs[bulk.from + i] = W!Queued[s[bulk.at] + (bulk.from + i)]
    BY <1>7, <2>1
  <2> QED BY <2>1, <2>2, <2>3
<1> QED BY <1>5, <1>8, <1>9 DEF q

(* What a message does to the claims of the invariant.                     *)
LEMMA MessageClaims ==
    ASSUME WriteInv, writer = "write", ~plan.single, BulkInv, UNCHANGED plan, bulk'.actions = bulk.actions,
           NEW o \in W!Outcomes(W!Part, ~plan.ordered), W!Exchange(o)
    PROVE  LET S == SentOps(bulk) \cup Between(bulk, bulk.from + Len(W!Part)) IN
           /\ OutcomeOk(W!Part, ~plan.ordered, o)
           /\ wfaults' \in Nat /\ wfaults' <= wfaults
           /\ applied' \in Seq(Operations) /\ Injective(applied') /\ ToSet(applied') \subseteq S
           /\ o.err = "nil" /\ W!Telling /\ ~W!BatchLost' /\ ~bulk.failed /\ bulk.acc = <<>> => S \subseteq ToSet(applied')
           /\ ~plan.ordered /\ plan.command /\ plan.safe /\ wfaults' = plan.faults =>
                ~o.fault /\ (ToSet(bulk.errs) \cup ToSet(bulk.acc)) \cup ToSet(o.r.errors) = S \ ToSet(applied')
           /\ plan.ordered /\ W!Telling => /\ Begins(applied', W!Queued)
                                           /\ o.err = "nil" => Len(applied') = Len(applied) + Len(W!Part)
           /\ ~plan.ordered /\ W!Splits /\ o.fault => W!BatchLost'
<1> DEFINE S == SentOps(bulk) \cup Between(bulk, bulk.from + Len(W!Part))
           kept == ToSet(bulk.errs) \cup ToSet(bulk.acc)
<1>1. /\ OutcomeOk(W!Part, ~plan.ordered, o)
      /\ applied' \in Seq(Operations) /\ Injective(applied') /\ ToSet(applied') \subseteq S
      /\ o.err = "nil" /\ plan.safe /\ SentOps(bulk) \subseteq ToSet(applied) => S \subseteq ToSet(applied')
      /\ \A r : ~o.fault /\ ~plan.ordered /\ r = SentOps(bulk) \ ToSet(applied) => r \cup ToSet(o.r.errors) = S \ ToSet(applied')
      /\ \A k \in Nat : plan.ordered /\ Begins(applied, W!Queued) /\ Len(applied) = k
                         /\ Len(W!Part) + k <= Len(W!Queued) /\ (\A i \in 1..Len(W!Part) : W!Part[i] = W!Queued[k + i]) =>
           /\ Begins(applied', W!Queued)
           /\ o.err = "nil" /\ plan.safe => Len(applied') = k + Len(W!Part)
      /\ wfaults' \in Nat /\ wfaults' <= wfaults
      /\ IF o.fault THEN wfaults' < wfaults ELSE wfaults' = wfaults
  BY MessageSent, Zenon
<1>2. /\ plan.safe \in BOOLEAN /\ plan.command \in BOOLEAN /\ plan.ordered \in BOOLEAN /\ plan.faults \in Nat
      /\ W!Telling \in BOOLEAN /\ wfaults \in Nat /\ Len(bulk.actions) \in Nat /\ bulk.at \in 1..Len(bulk.actions)
  BY BulkPlan, BulkTyped DEF WriteInv
<1>3. PlaceInv /\ DoneInv /\ wfaults <= plan.faults
  BY DEF BulkInv, PlaceInv
<1>4. W!Telling => plan.safe
  BY DEF W!Telling
<1>5. W!BatchLost' = (~plan.ordered /\ wfaults' # plan.faults /\ \E i \in DOMAIN bulk.actions : W!Large(bulk.actions[i]))
  BY DEF W!BatchLost, W!Large
<1>6. W!BatchLost => W!BatchLost'
  <2>1. wfaults # plan.faults => wfaults' # plan.faults
    BY <1>1, <1>2, <1>3
  <2> QED BY <1>5, <2>1 DEF W!BatchLost
<1>7. ~plan.ordered /\ W!Splits /\ o.fault => W!BatchLost'
  <2>1. o.fault => wfaults' # plan.faults
    BY <1>1, <1>2, <1>3
  <2>2. W!Splits => \E i \in DOMAIN bulk.actions : W!Large(bulk.actions[i])
    <3>1. bulk.at \in DOMAIN bulk.actions
      <4>1. bulk.actions \in Seq(Actions)
        BY BulkTyped DEF WritesTyped
      <4> QED BY <1>2, <4>1
    <3> QED BY <3>1 DEF W!Splits, W!Current
  <2> QED BY <1>5, <2>1, <2>2
<1> HIDE DEF S, kept
<1>8. o.err = "nil" /\ W!Telling /\ ~W!BatchLost' /\ ~bulk.failed /\ bulk.acc = <<>> => S \subseteq ToSet(applied')
  <2>1. W!Telling /\ ~W!BatchLost /\ ~bulk.failed /\ bulk.acc = <<>> => SentOps(bulk) \subseteq ToSet(applied)
    BY <1>3 DEF DoneInv
  <2> QED BY <1>1, <1>4, <1>6, <2>1, Zenon
<1>9. ~plan.ordered /\ plan.command /\ plan.safe /\ wfaults' = plan.faults => ~o.fault /\ kept \cup ToSet(o.r.errors) = S \ ToSet(applied')
  <2>1. wfaults' = plan.faults => ~o.fault /\ wfaults = plan.faults
    BY <1>1, <1>2, <1>3
  <2>2. ~plan.ordered /\ plan.command /\ plan.safe /\ wfaults = plan.faults => kept = SentOps(bulk) \ ToSet(applied)
    BY <1>3 DEF DoneInv, kept
  <2> QED BY <1>1, <2>1, <2>2, Zenon
<1>10. plan.ordered /\ W!Telling => /\ Begins(applied', W!Queued)
                                    /\ o.err = "nil" => Len(applied') = Len(applied) + Len(W!Part)
  <2>1. plan.ordered /\ W!Telling =>
          /\ Begins(applied, W!Queued) /\ Len(applied) \in Nat /\ Len(W!Part) + Len(applied) <= Len(W!Queued)
          /\ \A i \in 1..Len(W!Part) : W!Part[i] = W!Queued[Len(applied) + i]
    BY NextInOrder
  <2> QED BY <1>1, <1>4, <2>1, Zenon
<1> QED BY <1>1, <1>7, <1>8, <1>9, <1>10, Zenon DEF S, kept

(* A write command keeps the invariant of a bulk: an action sent at once,  *)
(* a batch that fails, the last batch, and one that others follow.         *)
LEMMA writeOpCommandKeeps ==
    ASSUME WriteInv, ~plan.single, BulkInv, W!writeOpCommand
    PROVE  BulkInv'
<1> DEFINE errors(o) == IF o.err = "write" THEN o.r.errors ELSE <<>>
           acc(o) == bulk.acc \o errors(o)
           num(o) == IF plan.safe /\ W!Current.op # "insert" THEN o.r.n ELSE 0
           n == bulk.from + Len(W!Part)
           docs == bulk.actions[bulk.at].docs
           S == SentOps(bulk) \cup Between(bulk, n)
           goes(o) == bulk' = [bulk EXCEPT !.acc = acc(o), !.from = @ + Len(W!Part)] /\ UNCHANGED writer
<1>1. writer = "write" /\ UNCHANGED plan /\ plan.command
  BY Zenon DEF W!writeOpCommand
<1>2. PICK o \in W!Outcomes(W!Part, ~plan.ordered) :
        /\ W!Exchange(o)
        /\ IF ~W!Splits THEN W!checkSuccess(bulk, errors(o), o.err, num(o))
           ELSE IF o.err # "nil" /\ plan.ordered THEN W!checkSuccess(bulk, acc(o), o.err, 0)
           ELSE IF bulk.from + Len(W!Part) = Len(W!Current.docs)
           THEN W!checkSuccess(bulk, acc(o), IF acc(o) = <<>> THEN "nil" ELSE "write", 0)
           ELSE goes(o)
  BY Zenon DEF W!writeOpCommand
<1> DEFINE es == errors(o)
           as == acc(o)
<1>3. /\ docs = W!Current.docs /\ docs \in Seq(Operations) /\ Len(docs) \in Nat
      /\ Len(W!Part) \in Nat /\ n \in Nat /\ bulk.from < n /\ n <= Len(docs) /\ bulk.from \in Nat
      /\ ~W!Splits => n = Len(docs)
  <2>1. ~W!OneByOne
    BY <1>1 DEF W!OneByOne
  <2> QED BY <1>1, <2>1, MessageFacts, BulkTyped DEF WritesTyped
<1>4. /\ PlaceInv /\ DoneInv /\ bulk.acc \in Seq(Reports) /\ plan.safe \in BOOLEAN /\ plan.ordered \in BOOLEAN
      /\ ~W!Splits => bulk.acc = <<>>
      /\ plan.ordered /\ W!Telling => ~bulk.failed /\ bulk.acc = <<>>
      /\ W!Telling => plan.safe
  BY <1>1, BulkPlan DEF BulkInv, PlaceInv, DoneInv, W!Telling
<1>5. bulk'.actions = bulk.actions
  <2>0. bulk \in [actions : Seq(Actions), next : 1..Len(plan.calls) + 1, at : 1..Len(bulk.actions) + 1,
                   from : Nat, acc : {bulk.acc}, errs : {bulk.errs}, failed : BOOLEAN, matched : Nat]
    BY DEF WriteInv
  <2>1. ASSUME NEW e, NEW err, NEW k, W!checkSuccess(bulk, e, err, k) PROVE bulk'.actions = bulk.actions
    BY <2>0, <2>1 DEF W!checkSuccess
  <2>2. ASSUME goes(o) PROVE bulk'.actions = bulk.actions
    BY <2>0, <2>2
  <2> HIDE DEF errors, acc, num, goes
  <2> QED BY <1>2, <2>1, <2>2
<1>6. /\ OutcomeOk(W!Part, ~plan.ordered, o)
      /\ wfaults' \in Nat /\ wfaults' <= wfaults
      /\ applied' \in Seq(Operations) /\ Injective(applied') /\ ToSet(applied') \subseteq S
      /\ o.err = "nil" /\ W!Telling /\ ~W!BatchLost' /\ ~bulk.failed /\ bulk.acc = <<>> => S \subseteq ToSet(applied')
      /\ ~plan.ordered /\ plan.command /\ plan.safe /\ wfaults' = plan.faults =>
           ~o.fault /\ (ToSet(bulk.errs) \cup ToSet(bulk.acc)) \cup ToSet(o.r.errors) = S \ ToSet(applied')
      /\ plan.ordered /\ W!Telling => /\ Begins(applied', W!Queued)
                                      /\ o.err = "nil" => Len(applied') = Len(applied) + Len(W!Part)
      /\ ~plan.ordered /\ W!Splits /\ o.fault => W!BatchLost'
  BY <1>1, <1>2, <1>5, MessageClaims, Zenon
<1>7. /\ o.r.errors \in Seq(Operations) /\ o.err \in {"nil", "write", "net", "concern"}
      /\ o.err = "write" => o.r.errors # <<>>
      /\ o.err = "nil" /\ plan.safe => o.r.errors = <<>>
      /\ (o.fault <=> o.err \in {"net", "concern"})
  BY <1>6 DEF OutcomeOk
<1>8. /\ es \in Seq(Reports) /\ (o.err # "write" => es = <<>>) /\ (o.err = "write" => es = o.r.errors /\ es # <<>>)
      /\ plan.safe /\ ~o.fault => es = o.r.errors
  <2>1. o.r.errors \in Seq(Reports)
    <3>1. Operations \subseteq Reports
      BY DEF Reports
    <3> QED BY <1>7, <3>1, SeqMonotonic
  <2>2. <<>> \in Seq(Reports)
    OBVIOUS
  <2> QED BY <1>7, <2>1, <2>2
<1>9. as \in Seq(Reports) /\ ToSet(as) = ToSet(bulk.acc) \cup ToSet(es) /\ (as = <<>> => bulk.acc = <<>> /\ es = <<>>)
      /\ (bulk.acc = <<>> /\ es = <<>> => as = <<>>)
  <2> HIDE DEF errors
  <2>1. as \in Seq(Reports) /\ ToSet(as) = ToSet(bulk.acc) \cup ToSet(es) /\ Len(as) = Len(bulk.acc) + Len(es)
        /\ Len(es) \in Nat /\ Len(bulk.acc) \in Nat
    BY <1>4, <1>8, ConcatFacts
  <2>2. as = <<>> => Len(bulk.acc) = 0 /\ Len(es) = 0
    <3> HIDE DEF acc
    <3>1. as = <<>> => Len(as) = 0
      OBVIOUS
    <3> QED BY <2>1, <3>1
  <2>3. Len(bulk.acc) = 0 => bulk.acc = <<>>
    BY <1>4
  <2>4. Len(es) = 0 => es = <<>>
    BY <1>8
  <2>5. bulk.acc = <<>> /\ es = <<>> => as = <<>>
    OBVIOUS
  <2> QED BY <2>1, <2>2, <2>3, <2>4, <2>5
<1>10. ToSet(<<>>) = {}
  BY DEF ToSet
<1>11. n = Len(docs) => S = SentOps(bulk) \cup Between(bulk, Len(bulk.actions[bulk.at].docs))
  OBVIOUS
<1>12. S \subseteq SentOps(bulk) \cup Between(bulk, Len(docs))
  BY <1>3 DEF Between
<1> HIDE DEF errors, acc, num, goes, n, docs, S
<1>13. CASE ~W!Splits
  <2>1. W!checkSuccess(bulk, es, o.err, num(o)) /\ n = Len(docs) /\ bulk.acc = <<>>
    BY <1>2, <1>3, <1>4, <1>13
  <2>2. es = <<>> /\ o.err = "nil" /\ W!Telling /\ ~W!BatchLost' /\ ~bulk.failed => S \subseteq ToSet(applied')
    BY <1>6, <2>1
  <2>3. ~plan.ordered /\ plan.command /\ plan.safe /\ wfaults' = plan.faults =>
          /\ es = <<>> => o.err = "nil"
          /\ ToSet(bulk.errs) \cup ToSet(es) = S \ ToSet(applied')
    <3> SUFFICES ASSUME ~plan.ordered, plan.command, plan.safe, wfaults' = plan.faults
                 PROVE  (es = <<>> => o.err = "nil") /\ ToSet(bulk.errs) \cup ToSet(es) = S \ ToSet(applied')
      OBVIOUS
    <3>1. ~o.fault /\ (ToSet(bulk.errs) \cup ToSet(bulk.acc)) \cup ToSet(o.r.errors) = S \ ToSet(applied')
      BY <1>6
    <3>2. es = o.r.errors /\ (es = <<>> => o.err = "nil")
      BY <1>7, <1>8, <3>1
    <3>3. ToSet(bulk.acc) = {}
      BY <1>10, <2>1
    <3> QED BY <3>1, <3>2, <3>3
  <2>4. plan.ordered /\ W!Telling =>
          /\ Begins(applied', W!Queued)
          /\ es = <<>> /\ o.err = "nil" => Len(applied') = Len(applied) + (Len(docs) - bulk.from)
    <3>1. Len(W!Part) = Len(docs) - bulk.from
      BY <1>3, <2>1 DEF n
    <3> QED BY <1>6, <3>1
  <2>5. S = SentOps(bulk) \cup Between(bulk, Len(bulk.actions[bulk.at].docs))
    BY <1>11, <2>1
  <2>7. /\ wfaults' \in Nat /\ wfaults' <= wfaults
        /\ applied' \in Seq(Operations) /\ Injective(applied') /\ ToSet(applied') \subseteq S
    BY <1>6
  <2>8. writer \in {"acquire", "write"} /\ es \in Seq(Reports) /\ o.err \in {"nil", "write", "net", "concern"}
    BY <1>1, <1>7, <1>8
  <2>9. PICK k : W!checkSuccess(bulk, es, o.err, k)
    BY <2>1
  <2> HIDE DEF es
  <2> QED BY <1>1, <2>2, <2>3, <2>4, <2>5, <2>7, <2>8, <2>9, OverKeeps DEF docs
<1>14. CASE W!Splits /\ o.err # "nil" /\ plan.ordered
  <2>1. W!checkSuccess(bulk, as, o.err, 0)
    BY <1>2, <1>14
  <2> DEFINE T == SentOps(bulk) \cup Between(bulk, Len(docs))
  <2>2. ToSet(applied') \subseteq T
    BY <1>6, <1>12
  <2>3. T = SentOps(bulk) \cup Between(bulk, Len(bulk.actions[bulk.at].docs))
    BY DEF docs
  <2>4. plan.ordered /\ W!Telling => Begins(applied', W!Queued)
    BY <1>6
  <2> HIDE DEF as, T
  <2> QED BY <1>1, <1>6, <1>7, <1>9, <1>14, <2>1, <2>2, <2>3, <2>4, OverKeeps DEF docs
<1>15. CASE W!Splits /\ ~(o.err # "nil" /\ plan.ordered) /\ n = Len(docs)
  <2> DEFINE err == IF as = <<>> THEN "nil" ELSE "write"
  <2>1. W!checkSuccess(bulk, as, err, 0)
    BY <1>2, <1>3, <1>15 DEF n
  <2>2. as = <<>> /\ err = "nil" /\ W!Telling /\ ~W!BatchLost' /\ ~bulk.failed => S \subseteq ToSet(applied')
    <3> SUFFICES ASSUME as = <<>>, W!Telling, ~W!BatchLost', ~bulk.failed PROVE S \subseteq ToSet(applied')
      OBVIOUS
    <3>1. bulk.acc = <<>> /\ es = <<>>
      BY <1>9
    <3>2. o.err # "write"
      BY <1>8, <3>1
    <3>3. o.err = "nil"
      BY <1>6, <1>7, <1>15, <3>2
    <3> QED BY <1>6, <3>1, <3>3
  <2>3. ~plan.ordered /\ plan.command /\ plan.safe /\ wfaults' = plan.faults =>
          /\ as = <<>> => err = "nil"
          /\ ToSet(bulk.errs) \cup ToSet(as) = S \ ToSet(applied')
    <3> SUFFICES ASSUME ~plan.ordered, plan.command, plan.safe, wfaults' = plan.faults
                 PROVE  ToSet(bulk.errs) \cup ToSet(as) = S \ ToSet(applied')
      OBVIOUS
    <3>1. ~o.fault /\ (ToSet(bulk.errs) \cup ToSet(bulk.acc)) \cup ToSet(o.r.errors) = S \ ToSet(applied')
      BY <1>6
    <3>2. es = o.r.errors
      BY <1>8, <3>1
    <3>3. ToSet(as) = ToSet(bulk.acc) \cup ToSet(o.r.errors)
      BY <1>9, <3>2
    <3> QED BY <3>1, <3>3
  <2>4. plan.ordered /\ W!Telling =>
          /\ Begins(applied', W!Queued)
          /\ as = <<>> /\ err = "nil" => Len(applied') = Len(applied) + (Len(docs) - bulk.from)
    <3>1. Len(W!Part) = Len(docs) - bulk.from
      BY <1>3, <1>15 DEF n
    <3>2. plan.ordered => o.err = "nil"
      BY <1>15
    <3> QED BY <1>6, <3>1, <3>2
  <2>5. S = SentOps(bulk) \cup Between(bulk, Len(bulk.actions[bulk.at].docs))
    BY <1>11, <1>15
  <2>6. err \in {"nil", "write", "net", "concern"}
    OBVIOUS
  <2>7. /\ wfaults' \in Nat /\ wfaults' <= wfaults
        /\ applied' \in Seq(Operations) /\ Injective(applied') /\ ToSet(applied') \subseteq S
    BY <1>6
  <2>8. writer \in {"acquire", "write"} /\ as \in Seq(Reports)
    BY <1>1, <1>9
  <2> HIDE DEF as, err
  <2> QED BY <1>1, <2>1, <2>2, <2>3, <2>4, <2>5, <2>6, <2>7, <2>8, OverKeeps DEF docs
<1>16. CASE W!Splits /\ ~(o.err # "nil" /\ plan.ordered) /\ n # Len(docs)
  <2>1. bulk' = [bulk EXCEPT !.acc = as, !.from = n] /\ UNCHANGED writer
    BY <1>2, <1>3, <1>16 DEF n, goes
  <2>2. as = <<>> /\ W!Telling /\ ~W!BatchLost' /\ ~bulk.failed => S \subseteq ToSet(applied')
    <3> SUFFICES ASSUME as = <<>>, W!Telling, ~W!BatchLost', ~bulk.failed PROVE S \subseteq ToSet(applied')
      OBVIOUS
    <3>1. bulk.acc = <<>> /\ es = <<>>
      BY <1>9
    <3>2. o.err # "write"
      BY <1>8, <3>1
    <3>3. o.err = "nil"
      BY <1>6, <1>7, <1>16, <3>2
    <3> QED BY <1>6, <3>1, <3>3
  <2>3. ~plan.ordered /\ plan.command /\ plan.safe /\ wfaults' = plan.faults => ToSet(bulk.errs) \cup ToSet(as) = S \ ToSet(applied')
    <3> SUFFICES ASSUME ~plan.ordered, plan.command, plan.safe, wfaults' = plan.faults
                 PROVE  ToSet(bulk.errs) \cup ToSet(as) = S \ ToSet(applied')
      OBVIOUS
    <3>1. ~o.fault /\ (ToSet(bulk.errs) \cup ToSet(bulk.acc)) \cup ToSet(o.r.errors) = S \ ToSet(applied')
      BY <1>6
    <3>2. es = o.r.errors
      BY <1>8, <3>1
    <3>3. ToSet(as) = ToSet(bulk.acc) \cup ToSet(o.r.errors)
      BY <1>9, <3>2
    <3> QED BY <3>1, <3>3
  <2>4. plan.ordered /\ W!Telling =>
          /\ as = <<>> /\ Begins(applied', W!Queued)
          /\ Len(applied') = Len(applied) + (n - bulk.from)
    <3>1. Len(W!Part) = n - bulk.from
      BY <1>3 DEF n
    <3>2. plan.ordered => o.err = "nil" /\ es = <<>>
      BY <1>8, <1>16
    <3>3. plan.ordered /\ W!Telling => as = <<>>
      BY <1>4, <1>9, <3>2
    <3> QED BY <1>6, <3>1, <3>2, <3>3
  <2>5. n < Len(docs) /\ bulk.from <= n
    BY <1>3, <1>16
  <2>6. S = SentOps(bulk) \cup Between(bulk, n)
    BY DEF S
  <2> HIDE DEF as
  <2> QED BY <1>1, <1>3, <1>6, <1>9, <1>16, <2>1, <2>2, <2>3, <2>4, <2>5, <2>6, GoesOnKeeps DEF docs
<1> QED BY <1>13, <1>14, <1>15, <1>16

(* writeOp has no answer to look at, and Run panics.                       *)
LEMMA CrashKeeps ==
    ASSUME WriteInv, ~plan.single, BulkInv, writer = "write", UNCHANGED <<plan, bulk>>, writer' = "crashed",
           wfaults' \in Nat, wfaults' <= wfaults, ~plan.command,
           applied' \in Seq(Operations), Injective(applied'),
           ToSet(applied') \subseteq SentOps(bulk) \cup Between(bulk, Len(bulk.actions[bulk.at].docs)),
           plan.ordered /\ W!Telling => Begins(applied', W!Queued)
    PROVE  BulkInv'
<1>1. /\ W!Queued' = W!Queued /\ W!Telling' = W!Telling /\ Sorted(bulk)' /\ AllOps(bulk)' = AllOps(bulk)
      /\ \A s : Starts(bulk, s) => Starts(bulk, s)'
  BY SameQueue DEF BulkInv
<1>2. PlaceInv /\ DoneInv /\ OrderInv /\ Sorted(bulk)
  BY DEF BulkInv
<1>3. plan.faults \in Nat /\ wfaults \in Nat /\ WritesTyped(bulk) /\ bulk.at \in 1..Len(bulk.actions)
  BY BulkPlan, BulkTyped DEF WriteInv
<1>4. ToSet(applied') \subseteq AllOps(bulk)
  <2>1. Between(bulk, Len(bulk.actions[bulk.at].docs)) \subseteq AllOps(bulk) /\ SentOps(bulk) \subseteq AllOps(bulk)
    BY <1>2, <1>3, NotSentYet
  <2> QED BY <2>1
<1>5. PlaceInv'
  <2>1. wfaults' <= plan.faults
    BY <1>2, <1>3 DEF PlaceInv
  <2> QED BY <1>1, <1>2, <2>1 DEF PlaceInv
<1>6. DoneInv'
  <2>1. ToSet(applied') \subseteq AllOps(bulk)'
    BY <1>1, <1>4
  <2>2. ToSet(applied)' = ToSet(applied')
    BY DEF ToSet
  <2>3. Injective(applied)'
    BY DEF Injective
  <2> QED BY <1>2, <2>1, <2>2, <2>3 DEF DoneInv
<1>7. OrderInv'
  <2> SUFFICES ASSUME plan.ordered PROVE OrderInv'
    BY DEF OrderInv
  <2>1. PICK s \in [1..(Len(bulk.actions) + 1) -> 0..(bulk.next - 1)] : Starts(bulk, s)
    BY <1>2 DEF OrderInv
  <2>2. Starts(bulk, s)'
    BY <1>1, <2>1
  <2>3. W!Telling' => Begins(applied, W!Queued)'
    BY <1>1 DEF Begins
  <2> QED BY <2>1, <2>2, <2>3 DEF OrderInv
<1> QED BY <1>1, <1>5, <1>6, <1>7 DEF BulkInv
(* A message to an old server keeps the invariant of a bulk: inserts, the  *)
(* crash for want of an answer, the last operation of an action or the one *)
(* that failed, and one that others follow.                                *)
LEMMA writeOpQueryKeeps ==
    ASSUME WriteInv, ~plan.single, BulkInv, W!writeOpQuery
    PROVE  BulkInv'
<1> DEFINE n == bulk.from + Len(W!Part)
           docs == bulk.actions[bulk.at].docs
           S == SentOps(bulk) \cup Between(bulk, n)
<1>1. writer = "write" /\ UNCHANGED plan /\ ~plan.command
  BY Zenon DEF W!writeOpQuery
<1>2. PICK o \in W!Outcomes(W!Part, ~plan.ordered) :
        /\ W!Exchange(o)
        /\ IF ~W!OneByOne THEN W!checkSuccess(bulk, <<>>, o.err, 0)
           ELSE IF o.err = "net" THEN writer' = "crashed" /\ UNCHANGED bulk
           ELSE IF bulk.from + Len(W!Part) = Len(W!Current.docs) \/ (o.err # "nil" /\ plan.ordered)
           THEN W!checkSuccess(bulk, <<>>, "nil", 0)
           ELSE /\ bulk' = [bulk EXCEPT !.from = @ + 1]
                /\ UNCHANGED writer
  BY Zenon DEF W!writeOpQuery
<1>3. /\ docs = W!Current.docs /\ docs \in Seq(Operations) /\ Len(docs) \in Nat
      /\ Len(W!Part) \in Nat /\ n \in Nat /\ bulk.from < n /\ n <= Len(docs) /\ bulk.from \in Nat
      /\ ~W!OneByOne => n = Len(docs)
      /\ W!OneByOne => n = bulk.from + 1
      /\ \A i \in 1..Len(W!Part) : W!Kind(W!Part[i].op) = W!Current.op
  <2>1. ~W!Splits
    BY <1>1 DEF W!Splits, W!Large
  <2> QED BY <1>1, <2>1, MessageFacts, BulkTyped DEF WritesTyped
<1>4. /\ PlaceInv /\ DoneInv /\ plan.safe \in BOOLEAN /\ plan.ordered \in BOOLEAN /\ W!Telling \in BOOLEAN
      /\ bulk.acc = <<>>
      /\ W!Telling => plan.safe /\ \A op \in plan.rejected : op.op = "insert"
  <2>1. ~W!Splits
    BY <1>1 DEF W!Splits, W!Large
  <2> QED BY <1>1, <2>1, BulkPlan DEF BulkInv, PlaceInv, W!Telling
<1>5. bulk \in [actions : Seq(Actions), next : 1..Len(plan.calls) + 1, at : 1..Len(bulk.actions) + 1,
                from : Nat, acc : {bulk.acc}, errs : {bulk.errs}, failed : BOOLEAN, matched : Nat]
  BY DEF WriteInv
<1>6. bulk'.actions = bulk.actions
  <2>1. ASSUME NEW err, W!checkSuccess(bulk, <<>>, err, 0) PROVE bulk'.actions = bulk.actions
    BY <1>5, <2>1 DEF W!checkSuccess
  <2>2. ASSUME bulk' = [bulk EXCEPT !.from = @ + 1] PROVE bulk'.actions = bulk.actions
    BY <1>5, <2>2
  <2> QED BY <1>2, <2>1, <2>2
<1>7. /\ OutcomeOk(W!Part, ~plan.ordered, o)
      /\ wfaults' \in Nat /\ wfaults' <= wfaults
      /\ applied' \in Seq(Operations) /\ Injective(applied') /\ ToSet(applied') \subseteq S
      /\ o.err = "nil" /\ W!Telling /\ ~W!BatchLost' /\ ~bulk.failed /\ bulk.acc = <<>> => S \subseteq ToSet(applied')
      /\ plan.ordered /\ W!Telling => /\ Begins(applied', W!Queued)
                                      /\ o.err = "nil" => Len(applied') = Len(applied) + Len(W!Part)
  BY <1>1, <1>2, <1>6, MessageClaims, Zenon
<1>8. /\ o.err \in {"nil", "write", "net", "concern"} /\ o.err # "concern"
      /\ (\A k \in 1..Len(W!Part) : W!Part[k] \notin plan.rejected /\ W!Part[k].op # "insert") => o.err # "write"
  BY <1>1, <1>7 DEF OutcomeOk
<1>9. ASSUME W!OneByOne, W!Telling, o.err # "net" PROVE o.err = "nil"
  <2>1. ASSUME NEW k \in 1..Len(W!Part) PROVE W!Part[k] \notin plan.rejected /\ W!Part[k].op # "insert"
    <3>1. W!Kind(W!Part[k].op) # "insert"
      BY <1>3, <1>9 DEF W!OneByOne
    <3>2. W!Part[k].op # "insert"
      BY <3>1 DEF W!Kind
    <3> QED BY <1>4, <1>9, <3>2
  <2> QED BY <1>8, <1>9, <2>1
<1>10. <<>> \in Seq(Reports) /\ Len(W!Part) = n - bulk.from
  BY <1>3
<1>11. n = Len(docs) => S = SentOps(bulk) \cup Between(bulk, Len(bulk.actions[bulk.at].docs))
  OBVIOUS
<1>12. S \subseteq SentOps(bulk) \cup Between(bulk, Len(docs))
  BY <1>3 DEF Between
<1>13. bulk.from + Len(W!Part) = Len(W!Current.docs) <=> n = Len(docs)
  BY <1>3
<1> HIDE DEF n, docs, S
<1>14. CASE ~W!OneByOne
  <2>1. W!checkSuccess(bulk, <<>>, o.err, 0) /\ n = Len(docs)
    BY <1>2, <1>3, <1>14
  <2>2. o.err = "nil" /\ W!Telling /\ ~W!BatchLost' /\ ~bulk.failed => S \subseteq ToSet(applied')
    BY <1>4, <1>7
  <2>3. plan.ordered /\ W!Telling =>
          /\ Begins(applied', W!Queued)
          /\ o.err = "nil" => Len(applied') = Len(applied) + (Len(docs) - bulk.from)
    BY <1>7, <1>10, <2>1
  <2>4. S = SentOps(bulk) \cup Between(bulk, Len(bulk.actions[bulk.at].docs))
    BY <1>11, <2>1
  <2>5. writer \in {"acquire", "write"} /\ wfaults' \in Nat /\ wfaults' <= wfaults
        /\ applied' \in Seq(Operations) /\ Injective(applied') /\ ToSet(applied') \subseteq S
    BY <1>1, <1>7
  <2> QED BY <1>1, <1>8, <1>10, <2>1, <2>2, <2>3, <2>4, <2>5, OverKeeps DEF docs
<1>15. CASE W!OneByOne /\ o.err = "net"
  <2>1. writer' = "crashed" /\ UNCHANGED bulk
    BY <1>2, <1>15
  <2> QED BY <1>1, <1>3, <1>4, <1>7, <1>12, <2>1, CrashKeeps DEF docs, S
<1>16. CASE W!OneByOne /\ o.err # "net" /\ (n = Len(docs) \/ (o.err # "nil" /\ plan.ordered))
  <2>1. W!checkSuccess(bulk, <<>>, "nil", 0)
    BY <1>2, <1>13, <1>16
  <2> DEFINE T == SentOps(bulk) \cup Between(bulk, Len(docs))
  <2>2. W!Telling => n = Len(docs)
    BY <1>9, <1>16
  <2>3. W!Telling /\ ~W!BatchLost' /\ ~bulk.failed => T \subseteq ToSet(applied')
    <3>1. n = Len(docs) => T = S
      BY DEF S
    <3> QED BY <1>4, <1>7, <1>9, <1>16, <2>2, <3>1
  <2>4. plan.ordered /\ W!Telling =>
          /\ Begins(applied', W!Queued)
          /\ Len(applied') = Len(applied) + (Len(docs) - bulk.from)
    BY <1>7, <1>9, <1>10, <1>16, <2>2
  <2>5. writer \in {"acquire", "write"} /\ wfaults' \in Nat /\ wfaults' <= wfaults
        /\ applied' \in Seq(Operations) /\ Injective(applied') /\ ToSet(applied') \subseteq T
    BY <1>1, <1>7, <1>12
  <2>6. T = SentOps(bulk) \cup Between(bulk, Len(bulk.actions[bulk.at].docs))
    BY DEF docs
  <2> HIDE DEF T
  <2> QED BY <1>1, <1>10, <2>1, <2>3, <2>4, <2>5, <2>6, OverKeeps DEF docs
<1>17. CASE W!OneByOne /\ o.err # "net" /\ ~(n = Len(docs) \/ (o.err # "nil" /\ plan.ordered))
  <2>1. bulk' = [bulk EXCEPT !.from = bulk.from + 1] /\ UNCHANGED writer
    BY <1>2, <1>13, <1>17
  <2>2. bulk' = [bulk EXCEPT !.acc = <<>>, !.from = n] /\ n < Len(docs) /\ bulk.from <= n
    <3>1. n = bulk.from + 1
      BY <1>3, <1>17
    <3>2. bulk' = [bulk EXCEPT !.acc = <<>>, !.from = n]
      BY <1>4, <1>5, <2>1, <3>1
    <3> QED BY <1>3, <1>17, <3>2
  <2>3. W!Telling /\ ~W!BatchLost' /\ ~bulk.failed => S \subseteq ToSet(applied')
    BY <1>4, <1>7, <1>9, <1>17
  <2>4. plan.ordered /\ W!Telling =>
          /\ Begins(applied', W!Queued)
          /\ Len(applied') = Len(applied) + (n - bulk.from)
    BY <1>7, <1>9, <1>10, <1>17
  <2>5. wfaults' \in Nat /\ wfaults' <= wfaults
        /\ applied' \in Seq(Operations) /\ Injective(applied') /\ ToSet(applied') \subseteq S
    BY <1>7
  <2>6. S = SentOps(bulk) \cup Between(bulk, n)
    BY DEF S
  <2>7. UNCHANGED <<plan, writer>>
    BY <1>1, <2>1
  <2> QED BY <1>1, <1>3, <1>10, <1>17, <2>2, <2>3, <2>4, <2>5, <2>6, <2>7, GoesOnKeeps DEF docs
<1> QED BY <1>14, <1>15, <1>16, <1>17

(* Nothing was sent, and the action is given up.                           *)
LEMMA AcquireFailsKeeps ==
    ASSUME WriteInv, ~plan.single, BulkInv, W!AcquireFails
    PROVE  BulkInv'
<1> DEFINE S == SentOps(bulk) \cup Between(bulk, Len(bulk.actions[bulk.at].docs))
<1>1. /\ writer = "acquire" /\ wfaults' = wfaults - 1 /\ wfaults > 0 /\ UNCHANGED <<plan, applied>>
      /\ W!checkSuccess(bulk, <<>>, "net", 0)
  BY DEF W!AcquireFails
<1>2. DoneInv /\ OrderInv /\ PlaceInv /\ wfaults \in Nat /\ plan.faults \in Nat
  BY BulkPlan DEF BulkInv, WriteInv
<1>3. /\ applied' \in Seq(Operations) /\ Injective(applied') /\ ToSet(applied') \subseteq S
  BY <1>1, <1>2 DEF DoneInv
<1>4. plan.ordered /\ W!Telling => Begins(applied', W!Queued)
  BY <1>1, <1>2 DEF OrderInv
<1>5. wfaults' \in Nat /\ wfaults' <= wfaults /\ wfaults' # plan.faults
  BY <1>1, <1>2 DEF PlaceInv
<1>6. <<>> \in Seq(Reports)
  OBVIOUS
<1> HIDE DEF S
<1>7. S = SentOps(bulk) \cup Between(bulk, Len(bulk.actions[bulk.at].docs))
  BY DEF S
<1> QED BY <1>1, <1>3, <1>4, <1>5, <1>6, <1>7, OverKeeps

(* The first socket, for the next action.                                  *)
LEMMA AcquireKeeps ==
    ASSUME WriteInv, ~plan.single, BulkInv, W!Acquire
    PROVE  BulkInv'
<1>1. writer = "acquire" /\ writer' = "write" /\ UNCHANGED <<plan, bulk, applied, wfaults>>
  BY DEF W!Acquire
<1>2. /\ W!Queued' = W!Queued /\ W!Telling' = W!Telling /\ Sorted(bulk)' /\ AllOps(bulk)' = AllOps(bulk)
      /\ \A s : Starts(bulk, s) => Starts(bulk, s)'
  BY <1>1, SameQueue DEF BulkInv
<1>3. PlaceInv /\ DoneInv /\ OrderInv
  BY DEF BulkInv
<1>4. Len(W!Current.docs) \in Nat \ {0}
  <2>1. WritesTyped(bulk) /\ bulk.at \in 1..Len(bulk.actions)
    BY <1>1, BulkTyped
  <2> QED BY <2>1, DocsFacts DEF W!Current
<1>5. W!Current' = W!Current
  BY <1>1 DEF W!Current
<1>6. PlaceInv'
  <2>1. bulk.from = 0 /\ bulk.acc = <<>> /\ (plan.ordered /\ W!Telling => ~bulk.failed) /\ bulk.next = Len(W!Queued) + 1
    BY <1>1, <1>3 DEF PlaceInv
  <2>2. wfaults <= plan.faults
    BY <1>3 DEF PlaceInv
  <2> QED BY <1>1, <1>2, <1>4, <1>5, <2>1, <2>2 DEF PlaceInv
<1>7. DoneInv'
  <2>1. W!BatchLost' = W!BatchLost
    BY <1>1 DEF W!BatchLost, W!Large
  <2>2. SentOps(bulk)' = SentOps(bulk)
    BY <1>1 DEF SentOps
  <2>3. ToSet(applied)' = ToSet(applied) /\ ToSet(bulk.errs)' = ToSet(bulk.errs) /\ ToSet(bulk.acc)' = ToSet(bulk.acc)
    BY <1>1 DEF ToSet
  <2>4. Injective(applied)' <=> Injective(applied)
    BY <1>1 DEF Injective
  <2> QED BY <1>1, <1>2, <1>3, <2>1, <2>2, <2>3, <2>4 DEF DoneInv
<1>8. OrderInv'
  <2> SUFFICES ASSUME plan.ordered PROVE OrderInv'
    BY <1>1 DEF OrderInv
  <2>1. PICK s \in [1..(Len(bulk.actions) + 1) -> 0..(bulk.next - 1)] :
          /\ Starts(bulk, s)
          /\ W!Telling => Begins(applied, W!Queued)
          /\ W!Telling /\ writer \in {"acquire", "write"} => Len(applied) = s[bulk.at] + bulk.from
    BY <1>3 DEF OrderInv
  <2>2. Starts(bulk, s)'
    BY <1>2, <2>1
  <2>3. W!Telling' => Begins(applied, W!Queued)'
    BY <1>1, <1>2, <2>1 DEF Begins
  <2>4. W!Telling' /\ writer' \in {"acquire", "write"} => Len(applied') = s[bulk'.at] + bulk'.from
    BY <1>1, <1>2, <2>1
  <2>5. s \in [1..(Len(bulk'.actions) + 1) -> 0..(bulk'.next - 1)]
    BY <1>1
  <2> QED BY <2>2, <2>3, <2>4, <2>5 DEF OrderInv
<1> QED BY <1>2, <1>6, <1>7, <1>8 DEF BulkInv

(* Run begins when everything is queued up.                                *)
LEMMA RunKeeps ==
    ASSUME WriteInv, ~plan.single, BulkInv, W!Run
    PROVE  BulkInv'
<1>1. /\ writer = "queue" /\ bulk.next > Len(W!Queued) /\ UNCHANGED <<plan, bulk, applied, wfaults>>
      /\ writer' = IF bulk.actions = <<>> THEN "done" ELSE "acquire"
  BY DEF W!Run
<1>2. /\ W!Queued' = W!Queued /\ W!Telling' = W!Telling /\ Sorted(bulk)' /\ AllOps(bulk)' = AllOps(bulk)
      /\ \A s : Starts(bulk, s) => Starts(bulk, s)'
  BY <1>1, SameQueue DEF BulkInv
<1>3. PlaceInv /\ DoneInv /\ OrderInv
  BY DEF BulkInv
<1>4. /\ bulk.next = Len(W!Queued) + 1 /\ bulk.actions \in Seq(Actions) /\ Len(bulk.actions) \in Nat
  BY <1>1, BulkTyped, BulkPlan DEF WritesTyped
<1>5. /\ applied = <<>> /\ bulk.at = 1 /\ bulk.from = 0 /\ bulk.acc = <<>> /\ bulk.errs = <<>> /\ ~bulk.failed
      /\ wfaults = plan.faults /\ wfaults <= plan.faults
  BY <1>1, <1>3 DEF PlaceInv
<1>6. PlaceInv'
  <2>1. writer' = "done" => bulk.at = Len(bulk.actions) + 1
    BY <1>1, <1>5
  <2> QED BY <1>1, <1>2, <1>4, <1>5, <2>1 DEF PlaceInv
<1>7. DoneInv'
  <2>1. W!BatchLost' = W!BatchLost
    BY <1>1 DEF W!BatchLost, W!Large
  <2>2. SentOps(bulk)' = SentOps(bulk)
    BY <1>1 DEF SentOps
  <2>3. ToSet(applied)' = ToSet(applied) /\ ToSet(bulk.errs)' = ToSet(bulk.errs) /\ ToSet(bulk.acc)' = ToSet(bulk.acc)
    BY <1>1 DEF ToSet
  <2>4. Injective(applied)' <=> Injective(applied)
    BY <1>1 DEF Injective
  <2> QED BY <1>1, <1>2, <1>3, <2>1, <2>2, <2>3, <2>4 DEF DoneInv
<1>8. OrderInv'
  <2> SUFFICES ASSUME plan.ordered PROVE OrderInv'
    BY <1>1 DEF OrderInv
  <2>1. PICK s \in [1..(Len(bulk.actions) + 1) -> 0..(bulk.next - 1)] :
          /\ Starts(bulk, s)
          /\ W!Telling => Begins(applied, W!Queued)
          /\ W!Telling /\ writer \in {"acquire", "write"} => Len(applied) = s[bulk.at] + bulk.from
    BY <1>3 DEF OrderInv
  <2>2. Starts(bulk, s)'
    BY <1>2, <2>1
  <2>3. W!Telling' => Begins(applied, W!Queued)'
    BY <1>1, <1>2, <2>1 DEF Begins
  <2>4. Len(applied') = s[bulk'.at] + bulk'.from
    BY <1>1, <1>5, <2>1 DEF Starts
  <2>5. s \in [1..(Len(bulk'.actions) + 1) -> 0..(bulk'.next - 1)]
    BY <1>1, Zenon
  <2> QED BY <2>2, <2>3, <2>4, <2>5 DEF OrderInv
<1> QED BY <1>2, <1>6, <1>7, <1>8 DEF BulkInv

(* Where the operation is then.                                            *)
LEMMA QueueShape ==
    ASSUME WriteInv, W!Queue
    PROVE  LET op == W!Queued[bulk.next]
               old == bulk.actions
               i == W!action(old, W!Kind(op.op))
               then == bulk'.actions
               x == IF i > Len(old) THEN <<>> ELSE old[i].docs
           IN  /\ op \in Operations /\ Len(old) \in Nat /\ i \in 1..(Len(old) + 1) /\ bulk.next <= Len(W!Queued)
               /\ Len(then) = IF i > Len(old) THEN Len(old) + 1 ELSE Len(old)
               /\ \A a \in 1..Len(then) : a # i => a \in 1..Len(old) /\ then[a] = old[a]
               /\ i \in 1..Len(then) /\ x \in Seq(Operations)
               /\ then[i].op = W!Kind(op.op) /\ then[i].docs = Append(x, op)
               /\ i <= Len(old) => old[i].op = W!Kind(op.op)
               /\ plan.ordered => i >= Len(old)
               /\ bulk'.next = bulk.next + 1 /\ bulk'.at = bulk.at /\ bulk'.from = bulk.from /\ bulk'.acc = bulk.acc
               /\ bulk'.errs = bulk.errs /\ bulk'.failed = bulk.failed
               /\ writer = "queue" /\ UNCHANGED <<plan, writer, applied, wfaults>>
<1> DEFINE op == W!Queued[bulk.next]
           kind == W!Kind(op.op)
           old == bulk.actions
           i == W!action(old, kind)
           new == [op |-> kind, docs |-> <<>>]
           actions == IF i > Len(old) THEN Append(old, new) ELSE old
           then == [actions EXCEPT ![i].docs = Append(@, op)]
           next == bulk.next + 1
           x == IF i > Len(old) THEN <<>> ELSE old[i].docs
<1>1. /\ bulk' = [bulk EXCEPT !.actions = then, !.next = next]
      /\ UNCHANGED <<plan, collection, writer, applied, wfaults>> /\ writer = "queue" /\ bulk.next <= Len(W!Queued)
  BY DEF W!Queue
<1>2. /\ bulk \in [actions : Seq(Actions), next : 1..Len(plan.calls) + 1, at : 1..Len(bulk.actions) + 1,
                   from : Nat, acc : {bulk.acc}, errs : {bulk.errs}, failed : BOOLEAN, matched : Nat]
      /\ old \in Seq(Actions) /\ bulk.next \in 1..Len(plan.calls) + 1
  BY DEF WriteInv
<1>3. op \in Operations
  BY <1>1, <1>2, PlanFacts
<1>4. /\ i \in 1..(Len(old) + 1)
      /\ i <= Len(old) => old[i].op = kind
      /\ plan.ordered => i >= Len(old)
  BY <1>2, ActionIsSame
<1>5. Len(old) \in Nat
  BY <1>2
<1>6. /\ bulk'.actions = then /\ bulk'.next = next /\ bulk'.at = bulk.at /\ bulk'.from = bulk.from /\ bulk'.acc = bulk.acc
      /\ bulk'.errs = bulk.errs /\ bulk'.failed = bulk.failed
  <2> HIDE DEF then, next
  <2> QED BY <1>1, <1>2
<1>10. /\ Len(then) \in Nat /\ DOMAIN then = 1..Len(then)
       /\ \A m \in Nat : 1..Len(then) = 1..m => Len(then) = m
  <2>1. bulk'.actions \in Seq(Actions)
    BY QueueKeeps DEF WriteInv
  <2> HIDE DEF then
  <2>2. then \in Seq(Actions)
    BY <1>6, <2>1
  <2>3. Len(then) \in Nat /\ DOMAIN then = 1..Len(then)
    BY <2>2
  <2>4. \A k, m \in Nat : 1..k = 1..m => k = m
    <3> SUFFICES ASSUME NEW k \in Nat, NEW m \in Nat, 1..k = 1..m PROVE k = m
      OBVIOUS
    <3>1. k > m => k \in 1..k /\ k \notin 1..m
      OBVIOUS
    <3>2. m > k => m \in 1..m /\ m \notin 1..k
      OBVIOUS
    <3> QED BY <3>1, <3>2
  <2> QED BY <2>3, <2>4
<1>7. kind \in {"insert", "update", "remove"}
  BY <1>3, KindFacts DEF Operations
<1> HIDE DEF op, kind, old, i
<1>8. CASE i > Len(old)
  <2>1. actions = Append(old, new) /\ i = Len(old) + 1
    BY <1>4, <1>5, <1>8
  <2> DEFINE Half == [op : {"insert", "update", "remove"}, docs : Seq(Operations)]
  <2>8. new \in Half /\ old \in Seq(Half)
    <3>1. Actions \subseteq Half
      BY DEF Actions
    <3>2. new \in Half
      BY <1>7
    <3> HIDE DEF Half
    <3> QED BY <1>2, <3>1, <3>2, SeqMonotonic
  <2> HIDE DEF Half, new
  <2>2. /\ Append(old, new) \in Seq(Half) /\ Len(Append(old, new)) = i /\ Append(old, new)[i] = new
        /\ \A a \in 1..Len(old) : Append(old, new)[a] = old[a]
    BY <2>1, <2>8, AppendProperties
  <2>3. DOMAIN actions = 1..i /\ actions[i] = new /\ i \in 1..i /\ \A a \in 1..Len(old) : actions[a] = old[a]
    BY <1>4, <1>5, <2>1, <2>2
  <2> HIDE DEF actions
  <2>4. then = [actions EXCEPT ![i] = [actions[i] EXCEPT !.docs = Append(actions[i].docs, op)]]
    OBVIOUS
  <2>5. DOMAIN then = 1..i /\ then[i] = [new EXCEPT !.docs = Append(new.docs, op)]
        /\ \A a \in 1..i : a # i => then[a] = actions[a]
    BY <2>3, <2>4
  <2>6. Len(then) = i
    <3> HIDE DEF then
    <3> QED BY <1>4, <1>5, <1>10, <2>5
  <2>7. new.docs = <<>> /\ then[i].op = kind /\ then[i].docs = Append(<<>>, op)
    BY <2>5 DEF new
  <2>9. \A a \in 1..i : a # i => a \in 1..Len(old) /\ then[a] = old[a]
    BY <1>5, <2>1, <2>3, <2>5
  <2>10. x = <<>> /\ x \in Seq(Operations)
    BY <1>8, SMTT(30)
  <2> HIDE DEF then, x
  <2> QED BY <1>1, <1>3, <1>4, <1>5, <1>6, <1>8, <2>1, <2>3, <2>6, <2>7, <2>9, <2>10 DEF op, old, i, kind, next, x
<1>9. CASE ~(i > Len(old))
  <2>1. actions = old /\ i \in 1..Len(old) /\ i <= Len(old) /\ x = old[i].docs
    BY <1>4, <1>5, <1>9
  <2>2. old[i] \in Actions
    BY <1>2, <2>1
  <2>3. old[i].docs \in Seq(Operations) /\ old[i] = [op |-> old[i].op, docs |-> old[i].docs] /\ DOMAIN old = 1..Len(old)
    BY <1>2, <2>2 DEF Actions
  <2>4. then = [old EXCEPT ![i] = [old[i] EXCEPT !.docs = Append(old[i].docs, op)]]
    BY <2>1
  <2>5. DOMAIN then = 1..Len(old) /\ then[i] = [old[i] EXCEPT !.docs = Append(old[i].docs, op)]
        /\ \A a \in 1..Len(old) : a # i => then[a] = old[a]
    BY <2>1, <2>3, <2>4
  <2>6. Len(then) = Len(old)
    <3> HIDE DEF then
    <3> QED BY <1>5, <1>10, <2>5
  <2>7. then[i].op = old[i].op /\ then[i].docs = Append(old[i].docs, op)
    <3> HIDE DEF then
    <3> QED BY <2>3, <2>5
  <2> HIDE DEF then, x
  <2> QED BY <1>1, <1>3, <1>4, <1>5, <1>6, <1>9, <2>1, <2>3, <2>5, <2>6, <2>7, ZenonT(30) DEF op, old, i, kind, next, x
<1> QED BY <1>8, <1>9, Zenon

(* Queueing an operation keeps the bulk sorted.                            *)
LEMMA QueueKeepsSorted ==
    ASSUME WriteInv, ~plan.single, Sorted(bulk), W!Queue
    PROVE  Sorted(bulk)'
<1> DEFINE op == W!Queued[bulk.next]
           kind == W!Kind(op.op)
           old == bulk.actions
           i == W!action(old, kind)
           then == bulk'.actions
           x == IF i > Len(old) THEN <<>> ELSE old[i].docs
           q == bulk.next
           Mine(s) == {s[j] : j \in 1..(q - 1)}
<1>1. /\ op \in Operations /\ Len(old) \in Nat /\ i \in 1..(Len(old) + 1) /\ q <= Len(W!Queued)
      /\ Len(then) = IF i > Len(old) THEN Len(old) + 1 ELSE Len(old)
      /\ \A a \in 1..Len(then) : a # i => a \in 1..Len(old) /\ then[a] = old[a]
      /\ i \in 1..Len(then) /\ x \in Seq(Operations)
      /\ then[i].op = kind /\ then[i].docs = Append(x, op)
      /\ i <= Len(old) => old[i].op = kind
      /\ bulk'.next = q + 1 /\ UNCHANGED plan
  BY QueueShape, ZenonT(30)
<1>2. W!Queued' = W!Queued
  BY <1>1, Zenon DEF W!Queued, W!Op
<1>3. Injective(W!Queued) /\ q \in 1..Len(W!Queued) /\ Len(W!Queued) \in Nat
  <2>1. q \in 1..(Len(W!Queued) + 1)
    BY BulkTyped, BulkPlan, Zenon
  <2>2. Injective(W!Queued) /\ Len(W!Queued) \in Nat /\ q <= Len(W!Queued)
    BY <1>1, BulkPlan, Zenon
  <2> HIDE DEF q
  <2> QED BY <2>1, <2>2
<1>4. op = W!Queued[q]
  OBVIOUS
<1>5. AllOps(bulk) = {W!Queued[j] : j \in 1..(q - 1)}
  BY DEF Sorted
<1> HIDE DEF op, kind, i, x, q
<1>6. op \notin AllOps(bulk)
  <2> SUFFICES ASSUME NEW j \in 1..(q - 1), op = W!Queued[j] PROVE FALSE
    BY <1>5
  <2>1. j \in 1..Len(W!Queued) /\ j # q
    BY <1>3
  <2> QED BY <1>3, <1>4, <2>1 DEF Injective
<1>7. /\ i <= Len(old) => x = old[i].docs /\ i \in 1..Len(old)
      /\ i > Len(old) => x = <<>>
  BY <1>1 DEF x
<1>8. /\ Len(Append(x, op)) = Len(x) + 1 /\ Len(x) \in Nat
      /\ Append(x, op)[Len(x) + 1] = op /\ \A k \in 1..Len(x) : Append(x, op)[k] = x[k]
  BY <1>1, AppendOne
<1>9. i \in Int /\ \A k \in 1..(Len(x) + 1) : k = Len(x) + 1 \/ k \in 1..Len(x)
  BY <1>1, <1>8
<1>10. \A k \in 1..Len(x) : x[k] \in Operations
  BY <1>1, ElementOfSeq
<1>11. ASSUME NEW k \in 1..Len(x) PROVE i \in 1..Len(old) /\ x = old[i].docs /\ x[k] \in AllOps(bulk)
  <2>1. i <= Len(old)
    <3> SUFFICES ASSUME i > Len(old) PROVE FALSE
      BY <1>1, <1>9
    <3>1. Len(x) = 0
      BY <1>7
    <3> QED BY <3>1
  <2> QED BY <1>7, <1>10, <2>1 DEF AllOps
<1> DEFINE docs == Append(x, op)
<1>12. \A k \in 1..Len(docs) : docs[k] = op \/ \E m \in 1..Len(x) : k = m /\ docs[k] = x[m]
  BY <1>8, <1>9
<1>13. then[i].docs = docs /\ docs \in Seq(Operations)
  BY <1>1
<1>14. Injective(docs)
  <2> SUFFICES ASSUME NEW k \in 1..(Len(x) + 1), NEW m \in 1..(Len(x) + 1), k # m PROVE docs[k] # docs[m]
    BY <1>8 DEF Injective
  <2>1. CASE k \in 1..Len(x) /\ m \in 1..Len(x)
    <3>1. i \in 1..Len(old) /\ x = old[i].docs
      BY <1>11, <2>1
    <3>2. Injective(old[i].docs)
      BY <3>1 DEF Sorted
    <3>3. x[k] # x[m]
      BY <2>1, <3>1, <3>2 DEF Injective
    <3> QED BY <1>8, <2>1, <3>3
  <2>2. CASE k \in 1..Len(x) /\ m = Len(x) + 1
    BY <1>6, <1>8, <1>11, <2>2
  <2>3. CASE k = Len(x) + 1 /\ m \in 1..Len(x)
    BY <1>6, <1>8, <1>11, <2>3
  <2> QED BY <1>9, <2>1, <2>2, <2>3
<1>15. Len(docs) = Len(x) + 1
  BY <1>8
<1>30. \A k \in 1..Len(docs) : docs[k] = op \/ (i \in 1..Len(old) /\ \E m \in 1..Len(old[i].docs) : docs[k] = old[i].docs[m])
  BY <1>11, <1>12
<1>31. Len(x) \in Nat /\ docs[Len(x) + 1] = op /\ \A k \in 1..Len(x) : docs[k] = x[k]
  BY <1>8
<1> HIDE DEF docs
<1>16. \A k \in 1..Len(docs) : W!Kind(docs[k].op) = kind
  <2> SUFFICES ASSUME NEW k \in 1..Len(docs) PROVE W!Kind(docs[k].op) = kind
    OBVIOUS
  <2>1. CASE docs[k] = op
    BY <2>1 DEF kind
  <2>2. CASE i \in 1..Len(old) /\ \E m \in 1..Len(old[i].docs) : docs[k] = old[i].docs[m]
    <3>1. old[i].op = kind
      BY <1>1, <2>2
    <3> QED BY <2>2, <3>1 DEF Sorted
  <2> QED BY <1>30, <2>1, <2>2
<1>17. \A a \in 1..Len(then) : a # i => a \in 1..Len(old) /\ then[a] = old[a]
  BY <1>1
<1> DEFINE Half(z) == \A a \in 1..Len(z) :
                        /\ Injective(z[a].docs)
                        /\ \A k \in 1..Len(z[a].docs) : W!Kind(z[a].docs[k].op) = z[a].op
           Apart(z) == \A a, c \in 1..Len(z) : a # c =>
                         \A k \in 1..Len(z[a].docs) : \A m \in 1..Len(z[c].docs) : z[a].docs[k] # z[c].docs[m]
<1>18. Half(old) /\ Apart(old)
  BY DEF Sorted
<1>19. then[i].op = kind
  BY <1>1
<1>20. Half(then)
  <2> SUFFICES ASSUME NEW a \in 1..Len(then)
               PROVE  /\ Injective(then[a].docs)
                      /\ \A k \in 1..Len(then[a].docs) : W!Kind(then[a].docs[k].op) = then[a].op
    OBVIOUS
  <2>1. CASE a = i
    BY <1>13, <1>14, <1>16, <1>19, <2>1
  <2>2. CASE a # i
    <3>1. a \in 1..Len(old) /\ then[a] = old[a]
      BY <1>17, <2>2
    <3>2. /\ Injective(old[a].docs)
          /\ \A k \in 1..Len(old[a].docs) : W!Kind(old[a].docs[k].op) = old[a].op
      BY <1>18, <3>1
    <3> HIDE DEF then, old
    <3> QED BY <3>1, <3>2
  <2> QED BY <2>1, <2>2
<1>21. \A a \in 1..Len(old) : \A k \in 1..Len(old[a].docs) : old[a].docs[k] \in AllOps(bulk)
  <2>1. \A a \in 1..Len(old) : \A k \in 1..Len(old[a].docs) : old[a].docs[k] \in Operations
    <3> SUFFICES ASSUME NEW a \in 1..Len(old), NEW k \in 1..Len(old[a].docs) PROVE old[a].docs[k] \in Operations
      OBVIOUS
    <3>1. old[a].docs \in Seq(Operations)
      BY BulkTyped, DocsFacts
    <3> QED BY <3>1, ElementOfSeq
  <2> QED BY <2>1 DEF AllOps
<1> HIDE DEF then, old
<1>22. ASSUME NEW c \in 1..Len(then), c # i, NEW k \in 1..Len(docs), NEW m \in 1..Len(then[c].docs)
       PROVE  docs[k] # then[c].docs[m]
  <2>1. c \in 1..Len(old) /\ then[c] = old[c] /\ m \in 1..Len(old[c].docs)
    BY <1>17, <1>22
  <2>2. CASE docs[k] = op
    <3>1. old[c].docs[m] \in AllOps(bulk)
      BY <1>21, <2>1
    <3> QED BY <1>6, <2>1, <2>2, <3>1
  <2>3. CASE i \in 1..Len(old) /\ \E j \in 1..Len(old[i].docs) : docs[k] = old[i].docs[j]
    BY <1>18, <1>22, <2>1, <2>3
  <2> QED BY <1>30, <2>2, <2>3
<1>23. Apart(then)
  <2> SUFFICES ASSUME NEW a \in 1..Len(then), NEW c \in 1..Len(then), a # c,
                      NEW k \in 1..Len(then[a].docs), NEW m \in 1..Len(then[c].docs)
               PROVE  then[a].docs[k] # then[c].docs[m]
    OBVIOUS
  <2>1. CASE a = i
    BY <1>13, <1>22, <2>1
  <2>2. CASE c = i
    <3>1. docs[m] # then[a].docs[k]
      BY <1>13, <1>22, <2>2
    <3> QED BY <1>13, <2>2, <3>1
  <2>3. CASE a # i /\ c # i
    <3>1. a \in 1..Len(old) /\ c \in 1..Len(old) /\ then[a] = old[a] /\ then[c] = old[c]
      BY <1>17, <2>3
    <3>2. k \in 1..Len(old[a].docs) /\ m \in 1..Len(old[c].docs)
      BY <3>1
    <3>3. old[a].docs[k] # old[c].docs[m]
      BY <1>18, <3>1, <3>2
    <3> QED BY <3>1, <3>3
  <2> QED BY <2>1, <2>2, <2>3
<1> DEFINE All == {y \in Operations : \E a \in 1..Len(then) : \E k \in 1..Len(then[a].docs) : y = then[a].docs[k]}
<1>32. i \in 1..Len(then) /\ op \in Operations
  BY <1>1
<1>33. ASSUME NEW a \in 1..Len(old) PROVE a \in 1..Len(then) /\ (a # i => then[a] = old[a])
  <2>1. a \in 1..Len(then)
    BY <1>1 DEF then, old
  <2> QED BY <1>17, <2>1
<1>24. All = AllOps(bulk) \cup {op}
  <2>1. ASSUME NEW y \in All PROVE y \in AllOps(bulk) \cup {op}
    <3>1. PICK a \in 1..Len(then) : \E k \in 1..Len(then[a].docs) : y = then[a].docs[k]
      OBVIOUS
    <3>2. CASE a = i
      BY <1>13, <1>21, <1>30, <3>1, <3>2, Zenon
    <3>3. CASE a # i
      BY <1>17, <1>21, <3>1, <3>3
    <3> QED BY <3>2, <3>3
  <2>2. op \in All
    <3>1. Len(x) + 1 \in 1..Len(docs)
      BY <1>15, <1>31
    <3> QED BY <1>13, <1>31, <1>32, <3>1
  <2>3. ASSUME NEW y \in AllOps(bulk) PROVE y \in All
    <3>1. y \in Operations /\ \E a \in 1..Len(old) : \E k \in 1..Len(old[a].docs) : y = old[a].docs[k]
      BY DEF AllOps, old
    <3>5. PICK a \in 1..Len(old) : \E k \in 1..Len(old[a].docs) : y = old[a].docs[k]
      BY <3>1
    <3>2. PICK k \in 1..Len(old[a].docs) : y = old[a].docs[k]
      BY <3>5
    <3>3. CASE a = i
      <4>1. x = old[i].docs
        BY <1>1, <1>7, <3>2, <3>3 DEF x
      <4>2. k \in 1..Len(docs) /\ docs[k] = y
        BY <1>15, <1>31, <3>2, <3>3, <4>1
      <4> QED BY <1>13, <1>32, <3>1, <4>2
    <3>4. CASE a # i
      BY <1>33, <3>1, <3>2, <3>4
    <3> QED BY <3>3, <3>4
  <2> HIDE DEF All
  <2> QED BY <2>1, <2>2, <2>3
<1>25. AllOps(bulk) \cup {op} = {W!Queued[j] : j \in 1..q}
  <2>1. \A j \in 1..q : j = q \/ j \in 1..(q - 1)
    BY <1>3
  <2>2. q \in 1..q /\ \A j \in 1..(q - 1) : j \in 1..q
    BY <1>3
  <2> QED BY <1>4, <1>5, <2>1, <2>2
<1>26. AllOps(bulk)' = All
  BY DEF AllOps, then
<1>27. {W!Queued[j] : j \in 1..(bulk.next - 1)}' = {W!Queued[j] : j \in 1..q}
  <2>1. bulk'.next - 1 = q
    BY <1>1, <1>3
  <2> QED BY <1>2, <2>1
<1>28. Half(then) /\ Apart(then) /\ AllOps(bulk)' = {W!Queued[j] : j \in 1..(bulk.next - 1)}' => Sorted(bulk)'
  BY Zenon DEF Sorted, Injective, W!Kind, then
<1> QED BY <1>20, <1>23, <1>24, <1>25, <1>26, <1>27, <1>28

(* Queueing an operation of an ordered bulk puts it last.                  *)
LEMMA QueueKeepsOrder ==
    ASSUME WriteInv, ~plan.single, BulkInv, W!Queue, plan.ordered
    PROVE  \E r \in [1..(Len(bulk'.actions) + 1) -> 0..(bulk'.next - 1)] : Starts(bulk, r)'
<1> DEFINE op == W!Queued[bulk.next]
           old == bulk.actions
           i == W!action(old, W!Kind(op.op))
           then == bulk'.actions
           x == IF i > Len(old) THEN <<>> ELSE old[i].docs
           q == bulk.next
           n == Len(then)
<1>1. /\ op \in Operations /\ Len(old) \in Nat /\ i \in 1..(Len(old) + 1)
      /\ n = IF i > Len(old) THEN Len(old) + 1 ELSE Len(old)
      /\ \A a \in 1..n : a # i => a \in 1..Len(old) /\ then[a] = old[a]
      /\ x \in Seq(Operations) /\ i >= Len(old) /\ i \in 1..n
      /\ then[i].docs = Append(x, op)
      /\ bulk'.next = q + 1 /\ UNCHANGED plan
  BY QueueShape, Zenon
<1>2. q \in Nat \ {0}
  BY BulkTyped, BulkPlan
<1>3. PICK s \in [1..(Len(old) + 1) -> 0..(q - 1)] : Starts(bulk, s)
  BY DEF BulkInv, OrderInv
<1>4. /\ s[1] = 0 /\ s[Len(old) + 1] = q - 1
      /\ \A a \in 1..Len(old) : /\ s[a + 1] = s[a] + Len(old[a].docs)
                                /\ \A k \in 1..Len(old[a].docs) : old[a].docs[k] = W!Queued[s[a] + k]
  BY <1>3, Zenon DEF Starts
<1>5. op = W!Queued[q] /\ W!Queued' = W!Queued
  BY <1>1, Zenon DEF W!Queued, W!Op
<1>6. (i > Len(old) => x = <<>>) /\ (~(i > Len(old)) => x = old[i].docs)
  OBVIOUS
<1> HIDE DEF op, old, i, then, x, q, n
<1>7. i = n /\ n \in Nat \ {0} /\ (n = Len(old) + 1 \/ n = Len(old)) /\ (n = Len(old) <=> ~(i > Len(old)))
  BY <1>1
<1> PICK r : r = [j \in 1..(n + 1) |-> IF j = n + 1 THEN q ELSE s[j]]
  OBVIOUS
<1>8. \A j \in 1..n : j \in 1..(Len(old) + 1) /\ j \in 1..(n + 1) /\ j # n + 1 /\ s[j] \in 0..(q - 1)
  BY <1>1, <1>3, <1>7
<1>9. r \in [1..(n + 1) -> 0..q]
  <2>1. \A j \in 1..(n + 1) : j = n + 1 \/ j \in 1..n
    BY <1>7
  <2>2. \A j \in 1..n : s[j] \in 0..q
    BY <1>2, <1>8
  <2>3. q \in 0..q
    BY <1>2
  <2> QED BY <2>1, <2>2, <2>3
<1>10. r[n + 1] = q /\ \A j \in 1..n : r[j] = s[j]
  <2>1. n + 1 \in 1..(n + 1)
    BY <1>7
  <2> QED BY <1>8, <2>1
<1>11. r[1] = 0
  <2>1. 1 \in 1..n
    BY <1>7
  <2> QED BY <1>4, <1>10, <2>1
<1>12. Len(Append(x, op)) = Len(x) + 1 /\ Len(x) \in Nat
       /\ Append(x, op)[Len(x) + 1] = op /\ \A k \in 1..Len(x) : Append(x, op)[k] = x[k]
  BY <1>1, AppendOne
<1>13. s[n] + Len(x) = q - 1 /\ s[n] \in Nat
  <2>1. s[n] \in Nat
    <3>1. n \in 1..n
      BY <1>7
    <3>2. s[n] \in 0..(q - 1)
      BY <1>8, <3>1
    <3> QED BY <3>2
  <2>2. CASE n = Len(old) + 1
    <3>1. x = <<>> /\ s[n] = q - 1
      BY <1>1, <1>4, <1>6, <1>7, <2>2
    <3>2. Len(x) = 0
      BY <3>1
    <3> QED BY <1>2, <2>1, <3>1, <3>2
  <2>3. CASE n = Len(old)
    <3>1. x = old[n].docs /\ n \in 1..Len(old) /\ s[n + 1] = q - 1
      BY <1>4, <1>6, <1>7, <2>3
    <3>2. s[n + 1] = s[n] + Len(old[n].docs)
      BY <1>4, <3>1
    <3> QED BY <2>1, <3>1, <3>2
  <2> QED BY <1>7, <2>2, <2>3
<1>14. ASSUME NEW a \in 1..n
       PROVE  /\ r[a + 1] = r[a] + Len(then[a].docs)
              /\ \A k \in 1..Len(then[a].docs) : then[a].docs[k] = W!Queued[r[a] + k]
  <2>1. CASE a = n
    <3> DEFINE docs == Append(x, op)
    <3>1. then[n].docs = docs /\ r[n] = s[n] /\ r[n + 1] = q
      BY <1>1, <1>7, <1>10, <2>1
    <3>2. Len(docs) = Len(x) + 1 /\ docs[Len(x) + 1] = op /\ \A k \in 1..Len(x) : docs[k] = x[k]
      BY <1>12
    <3> HIDE DEF docs
    <3>3. q = s[n] + Len(docs)
      BY <1>2, <1>12, <1>13, <3>2
    <3>4. ASSUME NEW k \in 1..Len(docs) PROVE docs[k] = W!Queued[s[n] + k]
      <4>1. CASE k = Len(x) + 1
        <5>1. s[n] + k = q
          BY <1>2, <1>12, <1>13, <4>1
        <5> QED BY <1>5, <3>2, <4>1, <5>1
      <4>2. CASE k \in 1..Len(x)
        <5>1. n = Len(old)
          <6> SUFFICES ASSUME n # Len(old) PROVE FALSE
            OBVIOUS
          <6>1. x = <<>>
            BY <1>6, <1>7
          <6>2. Len(x) = 0
            BY <6>1
          <6> QED BY <4>2, <6>2
        <5>2. x = old[n].docs /\ n \in 1..Len(old)
          BY <1>6, <1>7, <5>1
        <5>3. old[n].docs[k] = W!Queued[s[n] + k]
          BY <1>4, <4>2, <5>2
        <5> QED BY <3>2, <4>2, <5>2, <5>3
      <4> QED BY <1>12, <3>2, <4>1, <4>2
    <3> QED BY <2>1, <3>1, <3>3, <3>4
  <2>2. CASE a # n
    <3>1. a \in 1..Len(old) /\ then[a] = old[a] /\ a + 1 \in 1..n
      BY <1>1, <1>7, <2>2
    <3>2. r[a] = s[a] /\ r[a + 1] = s[a + 1]
      BY <1>10, <3>1
    <3>3. /\ s[a + 1] = s[a] + Len(old[a].docs)
          /\ \A k \in 1..Len(old[a].docs) : old[a].docs[k] = W!Queued[s[a] + k]
      BY <1>4, <3>1
    <3> QED BY <3>1, <3>2, <3>3
  <2> QED BY <2>1, <2>2
<1>15. bulk'.next - 1 = q
  BY <1>1, <1>2
<1>16. Starts(bulk, r)'
  <2>1. r[n + 1] = bulk'.next - 1 /\ r \in [1..(n + 1) -> 0..(bulk'.next - 1)]
    BY <1>9, <1>10, <1>15
  <2>2. \A a \in 1..Len(bulk'.actions) :
          /\ r[a + 1] = r[a] + Len(bulk'.actions[a].docs)
          /\ \A k \in 1..Len(bulk'.actions[a].docs) : bulk'.actions[a].docs[k] = W!Queued'[r[a] + k]
    BY <1>5, <1>14 DEF n, then
  <2>3. r[Len(bulk'.actions) + 1] = bulk'.next - 1 /\ r \in [1..(Len(bulk'.actions) + 1) -> 0..(bulk'.next - 1)]
    BY <2>1 DEF n, then
  <2> QED BY <1>11, <2>2, <2>3, Zenon DEF Starts
<1>17. r \in [1..(Len(bulk'.actions) + 1) -> 0..(bulk'.next - 1)]
  BY <1>9, <1>15 DEF n, then
<1> QED BY <1>16, <1>17, Zenon

(* Queueing an operation keeps the invariant of a bulk.                    *)
LEMMA QueueKeepsBulk ==
    ASSUME WriteInv, ~plan.single, BulkInv, W!Queue
    PROVE  BulkInv'
<1>1. /\ writer = "queue" /\ UNCHANGED <<plan, writer, applied, wfaults>>
      /\ bulk'.next = bulk.next + 1 /\ bulk'.at = bulk.at /\ bulk'.from = bulk.from /\ bulk'.acc = bulk.acc
      /\ bulk'.errs = bulk.errs /\ bulk'.failed = bulk.failed
  BY QueueShape, Zenon
<1>2. Sorted(bulk)'
  BY QueueKeepsSorted DEF BulkInv
<1>3. /\ applied = <<>> /\ bulk.at = 1 /\ bulk.from = 0 /\ bulk.acc = <<>> /\ bulk.errs = <<>> /\ ~bulk.failed
      /\ wfaults = plan.faults /\ wfaults <= plan.faults
  BY <1>1 DEF BulkInv, PlaceInv
<1>4. PlaceInv'
  BY <1>1, <1>3 DEF PlaceInv
<1>5. WritesTyped(bulk')
  <2>1. WriteInv'
    BY QueueKeeps
  <2> QED BY <2>1 DEF WriteInv, WritesTyped
<1>6. SentOps(bulk') = {}
  BY <1>1, <1>3, <1>5, SentEnds
<1>7. SentOps(bulk)' = SentOps(bulk')
  BY DEF SentOps
<1>8. DoneInv'
  <2>1. applied' = <<>> /\ bulk'.acc = <<>> /\ bulk'.errs = <<>>
    BY <1>1, <1>3
  <2>2. ToSet(applied)' = {} /\ ToSet(bulk.errs)' = {} /\ ToSet(bulk.acc)' = {}
    BY <2>1 DEF ToSet
  <2>3. Injective(applied)'
    BY <2>1 DEF Injective
  <2>4. <<>> \in Seq(Operations) /\ <<>> \in Seq(Reports)
    OBVIOUS
  <2> QED BY <1>6, <1>7, <2>1, <2>2, <2>3, <2>4 DEF DoneInv
<1>9. OrderInv'
  <2> SUFFICES ASSUME plan.ordered PROVE OrderInv'
    BY <1>1 DEF OrderInv
  <2>1. PICK r \in [1..(Len(bulk'.actions) + 1) -> 0..(bulk'.next - 1)] : Starts(bulk, r)'
    BY QueueKeepsOrder
  <2>2. Begins(applied, W!Queued)'
    <3>1. applied' = <<>> /\ W!Queued' = W!Queued /\ Len(W!Queued) \in Nat
      BY <1>1, <1>3, BulkPlan DEF W!Queued, W!Op
    <3> QED BY <3>1 DEF Begins
  <2> QED BY <1>1, <2>1, <2>2 DEF OrderInv
<1> QED BY <1>2, <1>4, <1>8, <1>9, Zenon DEF BulkInv

(* Every step of the writes keeps the invariant of a bulk.                 *)
LEMMA BulkKeeps ==
    ASSUME WriteInv, BulkInv, W!Next
    PROVE  BulkInv'
<1>1. UNCHANGED plan
  BY Zenon DEF W!Next, W!Queue, W!Run, W!Acquire, W!AcquireFails, W!writeOpCommand, W!writeOpQuery, W!Single
<1>2. CASE plan.single
  BY <1>1, <1>2 DEF BulkInv
<1>3. CASE ~plan.single
  <2>1. ~W!Single
    BY <1>3 DEF W!Single
  <2> QED BY <1>3, <2>1, QueueKeepsBulk, RunKeeps, AcquireKeeps, AcquireFailsKeeps, writeOpCommandKeeps,
             writeOpQueryKeeps DEF W!Next
<1> QED BY <1>2, <1>3

(* An empty bulk.                                                          *)
LEMMA BulkBegins == Init => BulkInv
<1> SUFFICES ASSUME Init PROVE BulkInv
  OBVIOUS
<1>1. bulk = W!NewBulk /\ writer = "queue" /\ applied = <<>> /\ wfaults = plan.faults /\ WriteInv
  BY InitHolds DEF Init, W!Init, IInv
<1>2. /\ bulk.actions = <<>> /\ bulk.next = 1 /\ bulk.at = 1 /\ bulk.from = 0 /\ bulk.acc = <<>> /\ bulk.errs = <<>>
      /\ bulk.failed = FALSE
  BY <1>1 DEF W!NewBulk
<1>3. Len(bulk.actions) = 0 /\ plan.faults \in Nat /\ WritesTyped(bulk) /\ Len(W!Queued) \in Nat
  BY <1>1, <1>2, BulkTyped, BulkPlan
<1>4. Sorted(bulk)
  <2>1. AllOps(bulk) = {}
    BY <1>3 DEF AllOps
  <2>2. {W!Queued[i] : i \in 1..(bulk.next - 1)} = {}
    BY <1>2
  <2>3. 1..Len(bulk.actions) = {}
    BY <1>3
  <2>4. AllOps(bulk) = {W!Queued[i] : i \in 1..(bulk.next - 1)}
    BY <2>1, <2>2
  <2> QED BY <2>3, <2>4, Zenon DEF Sorted
<1>5. PlaceInv
  BY <1>1, <1>2, <1>3 DEF PlaceInv
<1>6. DoneInv
  <2>1. SentOps(bulk) = {}
    BY <1>2, <1>3, SentEnds
  <2>2. ToSet(<<>>) = {}
    BY DEF ToSet
  <2>3. Injective(<<>>)
    BY DEF Injective
  <2>4. <<>> \in Seq(Operations) /\ <<>> \in Seq(Reports)
    OBVIOUS
  <2> QED BY <1>1, <1>2, <2>1, <2>2, <2>3, <2>4 DEF DoneInv
<1>7. OrderInv
  <2> DEFINE s == [j \in 1..1 |-> 0]
  <2>1. s \in [1..(Len(bulk.actions) + 1) -> 0..(bulk.next - 1)] /\ s[1] = 0
    BY <1>2, <1>3
  <2> HIDE DEF s
  <2>2. Starts(bulk, s)
    BY <1>2, <1>3, <2>1 DEF Starts
  <2>3. Begins(applied, W!Queued)
    BY <1>1, <1>3 DEF Begins
  <2> QED BY <1>1, <2>1, <2>2, <2>3 DEF OrderInv
<1> QED BY <1>4, <1>5, <1>6, <1>7 DEF BulkInv

(* What the invariant says once Run has returned, or at any time.          *)
LEMMA BulkTellsTheTruth ==
    ASSUME WriteInv, BulkInv
    PROVE  W!OrderedIsPrefix /\ W!SuccessMeansApplied /\ W!AllErrorsAreReported
<1>1. \A s : W!ToSet(s) = ToSet(s)
  BY DEF W!ToSet, ToSet
<1> DEFINE Q == W!Queued
<1>2. Q \in Seq(Operations) /\ Len(Q) \in Nat /\ WritesTyped(bulk) /\ bulk.next \in 1..(Len(Q) + 1)
  BY BulkPlan, BulkTyped
<1>3. ToSet(Q) = {Q[i] : i \in 1..Len(Q)}
  BY <1>2 DEF ToSet
<1> HIDE DEF Q
<1>4. W!OrderedIsPrefix
  <2> SUFFICES ASSUME ~plan.single
               PROVE  /\ plan.ordered /\ W!Telling => W!IsPrefix(applied, Q)
                      /\ \A i, j \in DOMAIN applied : i # j => applied[i] # applied[j]
                      /\ ToSet(applied) \subseteq ToSet(Q)
    BY <1>1 DEF W!OrderedIsPrefix, Q
  <2>1. DoneInv /\ OrderInv /\ AllOps(bulk) = {Q[i] : i \in 1..(bulk.next - 1)}
    BY DEF BulkInv, Sorted, Q
  <2>2. plan.ordered /\ W!Telling => W!IsPrefix(applied, Q)
    <3> SUFFICES ASSUME plan.ordered, W!Telling PROVE W!IsPrefix(applied, Q)
      OBVIOUS
    <3>1. Begins(applied, Q) /\ applied \in Seq(Operations)
      BY <2>1 DEF OrderInv, DoneInv, Q
    <3>2. Len(applied) <= Len(Q) /\ Len(applied) \in Nat /\ \A i \in 1..Len(applied) : applied[i] = Q[i]
      BY <3>1 DEF Begins
    <3>3. SubSeq(applied, 1, Len(applied)) = SubSeq(Q, 1, Len(applied))
      BY <1>2, <3>1, <3>2
    <3> QED BY <3>2, <3>3 DEF W!IsPrefix
  <2>3. \A i, j \in DOMAIN applied : i # j => applied[i] # applied[j]
    BY <2>1 DEF DoneInv, Injective
  <2>4. ToSet(applied) \subseteq ToSet(Q)
    <3>1. \A i \in 1..(bulk.next - 1) : i \in 1..Len(Q)
      BY <1>2
    <3> QED BY <1>3, <2>1, <3>1 DEF DoneInv
  <2> QED BY <2>2, <2>3, <2>4
<1>5. ASSUME writer = "done", ~plan.single, ~plan.ordered \/ ~bulk.failed
      PROVE  SentOps(bulk) = ToSet(Q) /\ bulk.acc = <<>> /\ DoneInv
  <2>1. bulk.at = Len(bulk.actions) + 1 /\ bulk.next = Len(Q) + 1 /\ bulk.acc = <<>> /\ DoneInv /\ Sorted(bulk)
    BY <1>5 DEF BulkInv, PlaceInv, Q
  <2>2. SentOps(bulk) = AllOps(bulk)
    BY <1>2, <2>1, SentEnds
  <2>3. bulk.next - 1 = Len(Q)
    BY <1>2, <2>1
  <2>4. AllOps(bulk) = {Q[i] : i \in 1..(bulk.next - 1)}
    BY <2>1 DEF Sorted, Q
  <2> QED BY <1>3, <2>1, <2>2, <2>3, <2>4
<1>6. W!SuccessMeansApplied
  <2> SUFFICES ASSUME writer = "done", ~plan.single, ~bulk.failed, W!Telling, ~W!BatchLost
               PROVE  ToSet(applied) = ToSet(Q)
    BY <1>1 DEF W!SuccessMeansApplied, W!Report, Q
  <2>1. SentOps(bulk) = ToSet(Q) /\ bulk.acc = <<>> /\ DoneInv
    BY <1>5
  <2> QED BY <2>1 DEF DoneInv
<1>7. W!AllErrorsAreReported
  <2> SUFFICES ASSUME writer = "done", ~plan.single, ~plan.ordered, plan.command, plan.safe, wfaults = plan.faults
               PROVE  ToSet(bulk.errs) = ToSet(Q) \ ToSet(applied)
    BY <1>1 DEF W!AllErrorsAreReported, W!Report, Q
  <2>1. SentOps(bulk) = ToSet(Q) /\ bulk.acc = <<>> /\ DoneInv
    BY <1>5
  <2>2. ToSet(bulk.errs) \cup ToSet(bulk.acc) = SentOps(bulk) \ ToSet(applied)
    BY <2>1 DEF DoneInv
  <2>3. ToSet(bulk.acc) = {}
    BY <2>1 DEF ToSet
  <2> QED BY <2>1, <2>2, <2>3
<1> QED BY <1>4, <1>6, <1>7

(* The reader leaves the writes alone.                                     *)
LEMMA SameWrites ==
    ASSUME UNCHANGED writing, BulkInv
    PROVE  BulkInv'
<1>0. UNCHANGED <<plan, collection, bulk, writer, applied, told, wfaults>>
  BY DEF writing
<1>1. /\ W!Queued' = W!Queued /\ W!Telling' = W!Telling /\ (Sorted(bulk) => Sorted(bulk)') /\ AllOps(bulk)' = AllOps(bulk)
      /\ \A s : Starts(bulk, s) => Starts(bulk, s)'
  BY <1>0, SameQueue
<1>2. PlaceInv => PlaceInv'
  <2>1. W!Current' = W!Current /\ W!Splits' = W!Splits /\ W!OneByOne' = W!OneByOne
    BY <1>0 DEF W!Current, W!Splits, W!Large, W!OneByOne
  <2> QED BY <1>0, <1>1, <2>1 DEF PlaceInv
<1>3. DoneInv => DoneInv'
  <2>1. W!BatchLost' = W!BatchLost
    BY <1>0 DEF W!BatchLost, W!Large
  <2>2. SentOps(bulk)' = SentOps(bulk)
    BY <1>0 DEF SentOps
  <2>3. ToSet(applied)' = ToSet(applied) /\ ToSet(bulk.errs)' = ToSet(bulk.errs) /\ ToSet(bulk.acc)' = ToSet(bulk.acc)
    BY <1>0 DEF ToSet
  <2>4. Injective(applied)' <=> Injective(applied)
    BY <1>0 DEF Injective
  <2> QED BY <1>0, <1>1, <2>1, <2>2, <2>3, <2>4 DEF DoneInv
<1>4. OrderInv => OrderInv'
  <2>1. Begins(applied, W!Queued)' <=> Begins(applied, W!Queued)
    BY <1>0, <1>1 DEF Begins
  <2> QED BY <1>0, <1>1, <2>1 DEF OrderInv
<1> QED BY <1>0, <1>1, <1>2, <1>3, <1>4 DEF BulkInv

-----------------------------------------------------------------------------
(* What single operations were told.                                       *)

(* The server carries out a single operation.                              *)
LEMMA CarriedOne ==
    ASSUME Contents(collection), NEW op \in Operations, NEW goOn \in BOOLEAN
    PROVE  W!Carried(<<op>>, goOn) =
             W!Carry([docs |-> collection, done |-> <<>>, errors |-> <<>>, n |-> 0, upserted |-> FALSE,
                      stop |-> FALSE, goOn |-> goOn], op)
<1> DEFINE ops == <<op>>
           b == [docs |-> collection, done |-> <<>>, errors |-> <<>>, n |-> 0, upserted |-> FALSE,
                 stop |-> FALSE, goOn |-> goOn]
<1>1. ops \in Seq(Operations) /\ Len(ops) = 1 /\ ops[1] = op
  OBVIOUS
<1> HIDE DEF ops
<1>2. PICK g \in [0..Len(ops) -> Carryings] :
        W!Carried(ops, goOn) = g[Len(ops)] /\ g[0] = b /\ \A i \in 1..Len(ops) : g[i] = W!Carry(g[i - 1], ops[i])
  BY <1>1, CarriedSteps, Zenon
<1> HIDE DEF b
<1>3. g[1] = W!Carry(g[1 - 1], ops[1]) /\ 1 - 1 = 0
  BY <1>1, <1>2
<1> QED BY <1>1, <1>2, <1>3 DEF ops, b

(* What is made of an outcome is true.                                     *)
LEMMA MadeIsTrue ==
    ASSUME Contents(collection), wfaults \in Nat, plan.safe \in BOOLEAN, plan.command \in BOOLEAN,
           NEW op \in Operations, NEW o \in W!Outcomes(<<op>>, FALSE)
    PROVE  LET t == [result |-> W!Made(op, o), before |-> collection, after |-> o.r.docs] IN
           t \in Tellings /\ (plan.safe => IsTrue(t))
<1> DEFINE d == op.doc
           there == d \in collection
           bad == op \in plan.rejected \/ (op.op = "insert" /\ there)
           n == IF op.op # "insert" /\ (there \/ op.op = "upsert") THEN 1 ELSE 0
           up == op.op = "upsert" /\ ~there
           after == IF W!Kind(op.op) = "remove" THEN collection \ {d}
                    ELSE IF op.op \in {"insert", "upsert"} THEN collection \cup {d} ELSE collection
           r == W!Carried(<<op>>, FALSE)
           b == [docs |-> collection, done |-> <<>>, errors |-> <<>>, n |-> 0, upserted |-> FALSE,
                 stop |-> FALSE, goOn |-> FALSE]
           none == [r EXCEPT !.docs = collection, !.done = <<>>, !.errors = <<>>, !.n = 0]
           lost == [r EXCEPT !.errors = <<>>, !.n = 0]
           t == [result |-> W!Made(op, o), before |-> collection, after |-> o.r.docs]
<1>1. op.op \in Ops /\ d \in Documents
  BY DEF Operations
<1>2. r \in Carryings
  <2>1. <<op>> \in Seq(Operations) /\ FALSE \in BOOLEAN
    OBVIOUS
  <2> QED BY <2>1, CarriedFacts
<1>3. r = W!Carry(b, op)
  BY CarriedOne
<1>4. r = IF bad THEN [b EXCEPT !.errors = Append(b.errors, op), !.stop = ~b.goOn]
          ELSE [b EXCEPT !.docs = IF W!Kind(op.op) = "remove" THEN b.docs \ {d}
                                  ELSE IF op.op \in {"insert", "upsert"} THEN b.docs \cup {d} ELSE b.docs,
                         !.done = Append(b.done, op),
                         !.n = b.n + n,
                         !.upserted = b.upserted \/ up]
  BY <1>3 DEF W!Carry
<1>5. /\ bad => r.errors # <<>> /\ r.docs = collection
      /\ ~bad => r.errors = <<>> /\ r.docs = after /\ r.n = n /\ r.upserted = up
  <2>1. b.docs = collection /\ b.errors = <<>> /\ b.n = 0 /\ b.upserted = FALSE
    OBVIOUS
  <2>2. Append(<<>>, op) # <<>> /\ 0 + n = n /\ (FALSE \/ up) = up
    OBVIOUS
  <2>3. bad => r = [b EXCEPT !.errors = Append(b.errors, op), !.stop = ~b.goOn]
    BY <1>4
  <2>4. ~bad => r = [b EXCEPT !.docs = after, !.done = Append(b.done, op), !.n = n, !.upserted = up]
    BY <1>4, <2>1, <2>2
  <2> HIDE DEF bad, r, after, n, up
  <2> QED BY <2>1, <2>2, <2>3, <2>4
<1>6. \/ o = [r |-> r, err |-> IF r.errors # <<>> /\ plan.safe THEN "write" ELSE "nil", fault |-> FALSE]
      \/ o = [r |-> none, err |-> "net", fault |-> TRUE]
      \/ o = [r |-> lost, err |-> "net", fault |-> TRUE]
      \/ o = [r |-> r, err |-> "concern", fault |-> TRUE]
  BY DEF W!Outcomes
<1> HIDE DEF r, b
<1>7. /\ r.docs \in SUBSET Documents /\ r.n \in Nat /\ r.upserted \in BOOLEAN
      /\ none.docs = collection /\ none.n = 0 /\ lost.docs = r.docs /\ lost.n = 0
  BY <1>2 DEF Carryings
<1> HIDE DEF none, lost
<1>8. /\ o.r.docs \in SUBSET Documents /\ o.r.n \in Nat /\ o.err \in {"nil", "write", "net", "concern"}
      /\ o.err = "nil" /\ plan.safe => o.r = r /\ r.errors = <<>>
  BY <1>6, <1>7 DEF Contents
<1> DEFINE m == W!Made(op, o)
           known == o.err = "nil" /\ plan.safe
           existing == o.r.n > 0 /\ ~o.r.upserted
<1>9. /\ m.op = op
      /\ m.err = IF known /\ ((op.op = "update" /\ ~existing) \/ (op.op = "remove" /\ o.r.n = 0)) THEN "notFound" ELSE o.err
      /\ m.upserted = (known /\ op.op = "upsert" /\ ~existing)
      /\ m \in [op : Operations, err : {"nil", "write", "net", "concern", "notFound"}, changed : Nat, upserted : BOOLEAN]
  <2>1. known \in BOOLEAN
    OBVIOUS
  <2> HIDE DEF known
  <2> QED BY <1>8, <2>1 DEF W!Made, known
<1>10. t.result = m /\ t.before = collection /\ t.after = o.r.docs
  OBVIOUS
<1>11. t \in Tellings
  <2> HIDE DEF m
  <2> QED BY <1>8, <1>9 DEF Tellings, m, Contents
<1> HIDE DEF t, m
<1>12. plan.safe => IsTrue(t)
  <2> SUFFICES ASSUME plan.safe PROVE IsTrue(t)
    OBVIOUS
  <2>1. CASE o.err # "nil"
    <3>1. m.err # "notFound" /\ m.err # "nil"
      BY <1>8, <1>9, <2>1
    <3> QED BY <1>10, <3>1 DEF IsTrue
  <2>2. CASE o.err = "nil"
    <3>1. o.r.docs = after /\ o.r.n = n /\ o.r.upserted = up
      BY <1>5, <1>8, <2>2
    <3>2. existing <=> there /\ op.op # "insert"
      <4>1. n > 0 <=> op.op # "insert" /\ (there \/ op.op = "upsert")
        OBVIOUS
      <4>2. existing <=> n > 0 /\ ~up
        <5> HIDE DEF n, up
        <5> QED BY <3>1
      <4> HIDE DEF n, existing
      <4> QED BY <4>1, <4>2, Zenon
    <3>3. known
      BY <2>2
    <3>4. m.err = (IF (op.op = "update" /\ ~there) \/ (op.op = "remove" /\ ~there) THEN "notFound" ELSE "nil")
      BY <1>9, <2>2, <3>1, <3>2, <3>3
    <3>5. op.op = "upsert" => m.upserted = ~there
      BY <1>9, <3>2, <3>3
    <3>6. /\ op.op \in {"remove", "removeAll"} => after = collection \ {d}
          /\ op.op \in {"insert", "upsert"} => after = collection \cup {d}
          /\ op.op = "update" => after = collection
      BY DEF W!Kind
    <3> HIDE DEF after, n, up
    <3>7. m.err = "notFound" => d \notin collection /\ o.r.docs = collection
      BY <3>1, <3>4, <3>6
    <3>8. m.err = "nil" => /\ op.op \in {"update", "remove"} => d \in collection
                           /\ op.op \in {"remove", "removeAll"} => d \notin o.r.docs
                           /\ op.op \in {"insert", "upsert"} => d \in o.r.docs
                           /\ op.op = "upsert" => (m.upserted <=> d \notin collection)
      BY <3>1, <3>4, <3>5, <3>6
    <3> QED BY <1>9, <1>10, <3>7, <3>8 DEF IsTrue
  <2> QED BY <2>1, <2>2
<1> QED BY <1>11, <1>12 DEF t

(* Every step of the writes keeps what was told true.                      *)
LEMMA TellKeeps ==
    ASSUME WriteInv, TellInv, W!Next
    PROVE  TellInv'
<1>1. CASE W!Single
  <2> DEFINE op == W!Queued[bulk.next]
  <2>1. op \in Operations /\ wfaults \in Nat /\ Contents(collection) /\ plan.safe \in BOOLEAN /\ plan.command \in BOOLEAN
    <3>1. bulk.next \in 1..Len(plan.calls)
      BY <1>1, BulkTyped, BulkPlan DEF W!Single
    <3> QED BY <3>1, PlanFacts, BulkPlan DEF WriteInv
  <2>2. PICK o \in W!Outcomes(<<op>>, FALSE) :
          /\ W!Exchange(o)
          /\ told' = Append(told, [result |-> W!Made(op, o), before |-> collection, after |-> collection'])
    BY <1>1 DEF W!Single
  <2> DEFINE t == [result |-> W!Made(op, o), before |-> collection, after |-> o.r.docs]
  <2>3. told' = Append(told, t) /\ UNCHANGED plan
    BY <1>1, <2>2 DEF W!Exchange, W!Single
  <2> HIDE DEF op
  <2>4. t \in Tellings /\ (plan.safe => IsTrue(t))
    BY <2>1, MadeIsTrue
  <2> HIDE DEF t
  <2>5. told \in Seq(Tellings)
    BY DEF TellInv
  <2>6. /\ told' \in Seq(Tellings) /\ Len(told') = Len(told) + 1 /\ Len(told) \in Nat
        /\ told'[Len(told) + 1] = t /\ \A j \in 1..Len(told) : told'[j] = told[j]
    BY <2>3, <2>4, <2>5, AppendOne
  <2>7. \A j \in 1..(Len(told) + 1) : j = Len(told) + 1 \/ j \in 1..Len(told)
    BY <2>6
  <2>8. plan.safe => \A j \in 1..Len(told') : IsTrue(told'[j])
    BY <2>4, <2>6, <2>7 DEF TellInv
  <2>9. (\A j \in 1..Len(told) : IsTrue(told[j]))' <=> \A j \in 1..Len(told') : IsTrue(told'[j])
    BY DEF IsTrue
  <2> QED BY <2>3, <2>6, <2>8, <2>9 DEF TellInv
<1>2. CASE ~W!Single
  <2>1. UNCHANGED <<plan, told>>
    BY <1>2, Zenon DEF W!Next, W!Queue, W!Run, W!Acquire, W!AcquireFails, W!writeOpCommand, W!writeOpQuery
  <2> QED BY <2>1 DEF TellInv, IsTrue
<1> QED BY <1>1, <1>2

-----------------------------------------------------------------------------
(* A bulk and a single write tell the truth about what they did, for every *)
(* plan: bulk.go and the writing half of session.go.                       *)
THEOREM WritesTruthful == Spec => []WritesTellTheTruth
<1> DEFINE Inv == IInv /\ BulkInv /\ TellInv
<1>1. Init => Inv
  <2>1. Init => TellInv
    <3> SUFFICES ASSUME Init PROVE TellInv
      OBVIOUS
    <3>1. told = <<>>
      BY DEF Init, W!Init
    <3> QED BY <3>1 DEF TellInv
  <2> QED BY <2>1, InitHolds, BulkBegins
<1>2. Inv /\ [Next]_vars => Inv'
  <2> SUFFICES ASSUME Inv, [Next]_vars PROVE BulkInv' /\ TellInv'
    BY StepKeeps
  <2>1. WriteInv /\ BulkInv /\ TellInv
    BY DEF IInv
  <2>2. CASE W!Next
    BY <2>1, <2>2, BulkKeeps, TellKeeps
  <2>3. CASE UNCHANGED writing
    <3>1. TellInv'
      BY <2>1, <2>3 DEF TellInv, IsTrue, writing
    <3> QED BY <2>1, <2>3, <3>1, SameWrites
  <2> QED BY <2>2, <2>3, Zenon DEF Next, Step, StartReading, Done, vars
<1>3. Inv => WritesTellTheTruth
  <2> SUFFICES ASSUME IInv, BulkInv, TellInv PROVE WritesTellTheTruth
    OBVIOUS
  <2>1. W!OrderedIsPrefix /\ W!SuccessMeansApplied /\ W!AllErrorsAreReported
    BY BulkTellsTheTruth DEF IInv
  <2>2. W!SinglesTellTheTruth
    <3>1. DOMAIN told = 1..Len(told)
      BY DEF TellInv
    <3> QED BY <3>1 DEF W!SinglesTellTheTruth, TellInv, IsTrue
  <2> QED BY <2>1, <2>2 DEF WritesTellTheTruth
<1> QED BY <1>1, <1>2, <1>3, PTL DEF Spec

-----------------------------------------------------------------------------
(* What was written is read.                                               *)

(* One more operation was carried out.                                     *)
LEMMA KeptMore ==
    ASSUME NEW s \in Seq(Operations), NEW D, NEW op \in Operations, Kept(s, D)
    PROVE  Kept(Append(s, op), IF W!Kind(op.op) = "remove" THEN D \ {op.doc}
                               ELSE IF op.op \in {"insert", "upsert"} THEN D \cup {op.doc} ELSE D)
<1> DEFINE t == Append(s, op)
           m == Len(s)
           E == IF W!Kind(op.op) = "remove" THEN D \ {op.doc}
                ELSE IF op.op \in {"insert", "upsert"} THEN D \cup {op.doc} ELSE D
<1>1. /\ t \in Seq(Operations) /\ Len(t) = m + 1 /\ m \in Nat /\ t[m + 1] = op /\ \A j \in 1..m : t[j] = s[j]
  BY AppendOne
<1>2. op.op = "insert" => W!Kind(op.op) = "insert"
  BY DEF W!Kind
<1>3. \A d \in D : d \in E \/ Removed(op, d)
  BY DEF Removed
<1>4. op.op = "insert" => op.doc \in E
  BY <1>2
<1> HIDE DEF t, m, E
<1>5. SUFFICES ASSUME NEW i \in 1..Len(t), t[i].op = "insert", t[i].doc \notin E
               PROVE  \E j \in 1..Len(t) : i < j /\ Removed(t[j], t[i].doc)
  BY DEF Kept, t, E
<1>6. i \in 1..m
  BY <1>1, <1>4, <1>5
<1>7. s[i] = t[i] /\ m + 1 \in 1..Len(t) /\ i < m + 1 /\ \A j \in 1..m : j \in 1..Len(t)
  BY <1>1, <1>6
<1>8. CASE s[i].doc \in D
  <2>1. Removed(op, t[i].doc)
    BY <1>3, <1>5, <1>7, <1>8
  <2> QED BY <1>1, <1>7, <2>1
<1>9. CASE s[i].doc \notin D
  <2>1. PICK j \in 1..m : i < j /\ Removed(s[j], s[i].doc)
    BY <1>5, <1>6, <1>7, <1>9 DEF Kept, m
  <2> QED BY <1>1, <1>7, <2>1
<1> QED BY <1>8, <1>9

(* And after the operations of a message.                                  *)
LEMMA CarryKept ==
    ASSUME NEW s \in Seq(Operations), NEW r \in Carryings, NEW op \in Operations, Kept(s \o r.done, r.docs)
    PROVE  Kept(s \o W!Carry(r, op).done, W!Carry(r, op).docs)
<1> DEFINE there == op.doc \in r.docs
           n == IF op.op # "insert" /\ (there \/ op.op = "upsert") THEN 1 ELSE 0
           docs == IF W!Kind(op.op) = "remove" THEN r.docs \ {op.doc}
                   ELSE IF op.op \in {"insert", "upsert"} THEN r.docs \cup {op.doc} ELSE r.docs
           bad == op \in plan.rejected \/ (op.op = "insert" /\ there)
           up == r.upserted \/ (op.op = "upsert" /\ ~there)
           e == [r EXCEPT !.errors = Append(r.errors, op), !.stop = ~r.goOn]
           d == [r EXCEPT !.docs = docs, !.done = Append(r.done, op), !.n = r.n + n, !.upserted = up]
<1>1. /\ r \in [docs : SUBSET Documents, done : Seq(Operations), errors : Seq(Operations), n : Nat,
                upserted : BOOLEAN, stop : BOOLEAN, goOn : BOOLEAN]
  BY DEF Carryings
<1>2. W!Carry(r, op) = r \/ W!Carry(r, op) = e \/ W!Carry(r, op) = d
  BY DEF W!Carry
<1>3. /\ e.done = r.done /\ e.docs = r.docs /\ d.done = Append(r.done, op) /\ d.docs = docs
      /\ r.done \in Seq(Operations)
  BY <1>1
<1>4. s \o r.done \in Seq(Operations) /\ s \o Append(r.done, op) = Append(s \o r.done, op)
  BY <1>3, ConcatAppend
<1>5. Kept(Append(s \o r.done, op), docs)
  <2> DEFINE t == s \o r.done
  <2>1. t \in Seq(Operations) /\ Kept(t, r.docs)
    BY <1>4
  <2> HIDE DEF t
  <2>2. Kept(Append(t, op), docs)
    BY <2>1, KeptMore
  <2> QED BY <2>2 DEF t
<1> HIDE DEF docs, e, d
<1> QED BY <1>2, <1>3, <1>4, <1>5

(* All of a message.                                                       *)
LEMMA CarriedKept ==
    ASSUME Contents(collection), NEW s \in Seq(Operations), Kept(s, collection),
           NEW ops \in Seq(Operations), NEW goOn \in BOOLEAN
    PROVE  /\ W!Carried(ops, goOn).done \in Seq(Operations)
           /\ Kept(s \o W!Carried(ops, goOn).done, W!Carried(ops, goOn).docs)
<1> DEFINE n == Len(ops)
           b == [docs |-> collection, done |-> <<>>, errors |-> <<>>, n |-> 0, upserted |-> FALSE,
                 stop |-> FALSE, goOn |-> goOn]
<1>1. n \in Nat
  OBVIOUS
<1>2. PICK g \in [0..n -> Carryings] :
        W!Carried(ops, goOn) = g[n] /\ g[0] = b /\ \A i \in 1..n : g[i] = W!Carry(g[i - 1], ops[i])
  BY CarriedSteps, Zenon
<1>3. Kept(s \o b.done, b.docs)
  <2>1. s \o <<>> = s
    OBVIOUS
  <2> QED BY <2>1
<1> HIDE DEF b, n
<1> DEFINE S == {i \in Nat : i <= n => Kept(s \o g[i].done, g[i].docs)}
<1>4. ASSUME NEW i \in Nat, i + 1 <= n, Kept(s \o g[i].done, g[i].docs)
      PROVE  Kept(s \o g[i + 1].done, g[i + 1].docs)
  <2>1. i + 1 \in 1..n /\ i \in 0..n /\ (i + 1) - 1 = i
    BY <1>1, <1>4
  <2>2. g[i + 1] = W!Carry(g[i], ops[i + 1]) /\ g[i] \in Carryings /\ ops[i + 1] \in Operations
    BY <1>2, <2>1 DEF n
  <2> QED BY <1>4, <2>2, CarryKept
<1>5. 0 \in S /\ \A i \in Nat : i \in S => i + 1 \in S
  BY <1>1, <1>2, <1>3, <1>4
<1> HIDE DEF S
<1>6. n \in S
  BY <1>1, <1>5, SetInduction
<1>7. g[n] \in Carryings
  BY <1>1, <1>2
<1>8. g[n].done \in Seq(Operations)
  BY <1>7 DEF Carryings
<1>9. Kept(s \o g[n].done, g[n].docs)
  BY <1>1, <1>6 DEF S
<1> QED BY <1>2, <1>8, <1>9

(* An exchange keeps what was inserted.                                    *)
LEMMA ExchangeKept ==
    ASSUME Contents(collection), applied \in Seq(Operations), Kept(applied, collection),
           NEW ops \in Seq(Operations), NEW goOn \in BOOLEAN, NEW o \in W!Outcomes(ops, goOn), W!Exchange(o)
    PROVE  applied' \in Seq(Operations) /\ Kept(applied', collection')
<1> DEFINE r == W!Carried(ops, goOn)
           none == [r EXCEPT !.docs = collection, !.done = <<>>, !.errors = <<>>, !.n = 0]
           lost == [r EXCEPT !.errors = <<>>, !.n = 0]
<1>1. r \in Carryings /\ r.done \in Seq(Operations) /\ Kept(applied \o r.done, r.docs)
  BY CarriedFacts, CarriedKept
<1>2. o.r = r \/ o.r = none \/ o.r = lost
  BY DEF W!Outcomes
<1> HIDE DEF r
<1>3. none.done = <<>> /\ none.docs = collection /\ lost.done = r.done /\ lost.docs = r.docs
  BY <1>1 DEF Carryings
<1> HIDE DEF none, lost
<1>4. applied \o <<>> = applied
  OBVIOUS
<1>5. o.r.done \in Seq(Operations) /\ Kept(applied \o o.r.done, o.r.docs)
  <2>1. <<>> \in Seq(Operations)
    OBVIOUS
  <2> QED BY <1>1, <1>2, <1>3, <1>4, <2>1
<1>6. applied' = applied \o o.r.done /\ collection' = o.r.docs
  BY DEF W!Exchange
<1>7. applied \o o.r.done \in Seq(Operations)
  BY <1>5, ConcatProperties
<1> QED BY <1>5, <1>6, <1>7

(* Every step of the writer keeps what was inserted.                       *)
LEMMA WritingKept ==
    ASSUME WriteInv, applied \in Seq(Operations), Kept(applied, collection), W!Next
    PROVE  applied' \in Seq(Operations) /\ Kept(applied', collection')
<1>0. Contents(collection)
  BY DEF WriteInv, Contents
<1>1. CASE W!Queue \/ W!Run \/ W!Acquire \/ W!AcquireFails
  <2>1. UNCHANGED <<applied, collection>>
    BY <1>1 DEF W!Queue, W!Run, W!Acquire, W!AcquireFails
  <2> QED BY <2>1 DEF Kept
<1>2. CASE W!writeOpCommand \/ W!writeOpQuery
  <2>1. writer = "write" /\ \E o \in W!Outcomes(W!Part, ~plan.ordered) : W!Exchange(o)
    BY <1>2 DEF W!writeOpCommand, W!writeOpQuery
  <2>2. W!Part \in Seq(Operations) /\ (~plan.ordered) \in BOOLEAN
    BY <2>1, PartFacts, PlanFacts
  <2> QED BY <1>0, <2>1, <2>2, ExchangeKept
<1>3. CASE W!Single
  <2>1. bulk.next <= Len(plan.calls) /\ \E o \in W!Outcomes(<<W!Queued[bulk.next]>>, FALSE) : W!Exchange(o)
    BY <1>3, PlanFacts DEF W!Single
  <2>2. <<W!Queued[bulk.next]>> \in Seq(Operations)
    BY <2>1, PlanFacts DEF WriteInv
  <2> QED BY <1>0, <2>1, <2>2, ExchangeKept
<1> QED BY <1>1, <1>2, <1>3 DEF W!Next

(* Every document of the collection is in what is read.                    *)
LEMMA InOrderHas == ASSUME NEW S, Contents(S) PROVE Has(InOrder(S), S)
<1> DEFINE n == Cardinality(S)
           s == InOrder(S)
<1>0. n \in Nat
  BY FS_CardinalityType DEF Contents
<1>1. s = [i \in 1..n |-> CHOOSE d \in S : Rank(S, d) = i]
  BY DEF InOrder, Rank
<1> HIDE DEF s
<1>2. \A i \in 1..n : s[i] \in S /\ Rank(S, s[i]) = i
  BY <1>1, ContentsRanked DEF Ranked
<1>3. Len(s) = n
  BY <1>0, <1>1
<1>4. SUFFICES ASSUME NEW d \in S PROVE \E i \in 1..n : s[i] = d
  BY <1>3 DEF Has, s
<1> DEFINE A == {e \in S : e <= d}
           r == Rank(S, d)
<1>5. /\ S \subseteq Nat /\ d \in Nat /\ IsFiniteSet(S) /\ A \subseteq S /\ IsFiniteSet(A) /\ Cardinality(A) <= n
      /\ r = Cardinality(A) /\ d \in A
  BY FS_Subset DEF Contents, Documents, Rank
<1>6. r \in 1..n
  <2>1. Cardinality(A) \in Nat /\ Cardinality(A) # 0
    BY <1>5, FS_CardinalityType, FS_EmptySet
  <2> HIDE DEF A, n, r
  <2> QED BY <1>0, <1>5, <2>1
<1> DEFINE e == s[r]
           B == {x \in S : x <= e}
<1>7. e \in S /\ Cardinality(B) = r
  BY <1>2, <1>6 DEF Rank
<1>8. IsFiniteSet(B)
  BY <1>5, FS_Subset
<1>9. A \subseteq B \/ B \subseteq A
  <2>1. e \in Nat /\ (d <= e \/ e <= d)
    <3> HIDE DEF e, A, B, r
    <3> QED BY <1>5, <1>7
  <2> HIDE DEF e
  <2>2. CASE d <= e
    <3>1. \A x \in S : x <= d => x <= e
      BY <1>5, <2>1, <2>2
    <3> QED BY <3>1
  <2>3. CASE e <= d
    <3>1. \A x \in S : x <= e => x <= d
      BY <1>5, <2>1, <2>3
    <3> QED BY <3>1
  <2> QED BY <2>1, <2>2, <2>3
<1>10. A = B
  <2> HIDE DEF A, B, r, e
  <2> QED BY <1>5, <1>7, <1>8, <1>9, FS_Subset
<1>11. e \in Nat
  BY <1>5, <1>7
<1>12. d <= e /\ e <= d
  <2> HIDE DEF e
  <2>1. e \in B
    BY <1>7, <1>11
  <2>2. d \in B /\ e \in A
    BY <1>5, <1>10, <2>1
  <2> QED BY <2>2
<1>13. e = d
  <2> HIDE DEF e
  <2> QED BY <1>5, <1>11, <1>12
<1> QED BY <1>6, <1>13

(* At the end of the iteration all that is stored was returned.            *)
LEMMA AllReturned ==
    ASSUME TypeInv, StageInv, ContentInv, FailInv, Len(returned) = Len(stored)
    PROVE  \A d : Has(stored, d) => Has(returned, d)
<1>1. CASE Failing
  <2>1. returned = <<>>
    BY <1>1 DEF FailInv, StageInv
  <2>2. Len(stored) = 0
    BY <2>1
  <2> QED BY <2>2 DEF Has
<1>2. CASE ~Failing
  BY <1>2 DEF ContentInv, Has
<1> QED BY <1>1, <1>2

(* What the reader has returned, as ResultStream moves.                    *)
LEMMA StreamKeepsRead ==
    ASSUME IterInv, IterInv', Moves, ReadInv, R!Regular, UNCHANGED collection, query'.limit = query.limit, reading
    PROVE  /\ Has(stored', collection')
           /\ ended' = "exhausted" /\ ~closed' /\ query'.limit = 0 => Has(returned', collection')
<1> DEFINE Goal == /\ Has(stored', collection')
                   /\ ended' = "exhausted" /\ ~closed' /\ query'.limit = 0 => Has(returned', collection')
<1>0. /\ TypeInv /\ StageInv /\ ContentInv /\ FailInv
      /\ collection' = collection /\ Has(stored, collection) /\ query'.limit = query.limit
      /\ ended = "exhausted" /\ ~closed /\ query.limit = 0 => Has(returned, collection)
  BY DEF IterInv, ReadInv
<1>1. stored \in Seq(Documents) /\ Len(stored) \in Nat /\ closed \in BOOLEAN
  BY <1>0 DEF TypeInv
<1>2. ASSUME Has(stored', collection),
             ended' = "exhausted" /\ ~closed' /\ query.limit = 0 => Has(returned', collection)
      PROVE  Goal
  BY <1>0, <1>2
<1>3. ASSUME UNCHANGED <<stored, returned>>, ended' = "exhausted" => ended = "exhausted", closed => closed'
      PROVE  Goal
  <2>1. Has(stored', collection) /\ returned' = returned /\ (~closed' => ~closed)
    BY <1>0, <1>3
  <2>2. ended' = "exhausted" /\ ~closed' /\ query.limit = 0 => Has(returned', collection)
    BY <1>0, <1>3, <2>1
  <2> QED BY <1>2, <2>1, <2>2
<1>4. CASE UNCHANGED R!Stream!streamVars
  BY <1>3, <1>4 DEF R!Stream!streamVars
<1>5. CASE R!Stream!Grow
  <2>1. /\ Len(stored') > Len(stored) /\ SubSeq(stored', 1, Len(stored)) = stored /\ UNCHANGED <<returned, closed, ended>>
    BY <1>5 DEF R!Stream!Grow
  <2>2. stored' \in Seq(Documents) /\ Len(stored') \in Nat
    BY DEF IterInv, TypeInv
  <2>3. \A i \in 1..Len(stored) : i \in 1..Len(stored') /\ stored'[i] = stored[i]
    <3> SUFFICES ASSUME NEW i \in 1..Len(stored) PROVE i \in 1..Len(stored') /\ stored'[i] = stored[i]
      OBVIOUS
    <3>1. i \in 1..Len(stored')
      BY <1>1, <2>1, <2>2
    <3>2. SubSeq(stored', 1, Len(stored))[i] = stored'[i]
      BY <1>1, <2>1, <2>2
    <3> QED BY <2>1, <3>1, <3>2
  <2>4. Has(stored', collection)
    BY <1>0, <2>3 DEF Has
  <2> QED BY <1>0, <1>2, <2>1, <2>4
<1>6. CASE R!Stream!Return
  BY <1>0, <1>2, <1>6 DEF R!Stream!Return
<1>7. CASE R!Stream!Close
  BY <1>3, <1>7 DEF R!Stream!Close
<1>8. CASE R!Stream!Exhaust
  <2>1. /\ UNCHANGED <<stored, returned, closed>> /\ (closed \/ Len(returned) = R!Stream!Wanted)
    BY <1>8 DEF R!Stream!Exhaust
  <2>2. query.limit = 0 => R!Stream!Wanted = Len(stored)
    BY DEF R!Stream!Wanted, R!LimitOf
  <2>3. ~closed /\ query.limit = 0 => Has(returned, collection)
    BY <1>0, <2>1, <2>2, AllReturned
  <2> QED BY <1>0, <1>2, <2>1, <2>3
<1>9. CASE R!Stream!Fail
  BY <1>3, <1>9 DEF R!Stream!Fail
<1>10. CASE R!HiddenEnd
  <2>1. query.limit # 0
    BY <1>10 DEF R!HiddenEnd, R!HiddenError, R!LimitOf
  <2> QED BY <1>0, <1>2, <1>10, <2>1 DEF R!HiddenEnd
<1> QED BY <1>4, <1>5, <1>6, <1>7, <1>8, <1>9, <1>10 DEF Moves, R!Stream!Next

(* Every step of the program keeps it.                                     *)
LEMMA ReadInvKeeps == IInv /\ IInv' /\ [Next]_vars /\ ReadInv => ReadInv'
<1> SUFFICES ASSUME IInv, IInv', [Next]_vars, ReadInv PROVE ReadInv'
  OBVIOUS
<1>0. WriteInv /\ applied \in Seq(Operations) /\ Kept(applied, collection) /\ (R!Regular => IterInv /\ StageInv)
  BY DEF IInv, IterInv, ReadInv
<1>1. CASE W!Next /\ UNCHANGED <<iterating, reading>>
  <2>1. writer # "done"
    BY <1>1 DEF W!Next, W!Queue, W!Run, W!Acquire, W!AcquireFails, W!writeOpCommand, W!writeOpQuery, W!Single
  <2>2. ~reading
    BY <2>1 DEF ReadInv
  <2>3. R!Regular => ended = "no"
    BY <1>0, <2>2 DEF StageInv
  <2>4. ended' = ended /\ reading' = reading /\ (R!Regular' => R!Regular)
    BY <1>1 DEF iterating, R!Regular
  <2>5. applied' \in Seq(Operations) /\ Kept(applied', collection')
    BY <1>0, <1>1, WritingKept
  <2> QED BY <2>2, <2>3, <2>4, <2>5 DEF ReadInv
<1>2. CASE StartReading
  <2>1. /\ ~reading /\ writer = "done" /\ stored' = InOrder(collection)
        /\ UNCHANGED <<applied, collection, writer, ended, astray>>
    BY <1>2 DEF StartReading, writing
  <2>2. R!Regular' => ended' = "no"
    BY <1>0, <2>1 DEF StageInv, R!Regular
  <2>3. Has(stored', collection')
    BY <1>0, <2>1, InOrderHas DEF WriteInv, Contents
  <2>4. Kept(applied', collection')
    BY <1>0, <2>1 DEF Kept
  <2> QED BY <1>0, <2>1, <2>2, <2>3, <2>4 DEF ReadInv
<1>3. CASE reading /\ R!Next /\ UNCHANGED <<writing, reading>>
  <2>1. UNCHANGED <<applied, collection, writer, reading>>
    BY <1>3 DEF writing
  <2>2. query' = query
    BY <1>3, QueryStays
  <2>3. ASSUME R!Regular' PROVE R!Regular /\ Moves /\ IterInv /\ IterInv'
    BY <1>0, <1>3, <2>3, RegularBefore, StepMoves DEF IInv
  <2>4. query'.limit = query.limit
    BY <2>2
  <2>5. ASSUME R!Regular'
        PROVE  /\ Has(stored', collection')
               /\ ended' = "exhausted" /\ ~closed' /\ query'.limit = 0 => Has(returned', collection')
    BY <1>3, <2>1, <2>3, <2>4, <2>5, StreamKeepsRead
  <2>6. writer' = "done"
    BY <1>3, <2>1 DEF ReadInv
  <2>7. applied' \in Seq(Operations) /\ Kept(applied', collection')
    BY <1>0, <2>1 DEF Kept
  <2> QED BY <2>5, <2>6, <2>7 DEF ReadInv
<1>4. CASE UNCHANGED vars
  BY <1>0, <1>4 DEF vars, writing, iterating, ReadInv, Kept, Has, R!Regular
<1> QED BY <1>1, <1>2, <1>3, <1>4 DEF Next, Step, Done

(* For every plan of writes, single or in bulk, and every query without a  *)
(* limit: what was inserted and not removed again is returned by an        *)
(* iteration that ends by itself and without an error, in however many     *)
(* batches it came and however callers, requests and replies interleave,   *)
(* unless a reply was cut while getMore was under way.                     *)
THEOREM InsertedIsRead == Spec => []WrittenIsRead
<1>1. Init => ReadInv
  <2> SUFFICES ASSUME Init PROVE ReadInv
    OBVIOUS
  <2>1. applied = <<>> /\ ~reading /\ ended = "no"
    BY DEF Init, W!Init, R!Init
  <2> QED BY <2>1 DEF ReadInv, Kept
<1>2. IInv /\ IInv' /\ [Next]_vars /\ ReadInv => ReadInv'
  BY ReadInvKeeps
<1>3. IInv /\ ReadInv => WrittenIsRead
  <2> SUFFICES ASSUME IInv, ReadInv, ended = "exhausted", ~closed, query.limit = 0, "cut" \notin astray,
                      NEW i \in DOMAIN applied, applied[i].op = "insert"
               PROVE  \/ applied[i].doc \in ToSet(returned)
                      \/ \E j \in i + 1..Len(applied) : applied[j].doc = applied[i].doc /\ W!Kind(applied[j].op) = "remove"
    BY DEF WrittenIsRead
  <2>5. R!Regular
    BY DEF IInv, StrayInv, R!Overasked, R!Regular
  <2>1. applied \in Seq(Operations) /\ Kept(applied, collection) /\ Has(returned, collection) /\ returned \in Seq(Documents)
    BY <2>5 DEF ReadInv, IInv, IterInv, TypeInv
  <2>2. i \in 1..Len(applied) /\ Len(applied) \in Nat
    BY <2>1
  <2>3. CASE applied[i].doc \in collection
    BY <2>1, <2>3 DEF Has, ToSet
  <2>4. CASE \E j \in 1..Len(applied) : i < j /\ Removed(applied[j], applied[i].doc)
    <3>1. PICK j \in 1..Len(applied) : i < j /\ Removed(applied[j], applied[i].doc)
      BY <2>4
    <3>2. j \in i + 1..Len(applied)
      BY <2>2, <3>1
    <3> QED BY <3>1, <3>2 DEF Removed
  <2> QED BY <2>1, <2>2, <2>3, <2>4 DEF Kept
<1> QED BY <1>1, <1>2, <1>3, Invariant, PTL DEF Spec
=============================================================================
