--------------------------- MODULE TopologyProofs ---------------------------
(***************************************************************************)
(* Proofs about Topology for any number of servers, names, sessions and    *)
(* failures: the lists of servers agree and hold no address twice, nothing *)
(* is left open once the last session is gone, and a server gets into the  *)
(* cluster only on its own word as a master or on a master's word.         *)
(***************************************************************************)
EXTENDS Topology, FiniteSetTheorems, TLAPS

-----------------------------------------------------------------------------
(* The inductive invariant.                                                *)

Objects == [addr : Addrs, name : Names, used : BOOLEAN, master : BOOLEAN,
            closed : BOOLEAN, abended : BOOLEAN]
WorkerPcs == {"idle", "server", "try", "remove", "answered", "add", "vouched"}
Workers == [pc : WorkerPcs, name : Names, srv : Ids \cup {None}, master : BOOLEAN, retry : Nat]
Iterations == [seen : SUBSET Addrs, addIfFound : SUBSET Addrs,
               notYetAdded : [Addrs -> Ids \cup {None}], complete : BOOLEAN,
               listed : SUBSET Addrs]
UserPcs == {"idle", "check", "waiting", "server", "confirm", "got", "closed"}
Calls == [pc : UserPcs, srv : Ids \cup {None}, started : BOOLEAN, timedOut : BOOLEAN,
          synced : BOOLEAN]
Loops == {"start", "spawn", "sync", "pending", "release", "hold", "wait", "ended"}

TypeInv ==
    /\ config \in DOMAIN Scenarios
    /\ role \in [Addrs -> Roles]
    /\ objs \in [Ids -> Objects]
    /\ servers \subseteq Ids /\ masters \subseteq Ids /\ dynaSeeds \subseteq Names
    /\ references \in Nat
    /\ sync \in BOOLEAN
    /\ loop \in Loops
    /\ spawned \in [Goroutines -> Nat]
    /\ worker \in [Addrs -> Workers]
    /\ iter \in Iterations
    /\ user \in [Users -> Calls]
    /\ faults \in 0..C.faults

(* The server a goroutine works on is one of its address; one that waits   *)
(* to be added is nobody's, and its address was seen by this sync.  There  *)
(* is work only during a sync.                                             *)
WorkInv ==
    /\ \A a \in Addrs :
         /\ worker[a].pc \in {"idle", "server"} <=> worker[a].srv = None
         /\ worker[a].srv # None => objs[worker[a].srv].addr = a
         /\ worker[a].pc # "idle" => a \in iter.seen /\ iter.notYetAdded[a] = None
         /\ iter.notYetAdded[a] # None =>
              a \in iter.seen /\ objs[iter.notYetAdded[a]].addr = a
         /\ loop # "sync" => worker[a].pc = "idle"
         /\ loop \notin {"sync", "pending"} => iter.notYetAdded[a] = None
    /\ loop # "sync" => \A g \in Goroutines : spawned[g] = 0
    /\ \A u \in Users : user[u].pc \in {"server", "confirm", "got"} => user[u].srv # None

(* One server for an address, counting those that may get in.              *)
UniqueInv ==
    /\ \A i, j \in servers : objs[i].addr = objs[j].addr => i = j
    /\ \A a \in Addrs :
         /\ worker[a].srv # None => At(a) \subseteq {worker[a].srv}
         /\ iter.notYetAdded[a] # None => At(a) \subseteq {iter.notYetAdded[a]}

(* An open server is in the cluster or in the hands of a sync.             *)
OpenInv ==
    \A i \in Ids : objs[i].used /\ ~objs[i].closed =>
        \/ i \in servers
        \/ \E a \in Addrs : worker[a].srv = i \/ iter.notYetAdded[a] = i

(* Who holds a reference; without one everything is closed.                *)
Open == {u \in Users : user[u].pc # "closed"}
Syncing == loop \in {"spawn", "sync", "pending", "release"}
CountInv ==
    /\ Open \subseteq C.users
    /\ references = Cardinality(Open) + (IF Syncing THEN 1 ELSE 0)
    /\ references = 0 => \A i \in Ids : objs[i].used => objs[i].closed
    /\ loop = "ended" => references = 0

(* What a master said is known before anything follows from it.            *)
VouchedInv ==
    /\ iter.addIfFound \subseteq iter.listed
    /\ \A g \in Goroutines :
         spawned[g] > 0 /\ g.byMaster /\ g.name \in DOMAIN C.resolve =>
           resolveAddr(g.name) \in iter.listed
    /\ \A a \in Addrs :
         /\ worker[a].pc = "add" =>
              C.direct \/ worker[a].master \/ a \in iter.listed
         /\ worker[a].pc = "vouched" => a \in iter.listed
         /\ worker[a].pc = "add" /\ worker[a].master =>
              \A n \in C.hosts[a] \cap DOMAIN C.resolve : resolveAddr(n) \in iter.listed

IInv == TypeInv /\ WorkInv /\ UniqueInv /\ MastersAreKnown /\ OpenInv /\ CountInv /\ VouchedInv
-----------------------------------------------------------------------------
(* Facts about the sets and records of the invariant.                      *)

(* The configuration of the run is one of the scenarios.                   *)
LEMMA ScenarioFacts ==
    ASSUME TypeInv
    PROVE  /\ DOMAIN C.resolve \subseteq Names /\ C.seeds \subseteq Names
           /\ \A n \in DOMAIN C.resolve : resolveAddr(n) \in Addrs
           /\ \A a \in Addrs : C.hosts[a] \subseteq Names
           /\ C.role \in [Addrs -> Roles]
           /\ C.users \subseteq Users /\ C.faults \in Nat
BY ScenariosAssumption DEF TypeInv, C, resolveAddr

(* The records that stand for no work, no object, no call are well typed.  *)
LEMMA DefaultsAreTyped ==
    /\ Idle \in Workers /\ NoObj \in Objects /\ Outside \in Calls /\ NewIter \in Iterations
<1>1. (CHOOSE n \in Names : TRUE) \in Names /\ (CHOOSE a \in Addrs : TRUE) \in Addrs
  BY NamesAssumption
<1> QED BY <1>1 DEF Idle, NoObj, Outside, NewIter, Workers, Objects, Calls, Iterations,
             WorkerPcs, UserPcs, None

(* The sessions that are open are finitely many.                           *)
LEMMA OpenIsFinite == IsFiniteSet(Open) /\ Cardinality(Open) \in Nat
<1>1. Open \subseteq Users
  BY DEF Open
<1> QED BY <1>1, NamesAssumption, FS_Subset, FS_CardinalityType

-----------------------------------------------------------------------------
(* Every state the model starts in satisfies the invariant.                *)
LEMMA InitEstablishes == Init => IInv
<1> SUFFICES ASSUME Init PROVE IInv
  OBVIOUS
<1>t. TypeInv
  <2>1. C.role \in [Addrs -> Roles] /\ C.faults \in Nat /\ C.users \subseteq Users /\ IsFiniteSet(C.users)
    BY ScenariosAssumption, NamesAssumption, FS_Subset DEF Init, C
  <2>2. Cardinality(C.users) \in Nat
    BY <2>1, FS_CardinalityType
  <2>3. user \in [Users -> Calls]
    BY DEF Init, Calls, UserPcs, Outside, None
  <2>4. worker \in [Addrs -> Workers] /\ objs \in [Ids -> Objects] /\ iter \in Iterations
    BY DefaultsAreTyped DEF Init
  <2>5. role \in [Addrs -> Roles] /\ references \in Nat /\ faults \in 0..C.faults
    BY <2>1, <2>2 DEF Init
  <2>6. spawned \in [Goroutines -> Nat] /\ loop \in Loops /\ sync \in BOOLEAN
    BY DEF Init, Loops
  <2> QED BY <2>3, <2>4, <2>5, <2>6 DEF Init, TypeInv
<1>w. WorkInv
  BY DEF Init, WorkInv, Idle, NewIter, Outside, None
<1>u. UniqueInv
  BY DEF Init, UniqueInv, Idle, NewIter, At
<1>m. MastersAreKnown
  BY DEF Init, MastersAreKnown
<1>o. OpenInv
  BY DEF Init, OpenInv, NoObj
<1>c. CountInv
  <2>1. Open = C.users
    BY <1>t, ScenarioFacts DEF Init, Open, Outside
  <2> QED BY <2>1, OpenIsFinite, <1>t DEF CountInv, Init, NoObj, Syncing, TypeInv
<1>v. VouchedInv
  BY DEF Init, VouchedInv, Idle, NewIter
<1> QED BY <1>t, <1>w, <1>u, <1>m, <1>o, <1>c, <1>v DEF IInv

-----------------------------------------------------------------------------
(* Steps that leave the servers and the work of the sync alone.            *)

(* A step of sessions, roles and requests changes no more of the invariant *)
(* than the types, as long as nobody closes and who has a server has one.  *)
LEMMA SessionFrame ==
    ASSUME IInv, TypeInv',
           UNCHANGED <<config, objs, servers, masters, loop, references, spawned, worker, iter>>,
           \A u \in Users : user'[u].pc = "closed" <=> user[u].pc = "closed",
           \A u \in Users : user'[u].pc \in {"server", "confirm", "got"} => user'[u].srv # None
    PROVE  IInv'
<1>w. WorkInv'
  BY DEF IInv, WorkInv
<1>u. UniqueInv'
  BY DEF IInv, UniqueInv, At
<1>m. MastersAreKnown'
  BY DEF IInv, MastersAreKnown
<1>o. OpenInv'
  BY DEF IInv, OpenInv
<1>c. CountInv'
  <2>1. Open' = Open
    BY DEF Open
  <2> QED BY <2>1 DEF IInv, CountInv, C, Syncing
<1>v. VouchedInv'
  BY DEF IInv, VouchedInv, C, resolveAddr
<1> QED BY <1>w, <1>u, <1>m, <1>o, <1>c, <1>v DEF IInv

(* A broadcast wakes up sessions and changes nothing else of them.         *)
LEMMA BroadcastIsTyped ==
    ASSUME NEW us \in [Users -> Calls]
    PROVE  /\ Broadcast(us) \in [Users -> Calls]
           /\ \A u \in Users : Broadcast(us)[u].pc = "closed" <=> us[u].pc = "closed"
           /\ \A u \in Users : Broadcast(us)[u].pc \in {"server", "confirm", "got"}
                                 => us[u].pc = Broadcast(us)[u].pc
           /\ \A u \in Users : Broadcast(us)[u].srv = us[u].srv
BY DEF Broadcast, Calls, UserPcs

LEMMA AcquireSocketKeeps == ASSUME IInv, NEW u \in Users, AcquireSocket(u) PROVE IInv'
<1>1. TypeInv'
  BY DefaultsAreTyped DEF IInv, TypeInv, AcquireSocket, cluster, Calls, UserPcs, C
<1> QED BY <1>1, SessionFrame DEF IInv, TypeInv, WorkInv, AcquireSocket, cluster, Calls, Outside

LEMMA selectServerKeeps == ASSUME IInv, NEW u \in Users, selectServer(u) PROVE IInv'
<1>1. Candidates(u) \subseteq Ids
  BY DEF IInv, TypeInv, Candidates, BestFit
<1>2. TypeInv'
  BY <1>1 DEF IInv, TypeInv, selectServer, cluster, Calls, UserPcs, C
<1> QED BY <1>1, <1>2, SessionFrame DEF IInv, TypeInv, WorkInv, selectServer, cluster, Calls, Ids, None

LEMMA awaitSyncKeeps == ASSUME IInv, NEW u \in Users, awaitSync(u) PROVE IInv'
<1>0. user' \in [Users -> Calls]
  <2>1. \/ user' = [user EXCEPT ![u] = Outside]
        \/ user' = [user EXCEPT ![u].pc = "waiting", ![u].started = TRUE]
    BY DEF awaitSync
  <2> QED BY <2>1, DefaultsAreTyped DEF IInv, TypeInv, Calls, UserPcs
<1>2. sync' \in BOOLEAN
  BY DEF IInv, TypeInv, awaitSync
<1>1. TypeInv'
  BY <1>0, <1>2 DEF IInv, TypeInv, awaitSync, cluster, C
<1> QED BY <1>1, SessionFrame DEF IInv, TypeInv, WorkInv, awaitSync, cluster, Calls, Outside

LEMMA TimeoutKeeps == ASSUME IInv, NEW u \in Users, Timeout(u) PROVE IInv'
<1>1. TypeInv'
  BY DEF IInv, TypeInv, Timeout, cluster, Calls, C
<1> QED BY <1>1, SessionFrame DEF IInv, TypeInv, WorkInv, Timeout, cluster, Calls

LEMMA takeSocketKeeps == ASSUME IInv, NEW u \in Users, takeSocket(u) PROVE IInv'
<1>1. TypeInv'
  BY DEF IInv, TypeInv, takeSocket, cluster, Calls, UserPcs, C
<1> QED BY <1>1, SessionFrame DEF IInv, TypeInv, WorkInv, takeSocket, cluster, Calls

LEMMA confirmMasterKeeps == ASSUME IInv, NEW u \in Users, confirmMaster(u) PROVE IInv'
<1>1. C.faults \in Nat
  BY ScenarioFacts DEF IInv
<1>3. user' \in [Users -> Calls]
  <2>1. \/ user' = [user EXCEPT ![u].pc = "got"]
        \/ user' = [user EXCEPT ![u].pc = "check", ![u].srv = None]
    BY DEF confirmMaster
  <2> QED BY <2>1 DEF IInv, TypeInv, Calls, UserPcs, None
<1>5. sync' \in BOOLEAN
  BY DEF IInv, TypeInv, confirmMaster
<1>4. faults' \in 0..C.faults
  BY <1>1 DEF IInv, TypeInv, confirmMaster
<1>2. TypeInv'
  BY <1>3, <1>4, <1>5 DEF IInv, TypeInv, confirmMaster, cluster, C
<1> QED BY <1>2, SessionFrame DEF IInv, TypeInv, WorkInv, confirmMaster, cluster, Calls

LEMMA returnSocketKeeps == ASSUME IInv, NEW u \in Users, returnSocket(u) PROVE IInv'
<1>1. TypeInv'
  BY DefaultsAreTyped DEF IInv, TypeInv, returnSocket, cluster, C
<1> QED BY <1>1, SessionFrame DEF IInv, TypeInv, WorkInv, returnSocket, cluster, Calls, Outside

LEMMA ChangeRoleKeeps ==
    ASSUME IInv, NEW a \in Addrs, NEW r \in Roles, ChangeRole(a, r) PROVE IInv'
<1>1. C.faults \in Nat
  BY ScenarioFacts DEF IInv
<1>2. TypeInv'
  BY <1>1 DEF IInv, TypeInv, ChangeRole, cluster, C
<1> QED BY <1>2, SessionFrame DEF IInv, TypeInv, WorkInv, ChangeRole, cluster

(* A broken connection is noted at the server; it stays open.              *)
LEMMA AbendSocketKeeps == ASSUME IInv, NEW i \in Ids, AbendSocket(i) PROVE IInv'
<1>1. C.faults \in Nat
  BY ScenarioFacts DEF IInv
<1>2. \A k \in Ids : /\ objs'[k].addr = objs[k].addr /\ objs'[k].master = objs[k].master
                     /\ objs'[k].used = objs[k].used /\ objs'[k].closed = objs[k].closed
  BY DEF IInv, TypeInv, AbendSocket, Objects
<1>3. objs' \in [Ids -> Objects]
  BY DEF IInv, TypeInv, AbendSocket, Objects
<1>t. TypeInv'
  BY <1>1, <1>3 DEF IInv, TypeInv, AbendSocket, cluster, C
<1>w. WorkInv'
  BY <1>2 DEF IInv, TypeInv, WorkInv, AbendSocket, cluster, Workers, Iterations
<1>u. UniqueInv'
  <2>1. \A a \in Addrs : At(a)' = At(a)
    BY <1>2 DEF IInv, TypeInv, At, AbendSocket, cluster
  <2> QED BY <1>2, <2>1 DEF IInv, TypeInv, UniqueInv, AbendSocket, cluster
<1>m. MastersAreKnown'
  BY <1>2 DEF IInv, TypeInv, MastersAreKnown, AbendSocket, cluster
<1>o. OpenInv'
  BY <1>2 DEF IInv, OpenInv, AbendSocket, cluster
<1>c. CountInv'
  <2>1. Open' = Open
    BY DEF Open, AbendSocket
  <2> QED BY <1>2, <2>1 DEF IInv, CountInv, C, Syncing, AbendSocket, cluster
<1>v. VouchedInv'
  BY DEF IInv, VouchedInv, C, resolveAddr, AbendSocket, cluster
<1> QED BY <1>t, <1>w, <1>u, <1>m, <1>o, <1>c, <1>v DEF IInv

-----------------------------------------------------------------------------
(* Steps of the loop between two syncs.                                    *)

LEMMA LoopFrame ==
    ASSUME IInv, TypeInv', CountInv',
           UNCHANGED <<config, objs, servers, masters, spawned, worker, iter>>,
           loop \notin {"sync", "pending"}, loop' \notin {"sync", "pending"},
           \A u \in Users : user'[u].pc \in {"server", "confirm", "got"} => user'[u].srv # None
    PROVE  IInv'
<1>w. WorkInv'
  BY DEF IInv, WorkInv
<1>u. UniqueInv'
  BY DEF IInv, UniqueInv, At
<1>m. MastersAreKnown'
  BY DEF IInv, MastersAreKnown
<1>o. OpenInv'
  BY DEF IInv, OpenInv
<1>v. VouchedInv'
  BY DEF IInv, VouchedInv, C, resolveAddr
<1> QED BY <1>w, <1>u, <1>m, <1>o, <1>v DEF IInv

LEMMA syncServersLoopKeeps == ASSUME IInv, syncServersLoop PROVE IInv'
<1>1. TypeInv'
  BY DEF IInv, TypeInv, syncServersLoop, Loops, C
<1>2. CountInv'
  <2>1. Open' = Open
    BY DEF Open, syncServersLoop
  <2> QED BY <2>1, OpenIsFinite DEF IInv, TypeInv, CountInv, C, Syncing, syncServersLoop
<1> QED BY <1>1, <1>2, LoopFrame DEF IInv, WorkInv, syncServersLoop

LEMMA requestedKeeps == ASSUME IInv, requested PROVE IInv'
<1>1. TypeInv'
  BY DEF IInv, TypeInv, requested, cluster, Loops, C
<1>2. CountInv'
  <2>1. Open' = Open
    BY DEF Open, requested
  <2> QED BY <2>1 DEF IInv, CountInv, C, Syncing, requested, cluster
<1> QED BY <1>1, <1>2, LoopFrame DEF IInv, WorkInv, requested, cluster

LEMMA scheduledKeeps == ASSUME IInv, scheduled PROVE IInv'
<1>1. TypeInv'
  BY DEF IInv, TypeInv, scheduled, cluster, Loops, C
<1>2. CountInv'
  <2>1. Open' = Open
    BY DEF Open, scheduled
  <2> QED BY <2>1 DEF IInv, CountInv, C, Syncing, scheduled, cluster
<1> QED BY <1>1, <1>2, LoopFrame DEF IInv, WorkInv, scheduled, cluster

(* The poke after a sync touches only those who wait.                      *)
LEMMA holdOffKeeps == ASSUME IInv, holdOff PROVE IInv'
<1> DEFINE poked == [u \in Users |-> [user[u] EXCEPT !.synced = user[u].started]]
<1>1. poked \in [Users -> Calls]
  BY DEF IInv, TypeInv, Calls
<1>2. \A u \in Users : poked[u].pc = user[u].pc /\ poked[u].srv = user[u].srv
  BY DEF IInv, TypeInv, Calls
<1>3. user' = user \/ user' = Broadcast(poked)
  BY DEF holdOff
<1> HIDE DEF poked
<1>4. /\ user' \in [Users -> Calls]
      /\ \A u \in Users : user'[u].pc = "closed" <=> user[u].pc = "closed"
      /\ \A u \in Users : user'[u].pc \in {"server", "confirm", "got"} => user'[u].srv # None
  <2>1. CASE user' = user
    BY <2>1 DEF IInv, TypeInv, WorkInv
  <2>2. CASE user' = Broadcast(poked)
    BY <1>1, <1>2, <2>2, BroadcastIsTyped DEF IInv, WorkInv
  <2> QED BY <1>3, <2>1, <2>2
<1>5. loop' \in {"ended", "start", "wait"} /\ (loop' = "ended" => references = 0)
  BY DEF holdOff
<1>6. TypeInv'
  BY <1>4, <1>5 DEF IInv, TypeInv, holdOff, cluster, Loops, C
<1>7. CountInv'
  <2>1. Open' = Open
    BY <1>4 DEF Open
  <2> QED BY <1>5, <2>1 DEF IInv, CountInv, C, Syncing, holdOff, cluster
<1> QED BY <1>4, <1>5, <1>6, <1>7, LoopFrame DEF IInv, holdOff, cluster

(* A sync begins: nothing was heard yet.                                   *)
LEMMA syncServersIterationKeeps == ASSUME IInv, syncServersIteration PROVE IInv'
<1>1. iter' = NewIter /\ NewIter \in Iterations
  BY DefaultsAreTyped DEF syncServersIteration
<1>2. \A g \in Goroutines : spawned'[g] \in {0, 1} /\ (g.byMaster => spawned'[g] = 0)
  BY DEF syncServersIteration
<1>3. \A a \in Addrs : worker[a].pc = "idle" /\ iter.notYetAdded[a] = None
  BY DEF syncServersIteration, IInv, WorkInv
<1>t. TypeInv'
  BY <1>1 DEF IInv, TypeInv, syncServersIteration, cluster, Loops, C
<1>w. WorkInv'
  BY <1>1, <1>3 DEF IInv, WorkInv, syncServersIteration, NewIter, cluster
<1>u. UniqueInv'
  BY <1>1 DEF IInv, UniqueInv, At, syncServersIteration, NewIter, cluster
<1>m. MastersAreKnown'
  BY DEF IInv, MastersAreKnown, syncServersIteration, cluster
<1>o. OpenInv'
  BY <1>1, <1>3 DEF IInv, OpenInv, WorkInv, syncServersIteration, cluster, Ids, None
<1>c. CountInv'
  <2>1. Open' = Open
    BY DEF Open, syncServersIteration
  <2> QED BY <2>1 DEF IInv, CountInv, C, Syncing, syncServersIteration, cluster
<1>v. VouchedInv'
  BY <1>1, <1>2, <1>3 DEF IInv, VouchedInv, NewIter, syncServersIteration
<1> QED BY <1>t, <1>w, <1>u, <1>m, <1>o, <1>c, <1>v DEF IInv

(* All goroutines of spawnSync are done.                                   *)
LEMMA syncDoneKeeps == ASSUME IInv, syncDone PROVE IInv'
<1>t. TypeInv'
  BY DEF IInv, TypeInv, syncDone, cluster, Loops, C
<1>w. WorkInv'
  BY DEF IInv, WorkInv, syncDone, cluster
<1>u. UniqueInv'
  BY DEF IInv, UniqueInv, At, syncDone, cluster
<1>m. MastersAreKnown'
  BY DEF IInv, MastersAreKnown, syncDone, cluster
<1>o. OpenInv'
  BY DEF IInv, OpenInv, syncDone, cluster
<1>c. CountInv'
  <2>1. Open' = Open
    BY DEF Open, syncDone
  <2> QED BY <2>1 DEF IInv, CountInv, C, Syncing, syncDone, cluster
<1>v. VouchedInv'
  BY DEF IInv, VouchedInv, C, resolveAddr, syncDone
<1> QED BY <1>t, <1>w, <1>u, <1>m, <1>o, <1>c, <1>v DEF IInv

(* The sync is over and holds no server of its own.                        *)
LEMMA updateSeedsKeeps == ASSUME IInv, updateSeeds PROVE IInv'
<1>1. iter' = NewIter /\ NewIter \in Iterations
  BY DefaultsAreTyped DEF updateSeeds
<1>2. LiveServers \subseteq Names
  BY DEF IInv, TypeInv, LiveServers, Objects
<1>3. \A a \in Addrs : worker[a].pc = "idle" /\ worker[a].srv = None
  BY DEF updateSeeds, IInv, WorkInv
<1>t. TypeInv'
  BY <1>1, <1>2 DEF IInv, TypeInv, updateSeeds, Loops, C
<1>w. WorkInv'
  BY <1>1, <1>3 DEF IInv, WorkInv, updateSeeds, NewIter
<1>u. UniqueInv'
  BY <1>1, <1>3 DEF IInv, UniqueInv, At, updateSeeds, NewIter
<1>m. MastersAreKnown'
  BY DEF IInv, MastersAreKnown, updateSeeds
<1>o. OpenInv'
  BY <1>3 DEF IInv, OpenInv, updateSeeds, Ids, None
<1>c. CountInv'
  <2>1. Open' = Open
    BY DEF Open, updateSeeds
  <2> QED BY <2>1 DEF IInv, CountInv, C, Syncing, updateSeeds
<1>v. VouchedInv'
  <2>1. \A g \in Goroutines : spawned'[g] = 0
    BY DEF IInv, WorkInv, updateSeeds
  <2> QED BY <1>1, <1>3, <2>1 DEF VouchedInv, NewIter, updateSeeds
<1> QED BY <1>t, <1>w, <1>u, <1>m, <1>o, <1>c, <1>v DEF IInv

-----------------------------------------------------------------------------
(* Goroutines of spawnSync.                                                *)

(* A step that leaves the servers, the sessions and the loop alone keeps   *)
(* what is said of them.                                                   *)
LEMMA SyncFrame ==
    ASSUME IInv, UNCHANGED <<config, objs, servers, masters, references, loop, user>>
    PROVE  MastersAreKnown' /\ CountInv'
<1>1. Open' = Open
  BY DEF Open
<1> QED BY <1>1 DEF IInv, MastersAreKnown, CountInv, C, Syncing

LEMMA spawnSyncKeeps == ASSUME IInv, NEW g \in Goroutines, spawnSync(g) PROVE IInv'
<1> DEFINE a == resolveAddr(g.name)
<1>0. /\ UNCHANGED <<config, role, objs, servers, masters, dynaSeeds, references, sync, loop, user, faults>>
      /\ loop = "sync" /\ spawned[g] > 0
      /\ spawned' = [spawned EXCEPT ![g] = @ - 1]
  BY DEF spawnSync, cluster
<1>1. spawned' \in [Goroutines -> Nat] /\ \A h \in Goroutines : spawned'[h] > 0 => spawned[h] > 0
  BY <1>0 DEF IInv, TypeInv
<1>f. MastersAreKnown' /\ CountInv'
  BY <1>0, SyncFrame
<1>2. CASE g.name \notin DOMAIN C.resolve
  <2>1. UNCHANGED <<worker, iter>>
    BY <1>2 DEF spawnSync
  <2>t. TypeInv'
    BY <1>0, <1>1, <2>1 DEF IInv, TypeInv, C
  <2>w. WorkInv'
    BY <1>0, <2>1 DEF IInv, WorkInv
  <2>u. UniqueInv'
    BY <1>0, <2>1 DEF IInv, UniqueInv, At
  <2>o. OpenInv'
    BY <1>0, <2>1 DEF IInv, OpenInv
  <2>v. VouchedInv'
    BY <1>0, <1>1, <2>1 DEF IInv, VouchedInv, C, resolveAddr
  <2> QED BY <1>f, <2>t, <2>w, <2>u, <2>o, <2>v DEF IInv
<1>3. CASE g.name \in DOMAIN C.resolve /\ g.byMaster /\ iter.notYetAdded[a] # None
  <2>0. a \in Addrs
    BY <1>3, ScenarioFacts DEF IInv
  <2>1. /\ iter' = [iter EXCEPT !.notYetAdded[a] = None]
        /\ worker' = [worker EXCEPT ![a] = [Idle EXCEPT !.pc = "vouched", !.srv = iter.notYetAdded[a]]]
    BY <1>3 DEF spawnSync
  <2>2. /\ worker'[a].pc = "vouched" /\ worker'[a].srv = iter.notYetAdded[a]
        /\ worker'[a] \in Workers
        /\ \A b \in Addrs : b # a => worker'[b] = worker[b]
    BY <2>0, <2>1, DefaultsAreTyped DEF IInv, TypeInv, Iterations, Workers, WorkerPcs
  <2>3. /\ iter' \in Iterations
        /\ iter'.seen = iter.seen /\ iter'.addIfFound = iter.addIfFound /\ iter'.listed = iter.listed
        /\ iter'.notYetAdded[a] = None
        /\ \A b \in Addrs : b # a => iter'.notYetAdded[b] = iter.notYetAdded[b]
    BY <2>0, <2>1 DEF IInv, TypeInv, Iterations, None
  <2>4. worker[a].pc = "idle" /\ worker[a].srv = None /\ a \in iter.seen
    BY <1>3, <2>0 DEF IInv, WorkInv
  <2>5. objs[iter.notYetAdded[a]].addr = a /\ iter.notYetAdded[a] # None
    BY <1>3, <2>0 DEF IInv, WorkInv
  <2>6. a \in iter.listed
    BY <1>0, <1>3 DEF IInv, VouchedInv
  <2>t. TypeInv'
    <3>1. worker' \in [Addrs -> Workers]
      BY <2>1, <2>2 DEF IInv, TypeInv
    <3> QED BY <1>0, <1>1, <2>3, <3>1 DEF IInv, TypeInv, C
  <2>w. WorkInv'
    BY <1>0, <1>1, <2>2, <2>3, <2>4, <2>5 DEF IInv, WorkInv
  <2>u. UniqueInv'
    <3>1. \A b \in Addrs : At(b)' = At(b)
      BY <1>0 DEF At
    <3> QED BY <1>0, <2>0, <2>2, <2>3, <2>5, <3>1 DEF IInv, UniqueInv
  <2>o. OpenInv'
    BY <1>0, <2>0, <2>2, <2>3, <2>4 DEF IInv, OpenInv, Ids, None
  <2>v. VouchedInv'
    BY <1>0, <1>1, <2>2, <2>3, <2>6 DEF IInv, VouchedInv, C, resolveAddr
  <2> QED BY <1>f, <2>t, <2>w, <2>u, <2>o, <2>v DEF IInv
<1>4. CASE g.name \in DOMAIN C.resolve /\ ~(g.byMaster /\ iter.notYetAdded[a] # None)
  <2>0. a \in Addrs
    BY <1>4, ScenarioFacts DEF IInv
  <2>1. /\ iter' = [iter EXCEPT !.seen = @ \cup {a},
                                !.addIfFound = IF g.byMaster THEN @ \cup {a} ELSE @]
        /\ worker' = IF a \in iter.seen THEN worker
                     ELSE [worker EXCEPT ![a] = [Idle EXCEPT !.pc = "server", !.name = g.name]]
    BY <1>4 DEF spawnSync
  <2>2. /\ a \in iter.seen => worker'[a] = worker[a]
        /\ a \notin iter.seen =>
             /\ worker'[a].pc = "server" /\ worker'[a].srv = None
             /\ worker[a].srv = None /\ iter.notYetAdded[a] = None
        /\ worker'[a] \in Workers
        /\ \A b \in Addrs : b # a => worker'[b] = worker[b]
    <3>1. g.name \in Names
      BY DEF Goroutines
    <3>2. a \notin iter.seen => worker[a].srv = None /\ iter.notYetAdded[a] = None
      BY <2>0 DEF IInv, WorkInv
    <3> QED BY <2>0, <2>1, <3>1, <3>2, DefaultsAreTyped DEF IInv, TypeInv, Workers, WorkerPcs, Idle
  <2>3. /\ iter' \in Iterations
        /\ iter'.seen = iter.seen \cup {a} /\ iter'.listed = iter.listed
        /\ iter'.addIfFound \subseteq iter.addIfFound \cup {a}
        /\ ~g.byMaster => iter'.addIfFound = iter.addIfFound
        /\ iter'.notYetAdded = iter.notYetAdded
    BY <2>0, <2>1 DEF IInv, TypeInv, Iterations
  <2>4. g.byMaster => a \in iter.listed
    BY <1>0, <1>4 DEF IInv, VouchedInv
  <2>t. TypeInv'
    <3>1. worker' \in [Addrs -> Workers]
      BY <2>1, <2>2 DEF IInv, TypeInv
    <3> QED BY <1>0, <1>1, <2>3, <3>1 DEF IInv, TypeInv, C
  <2>w. WorkInv'
    BY <1>0, <1>1, <2>0, <2>2, <2>3 DEF IInv, WorkInv
  <2>u. UniqueInv'
    <3>1. \A b \in Addrs : At(b)' = At(b)
      BY <1>0 DEF At
    <3> QED BY <1>0, <2>0, <2>2, <2>3, <3>1 DEF IInv, UniqueInv
  <2>o. OpenInv'
    BY <1>0, <2>0, <2>2, <2>3 DEF IInv, OpenInv, Ids, None
  <2>v. VouchedInv'
    <3>1. iter'.addIfFound \subseteq iter'.listed
      BY <2>3, <2>4 DEF IInv, VouchedInv
    <3> QED BY <1>0, <1>1, <2>2, <2>3, <3>1 DEF IInv, VouchedInv, C, resolveAddr
  <2> QED BY <1>f, <2>t, <2>w, <2>u, <2>o, <2>v DEF IInv
<1> QED BY <1>2, <1>3, <1>4

(* Another attempt, or the last one.                                       *)
LEMMA syncServerFailsKeeps ==
    ASSUME IInv, NEW a \in Addrs, NEW timeout \in BOOLEAN, syncServerFails(a, timeout)
    PROVE  IInv'
<1>0. UNCHANGED <<config, role, objs, servers, masters, dynaSeeds, references, sync, loop, spawned, iter>>
  BY DEF syncServerFails, cluster
<1>1. faults' \in 0..C.faults
  <2>1. C.faults \in Nat
    BY ScenarioFacts DEF IInv
  <2> QED BY <2>1 DEF IInv, TypeInv, syncServerFails
<1>2. /\ worker[a].pc = "try" /\ worker'[a].pc \in {"remove", "try"}
      /\ worker'[a].srv = worker[a].srv
      /\ worker'[a] \in Workers
      /\ worker' = [worker EXCEPT ![a] = worker'[a]]
  <2> DEFINE r == worker[a].retry + 1
             next == IF worker[a].retry + 1 = Retries \/ C.failFast THEN "remove" ELSE "try"
  <2>1. /\ worker[a].pc = "try"
        /\ worker' = [worker EXCEPT ![a].retry = r, ![a].pc = next]
    BY DEF syncServerFails
  <2>2. next \in {"remove", "try"}
    OBVIOUS
  <2>3. r \in Nat
    BY DEF IInv, TypeInv, Workers
  <2> HIDE DEF r, next
  <2> QED BY <2>1, <2>2, <2>3 DEF IInv, TypeInv, Workers, WorkerPcs
<1>3. \A b \in Addrs : b # a => worker'[b] = worker[b]
  BY <1>2 DEF IInv, TypeInv
<1>4. /\ user' \in [Users -> Calls]
      /\ \A u \in Users : user'[u].pc = "closed" <=> user[u].pc = "closed"
      /\ \A u \in Users : user'[u].pc \in {"server", "confirm", "got"} => user'[u].srv # None
  <2>1. user' = user \/ user' = Broadcast(user)
    BY DEF syncServerFails
  <2>2. user \in [Users -> Calls]
    BY DEF IInv, TypeInv
  <2> QED BY <2>1, <2>2, BroadcastIsTyped DEF IInv, WorkInv
<1>t. TypeInv'
  <2>1. worker' \in [Addrs -> Workers]
    BY <1>2 DEF IInv, TypeInv
  <2> QED BY <1>0, <1>1, <1>4, <2>1 DEF IInv, TypeInv, C
<1>w. WorkInv'
  BY <1>0, <1>2, <1>3, <1>4 DEF IInv, WorkInv
<1>u. UniqueInv'
  <2>1. \A b \in Addrs : At(b)' = At(b)
    BY <1>0 DEF At
  <2> QED BY <1>0, <1>2, <1>3, <2>1 DEF IInv, UniqueInv
<1>m. MastersAreKnown'
  BY <1>0 DEF IInv, MastersAreKnown
<1>o. OpenInv'
  <2>1. \A b \in Addrs : worker'[b].srv = worker[b].srv
    BY <1>2, <1>3
  <2> QED BY <1>0, <2>1 DEF IInv, OpenInv
<1>c. CountInv'
  <2>1. Open' = Open
    BY <1>4 DEF Open
  <2> QED BY <1>0, <2>1 DEF IInv, CountInv, C, Syncing
<1>v. VouchedInv'
  BY <1>0, <1>2, <1>3 DEF IInv, VouchedInv, C, resolveAddr
<1> QED BY <1>t, <1>w, <1>u, <1>m, <1>o, <1>c, <1>v DEF IInv

(* An answer.                                                              *)
LEMMA syncServerKeeps == ASSUME IInv, NEW a \in Addrs, syncServer(a) PROVE IInv'
<1>0. UNCHANGED <<config, role, objs, servers, masters, dynaSeeds, references, sync, loop, spawned, iter, user, faults>>
  BY DEF syncServer, cluster
<1>2. /\ worker[a].pc = "try" /\ worker'[a].pc \in {"remove", "answered"}
      /\ worker'[a].srv = worker[a].srv
      /\ worker'[a] \in Workers
      /\ worker' = [worker EXCEPT ![a] = worker'[a]]
  <2>1. (role[a] = "primary") \in BOOLEAN
    OBVIOUS
  <2> QED BY <2>1 DEF IInv, TypeInv, syncServer, Workers, WorkerPcs
<1>3. \A b \in Addrs : b # a => worker'[b] = worker[b]
  BY <1>2 DEF IInv, TypeInv
<1>f. MastersAreKnown' /\ CountInv'
  BY <1>0, SyncFrame
<1>t. TypeInv'
  <2>1. worker' \in [Addrs -> Workers]
    BY <1>2 DEF IInv, TypeInv
  <2> QED BY <1>0, <2>1 DEF IInv, TypeInv, C
<1>w. WorkInv'
  BY <1>0, <1>2, <1>3 DEF IInv, WorkInv
<1>u. UniqueInv'
  <2>1. \A b \in Addrs : At(b)' = At(b)
    BY <1>0 DEF At
  <2> QED BY <1>0, <1>2, <1>3, <2>1 DEF IInv, UniqueInv
<1>o. OpenInv'
  <2>1. \A b \in Addrs : worker'[b].srv = worker[b].srv
    BY <1>2, <1>3
  <2> QED BY <1>0, <2>1 DEF IInv, OpenInv
<1>v. VouchedInv'
  BY <1>0, <1>2, <1>3 DEF IInv, VouchedInv, C, resolveAddr
<1> QED BY <1>f, <1>t, <1>w, <1>u, <1>o, <1>v DEF IInv

(* cluster.server: a new object is one that nobody has.                    *)
LEMMA serverKeeps == ASSUME IInv, NEW a \in Addrs, server(a) PROVE IInv'
<1>0. /\ worker[a].pc = "server"
      /\ UNCHANGED <<config, role, servers, masters, dynaSeeds, references, sync, loop, spawned, iter, user, faults>>
  BY DEF server, cluster
<1>1. worker[a].srv = None /\ iter.notYetAdded[a] = None /\ a \in iter.seen /\ loop = "sync"
  BY <1>0 DEF IInv, WorkInv
<1>2. CASE At(a) # {}
  <2>1. PICK i \in At(a) : worker' = [worker EXCEPT ![a].pc = "try", ![a].srv = i]
    BY <1>2 DEF server
  <2>2. objs' = objs
    BY <1>2 DEF server
  <2>3. i \in Ids /\ i \in servers /\ objs[i].addr = a
    BY DEF IInv, TypeInv, At
  <2>4. /\ worker'[a].pc = "try" /\ worker'[a].srv = i /\ worker'[a] \in Workers
        /\ worker' = [worker EXCEPT ![a] = worker'[a]]
        /\ \A b \in Addrs : b # a => worker'[b] = worker[b]
    BY ZenonT(60), <2>1, <2>3 DEF IInv, TypeInv, Workers, WorkerPcs
  <2>f. MastersAreKnown' /\ CountInv'
    BY <1>0, <2>2, SyncFrame
  <2>t. TypeInv'
    <3>1. worker' \in [Addrs -> Workers]
      BY <2>4 DEF IInv, TypeInv
    <3> QED BY <1>0, <2>2, <3>1 DEF IInv, TypeInv, C
  <2>w. WorkInv'
    BY <1>0, <1>1, <2>2, <2>3, <2>4 DEF IInv, WorkInv, Ids, None
  <2>u. UniqueInv'
    <3>1. \A b \in Addrs : At(b)' = At(b)
      BY <1>0, <2>2 DEF At
    <3>2. At(a) \subseteq {i}
      BY <2>3 DEF IInv, UniqueInv, At
    <3> QED BY <1>0, <1>1, <2>2, <2>4, <3>1, <3>2 DEF IInv, UniqueInv
  <2>o. OpenInv'
    BY <1>0, <1>1, <2>2, <2>4 DEF IInv, OpenInv, Ids, None
  <2>v. VouchedInv'
    BY <1>0, <2>4 DEF IInv, VouchedInv, C, resolveAddr
  <2> QED BY <2>f, <2>t, <2>w, <2>u, <2>o, <2>v DEF IInv
<1>3. CASE At(a) = {}
  <2> DEFINE new == [addr |-> a, name |-> worker[a].name, used |-> TRUE, master |-> FALSE,
                     closed |-> FALSE, abended |-> FALSE]
             free == {k \in Ids : k \notin Reachable /\ (objs[k].closed \/ ~objs[k].used)}
  <2>1. PICK i \in free :
          /\ objs' = [objs EXCEPT ![i] = new]
          /\ worker' = [worker EXCEPT ![a].pc = "try", ![a].srv = i]
    BY <1>3 DEF server
  <2>2. /\ i \in Ids /\ i \notin servers
        /\ \A b \in Addrs : worker[b].srv # i /\ iter.notYetAdded[b] # i
        /\ \A u \in Users : user[u].srv # i
    BY DEF Reachable
  <2>3. /\ worker'[a].pc = "try" /\ worker'[a].srv = i /\ worker'[a] \in Workers
        /\ worker' = [worker EXCEPT ![a] = worker'[a]]
        /\ \A b \in Addrs : b # a => worker'[b] = worker[b]
    BY <2>1, <2>2 DEF IInv, TypeInv, Workers, WorkerPcs
  <2>4. /\ objs' \in [Ids -> Objects]
        /\ objs'[i].addr = a /\ objs'[i].master = FALSE
        /\ \A k \in Ids : k # i => objs'[k] = objs[k]
    <3>1. new \in Objects
      BY DEF IInv, TypeInv, Workers, Objects
    <3> QED BY <2>1, <2>2, <3>1 DEF IInv, TypeInv
  <2>t. TypeInv'
    <3>1. worker' \in [Addrs -> Workers]
      BY <2>3 DEF IInv, TypeInv
    <3> QED BY <1>0, <2>4, <3>1 DEF IInv, TypeInv, C
  <2>w. WorkInv'
    <3>1. \A b \in Addrs : b # a => /\ worker[b].srv # None => objs'[worker[b].srv] = objs[worker[b].srv]
                                    /\ iter.notYetAdded[b] # None => objs'[iter.notYetAdded[b]] = objs[iter.notYetAdded[b]]
      BY <2>2, <2>4 DEF IInv, TypeInv, Workers, Iterations
    <3> QED BY <1>0, <1>1, <2>2, <2>3, <2>4, <3>1 DEF IInv, WorkInv, Ids, None
  <2>u. UniqueInv'
    <3>1. \A k \in servers : k \in Ids /\ objs'[k] = objs[k]
      BY <2>2, <2>4 DEF IInv, TypeInv
    <3>2. \A b \in Addrs : At(b)' = At(b)
      BY <1>0, <3>1 DEF At
    <3> QED BY <1>0, <1>1, <1>3, <2>3, <3>1, <3>2 DEF IInv, UniqueInv
  <2>m. MastersAreKnown'
    BY <1>0, <2>2, <2>4 DEF IInv, TypeInv, MastersAreKnown
  <2>o. OpenInv'
    BY <1>0, <1>1, <2>2, <2>3, <2>4 DEF IInv, OpenInv, Ids, None
  <2>c. CountInv'
    <3>1. Open' = Open
      BY <1>0 DEF Open
    <3>2. references # 0
      BY <1>1, OpenIsFinite DEF IInv, CountInv, Syncing
    <3> QED BY <1>0, <3>1, <3>2 DEF IInv, CountInv, C, Syncing
  <2>v. VouchedInv'
    BY <1>0, <2>3 DEF IInv, VouchedInv, C, resolveAddr
  <2> QED BY <2>t, <2>w, <2>u, <2>m, <2>o, <2>c, <2>v DEF IInv
<1> QED BY <1>2, <1>3

(* A server is to be added now, with what the master says, or set aside.   *)
LEMMA decideKeeps == ASSUME IInv, NEW a \in Addrs, decide(a) PROVE IInv'
<1> DEFINE w == worker[a]
           listed == IF w.master THEN {resolveAddr(n) : n \in C.hosts[a] \cap DOMAIN C.resolve} ELSE {}
<1>0. /\ w.pc = "answered"
      /\ UNCHANGED <<config, role, objs, servers, masters, dynaSeeds, references, sync, loop, user, faults>>
  BY DEF decide, cluster
<1>1. /\ w.srv # None /\ w.srv \in Ids /\ objs[w.srv].addr = a
      /\ iter.notYetAdded[a] = None /\ a \in iter.seen /\ loop = "sync"
  BY <1>0 DEF IInv, TypeInv, WorkInv, Workers, None
<1>f. MastersAreKnown' /\ CountInv'
  BY <1>0, SyncFrame
<1>3. \A b \in Addrs : At(b)' = At(b)
  BY <1>0 DEF At
<1>4. CASE C.direct \/ w.master \/ a \in iter.addIfFound
  <2>1. /\ iter' = [iter EXCEPT !.complete = TRUE, !.listed = @ \cup listed]
        /\ worker' = [worker EXCEPT ![a].pc = "add"]
        /\ spawned' = spawned
    BY <1>4 DEF decide
  <2>2. listed \subseteq Addrs
    BY ScenarioFacts DEF IInv
  <2>3. /\ worker'[a].pc = "add" /\ worker'[a].srv = w.srv /\ worker'[a].master = w.master
        /\ worker'[a] \in Workers
        /\ worker' = [worker EXCEPT ![a] = worker'[a]]
        /\ \A b \in Addrs : b # a => worker'[b] = worker[b]
    BY <2>1 DEF IInv, TypeInv, Workers, WorkerPcs
  <2>4. /\ iter' \in Iterations
        /\ iter'.seen = iter.seen /\ iter'.addIfFound = iter.addIfFound
        /\ iter'.notYetAdded = iter.notYetAdded /\ iter'.listed = iter.listed \cup listed
    BY <2>1, <2>2 DEF IInv, TypeInv, Iterations
  <2>5. w.master => \A n \in C.hosts[a] \cap DOMAIN C.resolve : resolveAddr(n) \in iter'.listed
    BY <2>4
  <2> HIDE DEF listed
  <2>t. TypeInv'
    <3>1. worker' \in [Addrs -> Workers]
      BY <2>3 DEF IInv, TypeInv
    <3> QED BY <1>0, <2>1, <2>4, <3>1 DEF IInv, TypeInv, C
  <2>w. WorkInv'
    BY <1>0, <1>1, <2>1, <2>3, <2>4 DEF IInv, WorkInv
  <2>u. UniqueInv'
    BY <1>0, <1>3, <2>3, <2>4 DEF IInv, UniqueInv
  <2>o. OpenInv'
    <3>1. \A b \in Addrs : worker'[b].srv = worker[b].srv
      BY <2>3
    <3> QED BY <1>0, <2>4, <3>1 DEF IInv, OpenInv
  <2>v. VouchedInv'
    <3>1. C'.direct = C.direct /\ C'.hosts = C.hosts /\ C'.resolve = C.resolve
      BY <1>0 DEF C
    <3>2. \A n : resolveAddr(n)' = resolveAddr(n)
      BY <1>0 DEF C, resolveAddr
    <3> QED BY <1>4, <2>1, <2>3, <2>4, <2>5, <3>1, <3>2 DEF IInv, VouchedInv
  <2> QED BY <1>f, <2>t, <2>w, <2>u, <2>o, <2>v DEF IInv
<1>5. CASE ~(C.direct \/ w.master \/ a \in iter.addIfFound)
  <2>1. /\ iter' = [iter EXCEPT !.notYetAdded[a] = w.srv]
        /\ worker' = [worker EXCEPT ![a] = Idle]
        /\ spawned' = Hosts(a, w.master)
    BY <1>5 DEF decide
  <2>2. /\ spawned' \in [Goroutines -> Nat]
        /\ \A g \in Goroutines : g.byMaster /\ spawned'[g] > 0 => spawned[g] > 0
    BY <1>5, <2>1 DEF IInv, TypeInv, Hosts
  <2>3. /\ worker'[a].pc = "idle" /\ worker'[a].srv = None
        /\ worker' \in [Addrs -> Workers]
        /\ \A b \in Addrs : b # a => worker'[b] = worker[b]
    BY <2>1, DefaultsAreTyped DEF IInv, TypeInv, Idle
  <2>4. /\ iter' \in Iterations
        /\ iter'.seen = iter.seen /\ iter'.addIfFound = iter.addIfFound
        /\ iter'.notYetAdded[a] = w.srv /\ iter'.listed = iter.listed
        /\ \A b \in Addrs : b # a => iter'.notYetAdded[b] = iter.notYetAdded[b]
    BY <1>1, <2>1 DEF IInv, TypeInv, Iterations
  <2>t. TypeInv'
    BY <1>0, <2>2, <2>3, <2>4 DEF IInv, TypeInv, C
  <2>w. WorkInv'
    BY <1>0, <1>1, <2>3, <2>4 DEF IInv, WorkInv
  <2>u. UniqueInv'
    BY <1>0, <1>1, <1>3, <2>3, <2>4 DEF IInv, UniqueInv
  <2>o. OpenInv'
    BY <1>0, <1>1, <2>3, <2>4 DEF IInv, OpenInv, Ids, None
  <2>v. VouchedInv'
    BY <1>0, <2>2, <2>3, <2>4 DEF IInv, VouchedInv, C, resolveAddr
  <2> QED BY <1>f, <2>t, <2>w, <2>u, <2>o, <2>v DEF IInv
<1> QED BY <1>4, <1>5

-----------------------------------------------------------------------------
(* Servers that come, go and are closed.                                   *)

(* removeServer with a server of address a, of which the sync holds at     *)
(* most the removed one: what is left is in order.                         *)
LEMMA removeServerFacts ==
    ASSUME IInv, NEW i \in Ids, removeServer(i)
    PROVE  /\ objs' \in [Ids -> Objects]
           /\ \A k \in Ids : /\ objs'[k].addr = objs[k].addr /\ objs'[k].used = objs[k].used
                             /\ objs'[k].master = objs[k].master
                             /\ objs[k].closed => objs'[k].closed
           /\ servers' = servers \ At(objs[i].addr) /\ masters' = masters \ At(objs[i].addr)
           /\ i \notin servers'
           /\ objs'[i].closed
           /\ \A k \in servers \ servers' : objs'[k].closed
<1>1. servers' = servers \ At(objs[i].addr) /\ masters' = masters \ At(objs[i].addr)
  BY DEF removeServer
<1>2. objs' = [k \in Ids |-> IF k = i \/ k \in At(objs[i].addr) THEN Close(objs[k]) ELSE objs[k]]
  BY DEF removeServer
<1>3. \A k \in Ids : Close(objs[k]) \in Objects /\ Close(objs[k]).closed
        /\ Close(objs[k]).addr = objs[k].addr /\ Close(objs[k]).used = objs[k].used
        /\ Close(objs[k]).master = objs[k].master
  BY DEF IInv, TypeInv, Close, Objects
<1> QED BY <1>1, <1>2, <1>3 DEF IInv, TypeInv, At

(* The parts of the invariant about servers after a removal.               *)
LEMMA removeServerKeeps ==
    ASSUME IInv, NEW i \in Ids, removeServer(i)
    PROVE  /\ objs' \in [Ids -> Objects] /\ servers' \subseteq Ids /\ masters' \subseteq Ids
           /\ MastersAreKnown'
           /\ \A k, l \in servers' : objs'[k].addr = objs'[l].addr => k = l
           /\ \A b \in Addrs : At(b)' \subseteq At(b)
           /\ \A k \in Ids : objs'[k].addr = objs[k].addr
           /\ references = 0 => \A k \in Ids : objs'[k].used => objs'[k].closed
           /\ \A k \in Ids : objs'[k].used /\ ~objs'[k].closed =>
                objs[k].used /\ ~objs[k].closed /\ k # i /\ (k \in servers' <=> k \in servers)
<1>0. /\ objs' \in [Ids -> Objects]
      /\ \A k \in Ids : /\ objs'[k].addr = objs[k].addr /\ objs'[k].used = objs[k].used
                        /\ objs'[k].master = objs[k].master
                        /\ objs[k].closed => objs'[k].closed
      /\ servers' = servers \ At(objs[i].addr) /\ masters' = masters \ At(objs[i].addr)
      /\ i \notin servers'
      /\ objs'[i].closed
      /\ \A k \in servers \ servers' : objs'[k].closed
  BY removeServerFacts
<1>1. servers \subseteq Ids /\ masters \subseteq Ids
  BY DEF IInv, TypeInv
<1>2. MastersAreKnown'
  BY <1>0, <1>1 DEF IInv, MastersAreKnown
<1>3. \A k, l \in servers' : objs'[k].addr = objs'[l].addr => k = l
  BY <1>0, <1>1 DEF IInv, UniqueInv
<1>4. \A b \in Addrs : At(b)' \subseteq At(b)
  BY <1>0, <1>1 DEF At
<1>5. references = 0 => \A k \in Ids : objs'[k].used => objs'[k].closed
  BY <1>0 DEF IInv, CountInv
<1> QED BY <1>0, <1>1, <1>2, <1>3, <1>4, <1>5

(* The goroutine gives its server up.                                      *)
LEMMA syncFailedKeeps == ASSUME IInv, NEW a \in Addrs, syncFailed(a) PROVE IInv'
<1> DEFINE i == worker[a].srv
<1>0. /\ worker[a].pc = "remove" /\ removeServer(i)
      /\ worker' = [worker EXCEPT ![a] = Idle]
      /\ UNCHANGED <<config, role, dynaSeeds, references, sync, loop, spawned, iter, user, faults>>
  BY DEF syncFailed
<1>1. i \in Ids /\ iter.notYetAdded[a] = None /\ loop = "sync"
  BY <1>0 DEF IInv, TypeInv, WorkInv, Workers
<1>2. /\ objs' \in [Ids -> Objects] /\ servers' \subseteq Ids /\ masters' \subseteq Ids
      /\ MastersAreKnown'
      /\ \A k, l \in servers' : objs'[k].addr = objs'[l].addr => k = l
      /\ \A b \in Addrs : At(b)' \subseteq At(b)
      /\ \A k \in Ids : objs'[k].addr = objs[k].addr
      /\ references = 0 => \A k \in Ids : objs'[k].used => objs'[k].closed
      /\ \A k \in Ids : objs'[k].used /\ ~objs'[k].closed =>
           objs[k].used /\ ~objs[k].closed /\ k # i /\ (k \in servers' <=> k \in servers)
  BY <1>0, <1>1, removeServerKeeps
<1>3. /\ worker'[a].pc = "idle" /\ worker'[a].srv = None
      /\ worker' \in [Addrs -> Workers]
      /\ \A b \in Addrs : b # a => worker'[b] = worker[b]
  BY <1>0, DefaultsAreTyped DEF IInv, TypeInv, Idle
<1>t. TypeInv'
  BY <1>0, <1>2, <1>3 DEF IInv, TypeInv, C
<1>w. WorkInv'
  BY <1>0, <1>1, <1>2, <1>3 DEF IInv, TypeInv, WorkInv, Workers, Iterations
<1>u. UniqueInv'
  BY <1>0, <1>2, <1>3 DEF IInv, UniqueInv
<1>o. OpenInv'
  BY <1>0, <1>1, <1>2, <1>3 DEF IInv, OpenInv
<1>c. CountInv'
  <2>1. Open' = Open
    BY <1>0 DEF Open
  <2> QED BY <1>0, <1>2, <2>1 DEF IInv, CountInv, C, Syncing
<1>v. VouchedInv'
  BY <1>0, <1>3 DEF IInv, VouchedInv, C, resolveAddr
<1> QED BY <1>2, <1>t, <1>w, <1>u, <1>o, <1>c, <1>v DEF IInv

(* A session drops the server it could not connect to, whatever the sync   *)
(* is doing with that server or another of its address.                    *)
LEMMA dropServerKeeps == ASSUME IInv, NEW u \in Users, dropServer(u) PROVE IInv'
<1> DEFINE i == user[u].srv
<1>0. /\ user[u].pc = "server" /\ removeServer(i) /\ sync' = TRUE
      /\ user' = [user EXCEPT ![u].pc = "check", ![u].srv = None]
      /\ UNCHANGED <<config, role, dynaSeeds, references, loop, spawned, worker, iter>>
  BY DEF dropServer
<1>1. i \in Ids
  BY <1>0 DEF IInv, TypeInv, WorkInv, Calls
<1>2. /\ objs' \in [Ids -> Objects] /\ servers' \subseteq Ids /\ masters' \subseteq Ids
      /\ MastersAreKnown'
      /\ \A k, l \in servers' : objs'[k].addr = objs'[l].addr => k = l
      /\ \A b \in Addrs : At(b)' \subseteq At(b)
      /\ \A k \in Ids : objs'[k].addr = objs[k].addr
      /\ references = 0 => \A k \in Ids : objs'[k].used => objs'[k].closed
      /\ \A k \in Ids : objs'[k].used /\ ~objs'[k].closed =>
           objs[k].used /\ ~objs[k].closed /\ k # i /\ (k \in servers' <=> k \in servers)
  BY <1>0, <1>1, removeServerKeeps
<1>3. /\ user' \in [Users -> Calls]
      /\ \A v \in Users : user'[v].pc = "closed" <=> user[v].pc = "closed"
      /\ \A v \in Users : user'[v].pc \in {"server", "confirm", "got"} => user'[v].srv # None
  BY <1>0 DEF IInv, TypeInv, WorkInv, Calls, UserPcs
<1>4. faults' \in 0..C.faults
  <2>1. C.faults \in Nat
    BY ScenarioFacts DEF IInv
  <2> QED BY <2>1 DEF IInv, TypeInv, dropServer
<1>t. TypeInv'
  BY <1>0, <1>2, <1>3, <1>4 DEF IInv, TypeInv, C
<1>w. WorkInv'
  BY <1>0, <1>2, <1>3 DEF IInv, TypeInv, WorkInv, Workers, Iterations
<1>u. UniqueInv'
  BY <1>0, <1>2 DEF IInv, UniqueInv
<1>o. OpenInv'
  BY <1>0, <1>2 DEF IInv, OpenInv
<1>c. CountInv'
  <2>1. Open' = Open
    BY <1>3 DEF Open
  <2> QED BY <1>0, <1>2, <2>1 DEF IInv, CountInv, C, Syncing
<1>v. VouchedInv'
  BY <1>0 DEF IInv, VouchedInv, C, resolveAddr
<1> QED BY <1>2, <1>t, <1>w, <1>u, <1>o, <1>c, <1>v DEF IInv

(* addServer with the only server that may be in the cluster at its        *)
(* address: cluster.masters stays in step, and no address is there twice.  *)
LEMMA addServerKeeps ==
    ASSUME IInv, NEW i \in Ids, NEW master \in BOOLEAN, NEW complete \in BOOLEAN,
           At(objs[i].addr) \subseteq {i}, addServer(i, master, complete)
    PROVE  /\ objs' \in [Ids -> Objects] /\ servers' \subseteq Ids /\ masters' \subseteq Ids
           /\ MastersAreKnown'
           /\ \A k, l \in servers' : objs'[k].addr = objs'[l].addr => k = l
           /\ \A b \in Addrs : b # objs[i].addr => At(b)' = At(b)
           /\ \A b \in Addrs : b = objs[i].addr => At(b)' \subseteq {i}
           /\ \A k \in Ids : objs'[k].addr = objs[k].addr
           /\ \A k \in Ids : objs'[k].used /\ ~objs'[k].closed =>
                /\ objs[k].used /\ ~objs[k].closed
                /\ k = i \/ k \in servers => k \in servers'
           /\ servers' \subseteq servers \cup {i}
           /\ i \in servers' => At(objs[i].addr) # {} \/ complete
           /\ i \in servers' => objs'[i].master = master
           /\ user' \in [Users -> Calls]
           /\ \A u \in Users : user'[u].pc = "closed" <=> user[u].pc = "closed"
           /\ \A u \in Users : user'[u].pc \in {"server", "confirm", "got"} => user'[u].srv # None
<1>0. servers \subseteq Ids /\ masters = {k \in servers : objs[k].master} /\ objs \in [Ids -> Objects]
  BY DEF IInv, TypeInv, MastersAreKnown
<1>1. /\ user' \in [Users -> Calls]
      /\ \A u \in Users : user'[u].pc = "closed" <=> user[u].pc = "closed"
      /\ \A u \in Users : user'[u].pc \in {"server", "confirm", "got"} => user'[u].srv # None
  <2>1. user' = user \/ user' = Broadcast(user)
    BY DEF addServer
  <2>2. user \in [Users -> Calls]
    BY DEF IInv, TypeInv
  <2> QED BY <2>1, <2>2, BroadcastIsTyped DEF IInv, WorkInv
<1>2. CASE At(objs[i].addr) = {} /\ ~complete
  <2>1. objs' = [objs EXCEPT ![i] = Close(@)] /\ UNCHANGED <<servers, masters>>
    BY <1>2 DEF addServer
  <2>2. Close(objs[i]) \in Objects /\ Close(objs[i]).closed
        /\ Close(objs[i]).addr = objs[i].addr /\ Close(objs[i]).used = objs[i].used
        /\ Close(objs[i]).master = objs[i].master
    BY <1>0 DEF Close, Objects
  <2>3. /\ objs' \in [Ids -> Objects] /\ objs'[i].closed
        /\ objs'[i].addr = objs[i].addr /\ objs'[i].master = objs[i].master
        /\ \A k \in Ids : k # i => objs'[k] = objs[k]
    BY <1>0, <2>1, <2>2
  <2>4. i \notin servers
    BY <1>2 DEF At
  <2>5. \A b \in Addrs : At(b)' = At(b)
    BY <1>0, <2>1, <2>3 DEF At
  <2>6. MastersAreKnown'
    BY <1>0, <2>1, <2>3 DEF MastersAreKnown
  <2>7. \A k, l \in servers' : objs'[k].addr = objs'[l].addr => k = l
    BY <1>0, <2>1, <2>3 DEF IInv, UniqueInv
  <2>8. masters' \subseteq Ids
    BY <1>0, <2>1
  <2> QED BY <1>0, <1>1, <1>2, <2>1, <2>3, <2>4, <2>5, <2>6, <2>7, <2>8
<1>3. CASE ~(At(objs[i].addr) = {} /\ ~complete)
  <2>1. /\ servers' = servers \cup {i}
        /\ masters' = IF At(objs[i].addr) = {} \/ objs[i].master # master
                      THEN IF master THEN masters \cup {i} ELSE masters \ {i}
                      ELSE masters
        /\ objs' = [objs EXCEPT ![i].master = master]
    BY <1>3 DEF addServer
  <2>2. /\ objs' \in [Ids -> Objects] /\ objs'[i].master = master
        /\ objs'[i].addr = objs[i].addr /\ objs'[i].used = objs[i].used
        /\ objs'[i].closed = objs[i].closed
        /\ \A k \in Ids : k # i => objs'[k] = objs[k]
    BY <1>0, <2>1 DEF Objects
  <2>3. i \in servers <=> At(objs[i].addr) # {}
    BY DEF At
  <2>4. MastersAreKnown'
    BY <1>0, <2>1, <2>2, <2>3 DEF MastersAreKnown
  <2>5. \A k, l \in servers' : objs'[k].addr = objs'[l].addr => k = l
    BY <1>0, <2>1, <2>2 DEF IInv, UniqueInv, At
  <2>6. /\ \A b \in Addrs : b # objs[i].addr => At(b)' = At(b)
        /\ \A b \in Addrs : b = objs[i].addr => At(b)' \subseteq {i}
    BY <1>0, <2>1, <2>2 DEF At
  <2>7. servers' \subseteq Ids /\ masters' \subseteq Ids
    BY <1>0, <2>1, <2>4 DEF MastersAreKnown
  <2> QED BY <1>1, <1>3, <2>1, <2>2, <2>4, <2>5, <2>6, <2>7
<1> QED BY <1>2, <1>3

(* A goroutine of spawnSync adds its server.                               *)
LEMMA addFoundKeeps == ASSUME IInv, NEW a \in Addrs, addFound(a) PROVE IInv'
<1> DEFINE i == worker[a].srv
           m == worker[a].master
<1>0. /\ worker[a].pc \in {"add", "vouched"} /\ addServer(i, m, TRUE)
      /\ spawned' = IF worker[a].pc = "add" THEN Hosts(a, m) ELSE spawned
      /\ worker' = [worker EXCEPT ![a] = Idle]
      /\ UNCHANGED <<config, role, dynaSeeds, references, sync, loop, iter, faults>>
  BY DEF addFound
<1>1. /\ i \in Ids /\ m \in BOOLEAN /\ objs[i].addr = a
      /\ iter.notYetAdded[a] = None /\ loop = "sync"
  BY <1>0 DEF IInv, TypeInv, WorkInv, Workers
<1>2. At(a) \subseteq {i}
  BY <1>1 DEF IInv, UniqueInv, Ids, None
<1> HIDE DEF i, m
<1>3. /\ objs' \in [Ids -> Objects] /\ servers' \subseteq Ids /\ masters' \subseteq Ids
      /\ MastersAreKnown'
      /\ \A k, l \in servers' : objs'[k].addr = objs'[l].addr => k = l
      /\ \A b \in Addrs : b # a => At(b)' = At(b)
      /\ At(a)' \subseteq {i}
      /\ \A k \in Ids : objs'[k].addr = objs[k].addr
      /\ \A k \in Ids : objs'[k].used /\ ~objs'[k].closed =>
           /\ objs[k].used /\ ~objs[k].closed
           /\ k = i \/ k \in servers => k \in servers'
      /\ user' \in [Users -> Calls]
      /\ \A u \in Users : user'[u].pc = "closed" <=> user[u].pc = "closed"
      /\ \A u \in Users : user'[u].pc \in {"server", "confirm", "got"} => user'[u].srv # None
  <2>1. At(objs[i].addr) \subseteq {i}
    BY <1>1, <1>2
  <2>2. CASE m = TRUE
    <3>1. addServer(i, TRUE, TRUE)
      BY <1>0, <2>2
    <3> QED BY <1>1, <2>1, <3>1, addServerKeeps
  <2>3. CASE m = FALSE
    <3>1. addServer(i, FALSE, TRUE)
      BY <1>0, <2>3
    <3> QED BY <1>1, <2>1, <3>1, addServerKeeps
  <2> QED BY <1>1, <2>2, <2>3
<1>4. /\ worker'[a].pc = "idle" /\ worker'[a].srv = None
      /\ worker' \in [Addrs -> Workers]
      /\ \A b \in Addrs : b # a => worker'[b] = worker[b]
  BY <1>0, DefaultsAreTyped DEF IInv, TypeInv, Idle
<1>5. /\ spawned' \in [Goroutines -> Nat]
      /\ \A g \in Goroutines :
           spawned'[g] > 0 => \/ spawned[g] > 0
                              \/ worker[a].pc = "add" /\ g.byMaster = m /\ g.name \in C.hosts[a]
  BY <1>0 DEF IInv, TypeInv, Hosts
<1>t. TypeInv'
  BY <1>0, <1>3, <1>4, <1>5 DEF IInv, TypeInv, C
<1>w. WorkInv'
  BY <1>0, <1>1, <1>3, <1>4 DEF IInv, TypeInv, WorkInv, Workers, Iterations
<1>u. UniqueInv'
  BY <1>0, <1>1, <1>3, <1>4 DEF IInv, UniqueInv
<1>o. OpenInv'
  BY <1>0, <1>1, <1>3, <1>4 DEF IInv, OpenInv, i
<1>c. CountInv'
  <2>1. Open' = Open
    BY <1>3 DEF Open
  <2>2. references # 0
    BY <1>1, OpenIsFinite DEF IInv, CountInv, Syncing
  <2> QED BY <1>0, <2>1, <2>2 DEF IInv, CountInv, C, Syncing
<1>v. VouchedInv'
  <2>1. C'.direct = C.direct /\ C'.hosts = C.hosts /\ C'.resolve = C.resolve
    BY <1>0 DEF C
  <2>2. \A n : resolveAddr(n)' = resolveAddr(n)
    BY <1>0 DEF C, resolveAddr
  <2>3. \A g \in Goroutines :
          spawned'[g] > 0 /\ g.byMaster /\ g.name \in DOMAIN C.resolve => resolveAddr(g.name) \in iter.listed
    <3> SUFFICES ASSUME NEW g \in Goroutines, spawned'[g] > 0, g.byMaster, g.name \in DOMAIN C.resolve
                 PROVE  resolveAddr(g.name) \in iter.listed
      OBVIOUS
    <3>1. CASE spawned[g] > 0
      BY <3>1 DEF IInv, VouchedInv
    <3>2. CASE worker[a].pc = "add" /\ g.byMaster = m /\ g.name \in C.hosts[a]
      BY <3>2, <1>1 DEF IInv, VouchedInv, m
    <3> QED BY <1>5, <3>1, <3>2
  <2> QED BY <1>0, <1>4, <2>1, <2>2, <2>3 DEF IInv, VouchedInv
<1> QED BY <1>3, <1>t, <1>w, <1>u, <1>o, <1>c, <1>v DEF IInv

(* What becomes of a server that nobody vouched for.                       *)
LEMMA settlePendingKeeps == ASSUME IInv, NEW a \in Addrs, settlePending(a) PROVE IInv'
<1> DEFINE i == iter.notYetAdded[a]
<1>0. /\ loop = "pending" /\ i # None
      /\ iter' = [iter EXCEPT !.notYetAdded[a] = None]
      /\ UNCHANGED <<config, role, dynaSeeds, references, sync, loop, spawned, worker, faults>>
  BY DEF settlePending
<1>1. /\ i \in Ids /\ objs[i].addr = a /\ \A b \in Addrs : worker[b].pc = "idle" /\ worker[b].srv = None
      /\ At(a) \subseteq {i}
  BY <1>0 DEF IInv, TypeInv, WorkInv, UniqueInv, Iterations
<1>2. /\ iter' \in Iterations
      /\ iter'.seen = iter.seen /\ iter'.addIfFound = iter.addIfFound
      /\ iter'.notYetAdded[a] = None /\ iter'.listed = iter.listed
      /\ \A b \in Addrs : b # a => iter'.notYetAdded[b] = iter.notYetAdded[b]
  BY <1>0 DEF IInv, TypeInv, Iterations, None
<1>3. (removeServer(i) /\ UNCHANGED user) \/ addServer(i, FALSE, FALSE)
  BY DEF settlePending
<1> HIDE DEF i
<1>4. /\ objs' \in [Ids -> Objects] /\ servers' \subseteq Ids /\ masters' \subseteq Ids
      /\ MastersAreKnown'
      /\ \A k, l \in servers' : objs'[k].addr = objs'[l].addr => k = l
      /\ \A b \in Addrs : b # a => At(b)' \subseteq At(b)
      /\ \A k \in Ids : objs'[k].addr = objs[k].addr
      /\ \A k \in Ids : objs'[k].used /\ ~objs'[k].closed =>
           /\ objs[k].used /\ ~objs[k].closed
           /\ k = i \/ k \in servers => k \in servers'
      /\ user' \in [Users -> Calls]
      /\ \A u \in Users : user'[u].pc = "closed" <=> user[u].pc = "closed"
      /\ \A u \in Users : user'[u].pc \in {"server", "confirm", "got"} => user'[u].srv # None
  <2>1. CASE removeServer(i) /\ UNCHANGED user
    <3>1. user \in [Users -> Calls] /\ \A u \in Users : user[u].pc \in {"server", "confirm", "got"} => user[u].srv # None
      BY DEF IInv, TypeInv, WorkInv
    <3> QED BY <1>1, <2>1, <3>1, removeServerKeeps
  <2>2. CASE addServer(i, FALSE, FALSE)
    <3>1. At(objs[i].addr) \subseteq {i}
      BY <1>1
    <3> QED BY <1>1, <2>2, <3>1, addServerKeeps
  <2> QED BY <1>3, <2>1, <2>2
<1>t. TypeInv'
  BY <1>0, <1>2, <1>4 DEF IInv, TypeInv, C
<1>w. WorkInv'
  <2>1. \A b \in Addrs : iter'.notYetAdded[b] # None =>
          b \in iter.seen /\ objs'[iter'.notYetAdded[b]].addr = b
    BY <1>2, <1>4 DEF IInv, TypeInv, WorkInv, Iterations
  <2>2. \A b \in Addrs : worker[b].pc = "idle" /\ worker[b].srv = None
    BY <1>1
  <2>3. \A g \in Goroutines : spawned[g] = 0
    BY <1>0 DEF IInv, WorkInv
  <2> QED BY <1>0, <1>2, <1>4, <2>1, <2>2, <2>3 DEF WorkInv
<1>u. UniqueInv'
  BY <1>0, <1>1, <1>2, <1>4 DEF IInv, UniqueInv
<1>o. OpenInv'
  BY <1>0, <1>1, <1>2, <1>4 DEF IInv, OpenInv, i, Ids, None
<1>c. CountInv'
  <2>1. Open' = Open
    BY <1>4 DEF Open
  <2>2. references # 0
    BY <1>0, OpenIsFinite DEF IInv, CountInv, Syncing
  <2> QED BY <1>0, <2>1, <2>2 DEF IInv, CountInv, C, Syncing
<1>v. VouchedInv'
  BY <1>0, <1>2 DEF IInv, VouchedInv, C, resolveAddr
<1> QED BY <1>4, <1>t, <1>w, <1>u, <1>o, <1>c, <1>v DEF IInv

-----------------------------------------------------------------------------
(* Release.                                                                *)

(* Where no sync is adding servers, the servers of the cluster are all     *)
(* that is open: the last Release leaves nothing open.                     *)
LEMMA ReleaseKeeps ==
    ASSUME IInv, loop \notin {"sync", "pending"}, Release
    PROVE  /\ objs' \in [Ids -> Objects] /\ sync' \in BOOLEAN
           /\ \A k \in Ids : objs'[k].addr = objs[k].addr /\ objs'[k].master = objs[k].master
           /\ \A k \in Ids : objs'[k].used /\ ~objs'[k].closed => objs[k].used /\ ~objs[k].closed
           /\ references = 1 => \A k \in Ids : objs'[k].used => objs'[k].closed
           /\ references # 1 => objs' = objs
<1>0. objs \in [Ids -> Objects] /\ sync \in BOOLEAN
  BY DEF IInv, TypeInv
<1>1. CASE references = 1
  <2>1. /\ objs' = [k \in Ids |-> IF k \in servers THEN Close(objs[k]) ELSE objs[k]]
        /\ sync' = TRUE
    BY <1>1 DEF Release
  <2>2. \A k \in Ids : Close(objs[k]) \in Objects /\ Close(objs[k]).closed
          /\ Close(objs[k]).addr = objs[k].addr /\ Close(objs[k]).used = objs[k].used
          /\ Close(objs[k]).master = objs[k].master
    BY <1>0 DEF Close, Objects
  <2>3. \A k \in Ids : objs[k].used /\ ~objs[k].closed => k \in servers
    BY DEF IInv, WorkInv, OpenInv, Ids, None
  <2> QED BY <1>0, <1>1, <2>1, <2>2, <2>3
<1>2. CASE references # 1
  BY <1>0, <1>2 DEF Release
<1> QED BY <1>1, <1>2

(* The parts of the invariant that are the same for both callers.          *)
LEMMA ReleaseFrame ==
    ASSUME IInv, TypeInv', CountInv', Release,
           UNCHANGED <<config, servers, masters, spawned, worker, iter>>,
           loop \notin {"sync", "pending"}, loop' \notin {"sync", "pending"},
           \A u \in Users : user'[u].pc \in {"server", "confirm", "got"} => user'[u].srv # None
    PROVE  IInv'
<1>0. /\ \A k \in Ids : objs'[k].addr = objs[k].addr /\ objs'[k].master = objs[k].master
      /\ \A k \in Ids : objs'[k].used /\ ~objs'[k].closed => objs[k].used /\ ~objs[k].closed
  BY ReleaseKeeps
<1>1. servers \subseteq Ids
  BY DEF IInv, TypeInv
<1>w. WorkInv'
  BY <1>0 DEF IInv, TypeInv, WorkInv, Workers, Iterations
<1>u. UniqueInv'
  <2>1. \A b \in Addrs : At(b)' = At(b)
    BY <1>0, <1>1 DEF At
  <2> QED BY <1>0, <1>1, <2>1 DEF IInv, UniqueInv
<1>m. MastersAreKnown'
  BY <1>0, <1>1 DEF IInv, MastersAreKnown
<1>o. OpenInv'
  BY <1>0 DEF IInv, OpenInv
<1>v. VouchedInv'
  BY DEF IInv, VouchedInv, C, resolveAddr
<1> QED BY <1>w, <1>u, <1>m, <1>o, <1>v DEF IInv

(* The loop gives back the reference it took for the sync.                 *)
LEMMA releaseAfterSyncKeeps == ASSUME IInv, releaseAfterSync PROVE IInv'
<1>0. /\ loop = "release" /\ loop' = "hold" /\ Release
      /\ UNCHANGED <<config, role, servers, masters, dynaSeeds, spawned, worker, iter, user, faults>>
  BY DEF releaseAfterSync
<1>1. /\ objs' \in [Ids -> Objects] /\ sync' \in BOOLEAN
      /\ references = 1 => \A k \in Ids : objs'[k].used => objs'[k].closed
  BY <1>0, ReleaseKeeps
<1>2. references' = references - 1
  BY <1>0 DEF Release
<1>3. Cardinality(Open) \in Nat /\ references = Cardinality(Open) + 1
  BY <1>0, OpenIsFinite DEF IInv, CountInv, Syncing
<1>t. TypeInv'
  BY <1>0, <1>1, <1>2, <1>3 DEF IInv, TypeInv, Loops, C
<1>c. CountInv'
  <2>1. Open' = Open
    BY <1>0 DEF Open
  <2> QED BY <1>0, <1>1, <1>2, <1>3, <2>1 DEF IInv, CountInv, C, Syncing
<1> QED BY <1>0, <1>t, <1>c, ReleaseFrame DEF IInv, WorkInv

(* A session gives back its own.                                           *)
LEMMA closeSessionKeeps == ASSUME IInv, NEW u \in Users, closeSession(u) PROVE IInv'
<1>0. /\ user[u].pc = "idle" /\ Release
      /\ user' = [user EXCEPT ![u].pc = "closed"]
      /\ UNCHANGED <<config, role, servers, masters, dynaSeeds, loop, spawned, worker, iter, faults>>
  BY DEF closeSession
<1>1. /\ user' \in [Users -> Calls]
      /\ Open' = Open \ {u} /\ u \in Open
      /\ \A v \in Users : user'[v].pc \in {"server", "confirm", "got"} => user'[v].srv # None
  BY <1>0 DEF IInv, TypeInv, WorkInv, Calls, UserPcs, Open
<1>2. Cardinality(Open') = Cardinality(Open) - 1 /\ Cardinality(Open) \in Nat
  BY <1>1, OpenIsFinite, FS_RemoveElement
<1>3. references' = references - 1
  BY <1>0 DEF Release
<1>4. Cardinality(Open') \in Nat
  <2>1. IsFiniteSet(Open')
    BY <1>1, OpenIsFinite, FS_RemoveElement
  <2> QED BY <2>1, FS_CardinalityType
<1>5. references = Cardinality(Open) + (IF Syncing THEN 1 ELSE 0) /\ references # 0
  BY <1>2, <1>4 DEF IInv, CountInv
<1>6. CASE references = 1
  <2>1. ~Syncing
    BY <1>2, <1>4, <1>5, <1>6
  <2>2. loop \notin {"sync", "pending"}
    BY <2>1 DEF Syncing
  <2>3. /\ objs' \in [Ids -> Objects] /\ sync' \in BOOLEAN
        /\ \A k \in Ids : objs'[k].used => objs'[k].closed
    BY <1>0, <1>6, <2>2, ReleaseKeeps
  <2>t. TypeInv'
    BY <1>0, <1>1, <1>3, <1>6, <2>3 DEF IInv, TypeInv, C
  <2>c. CountInv'
    <3>1. references' = 0
      BY <1>3, <1>6
    <3> QED BY <1>0, <1>1, <1>2, <1>3, <1>5, <2>3, <3>1 DEF IInv, CountInv, C, Syncing
  <2> QED BY <1>0, <1>1, <2>2, <2>t, <2>c, ReleaseFrame
<1>7. CASE references # 1
  <2>1. objs' = objs /\ sync' = sync
    BY <1>0, <1>7 DEF Release
  <2>2. references' \in Nat /\ references' # 0
    BY <1>3, <1>5, <1>7 DEF IInv, TypeInv
  <2>t. TypeInv'
    BY <1>0, <1>1, <2>1, <2>2 DEF IInv, TypeInv, C
  <2>w. WorkInv'
    BY <1>0, <1>1, <2>1 DEF IInv, WorkInv
  <2>u. UniqueInv'
    BY <1>0, <2>1 DEF IInv, UniqueInv, At
  <2>m. MastersAreKnown'
    BY <1>0, <2>1 DEF IInv, MastersAreKnown
  <2>o. OpenInv'
    BY <1>0, <2>1 DEF IInv, OpenInv
  <2>c. CountInv'
    BY <1>0, <1>1, <1>2, <1>3, <1>5, <2>2 DEF IInv, CountInv, C, Syncing
  <2>v. VouchedInv'
    BY <1>0 DEF IInv, VouchedInv, C, resolveAddr
  <2> QED BY <2>t, <2>w, <2>u, <2>m, <2>o, <2>c, <2>v DEF IInv
<1> QED BY <1>6, <1>7

-----------------------------------------------------------------------------
(* The invariant and what follows from it.                                 *)

(* No step of the loop, a goroutine, a session or the replica set leaves   *)
(* the invariant.                                                          *)
LEMMA NextKeeps == ASSUME IInv, [Next]_vars PROVE IInv'
<1>1. CASE loopStep
  BY <1>1, syncServersLoopKeeps, syncServersIterationKeeps, syncDoneKeeps, updateSeedsKeeps,
     releaseAfterSyncKeeps, holdOffKeeps, requestedKeeps, spawnSyncKeeps, settlePendingKeeps
     DEF loopStep
<1>2. CASE scheduled
  BY <1>2, scheduledKeeps
<1>3. ASSUME NEW a \in Addrs, workerStep(a) PROVE IInv'
  BY <1>3, serverKeeps, syncServerKeeps, syncFailedKeeps, decideKeeps, addFoundKeeps,
     syncServerFailsKeeps DEF workerStep
<1>4. ASSUME NEW u \in Users, userStep(u) PROVE IInv'
  BY <1>4, selectServerKeeps, awaitSyncKeeps, dropServerKeeps, takeSocketKeeps,
     confirmMasterKeeps DEF userStep
<1>5. ASSUME NEW u \in Users, AcquireSocket(u) \/ Timeout(u) \/ returnSocket(u) \/ closeSession(u)
      PROVE  IInv'
  BY <1>5, AcquireSocketKeeps, TimeoutKeeps, returnSocketKeeps, closeSessionKeeps
<1>6. ASSUME NEW a \in Addrs, NEW r \in Roles, ChangeRole(a, r) PROVE IInv'
  BY <1>6, ChangeRoleKeeps
<1>7. ASSUME NEW i \in Ids, AbendSocket(i) PROVE IInv'
  BY <1>7, AbendSocketKeeps
<1>8. CASE UNCHANGED vars
  <2>1. TypeInv'
    BY <1>8 DEF IInv, TypeInv, vars, C
  <2> QED BY <1>8, <2>1, SessionFrame DEF IInv, WorkInv, vars
<1> QED BY <1>1, <1>2, <1>3, <1>4, <1>5, <1>6, <1>7, <1>8 DEF Next

(* Whatever the members of the set, the syncs and the sessions do, and     *)
(* whatever fails, the lists of servers stay as described above.           *)
THEOREM InvariantHolds == Spec => []IInv
<1>1. Init => IInv
  BY InitEstablishes
<1>2. IInv /\ [Next]_vars => IInv'
  BY NextKeeps
<1> QED BY <1>1, <1>2, PTL DEF Spec

(* The lists of servers agree and hold no server twice, the panic of       *)
(* addServer is never reached, the references are as many as there may be, *)
(* and nothing is open once the last session is gone.                      *)
THEOREM ServersAreKeptHolds == Spec => []ServersAreKept
<1>1. IInv => ServersAreKept
  <2> SUFFICES ASSUME IInv PROVE ServersAreKept
    OBVIOUS
  <2>1. TypeOK
    <3>1. references \in 0..Cardinality(C.users) + 1
      <4>1. Open \subseteq C.users /\ IsFiniteSet(C.users)
        BY ScenarioFacts, NamesAssumption, FS_Subset DEF IInv, CountInv
      <4>2. Cardinality(Open) <= Cardinality(C.users) /\ Cardinality(C.users) \in Nat
        BY <4>1, FS_Subset, FS_CardinalityType
      <4> QED BY <4>2, OpenIsFinite DEF IInv, CountInv
    <3> QED BY <3>1 DEF IInv, TypeInv, TypeOK, Objects, Workers, WorkerPcs, Calls, UserPcs, Loops
  <2>2. NoDuplicatedServer
    <3>1. ASSUME NEW a \in Addrs PROVE Cardinality(At(a)) <= 1
      <4>1. CASE At(a) = {}
        BY <4>1, FS_EmptySet
      <4>2. CASE At(a) # {}
        <5>1. PICK i \in At(a) : TRUE
          BY <4>2
        <5>2. At(a) = {i}
          BY DEF IInv, UniqueInv, At
        <5>3. Cardinality({i}) = 1
          BY FS_Singleton
        <5> QED BY <5>2, <5>3
      <4> QED BY <4>1, <4>2
    <3>2. ASSUME NEW a \in Addrs, worker[a].pc \in {"add", "vouched"} PROVE worker[a].srv # None
      BY <3>2 DEF IInv, WorkInv
    <3> QED BY <3>1, <3>2 DEF IInv, UniqueInv, NoDuplicatedServer
  <2>3. AllClosedAtEnd
    BY DEF IInv, CountInv, AllClosedAtEnd
  <2> QED BY <2>1, <2>2, <2>3 DEF IInv, ServersAreKept
<1> QED BY <1>1, InvariantHolds, PTL

(* A server gets into the cluster only on its own word that it is a master *)
(* or on the word of a master that lists it.                               *)
THEOREM StrangersStayOutHolds == Spec => StrangersStayOut
<1> DEFINE Vouched == \A i \in servers' \ servers :
                        C.direct \/ objs'[i].master \/ objs[i].addr \in iter.listed
<1>1. ASSUME IInv, [Next]_vars PROVE [Vouched]_vars
  <2>1. CASE servers' \subseteq servers
    BY <2>1
  <2>2. ASSUME NEW a \in Addrs, addFound(a) PROVE Vouched
    <3> DEFINE i == worker[a].srv
               m == worker[a].master
    <3>1. worker[a].pc \in {"add", "vouched"} /\ addServer(i, m, TRUE)
      BY <2>2 DEF addFound
    <3>2. /\ i \in Ids /\ m \in BOOLEAN /\ objs[i].addr = a
          /\ At(a) \subseteq {i}
      BY <1>1, <3>1 DEF IInv, TypeInv, WorkInv, UniqueInv, Workers
    <3> HIDE DEF i, m
    <3>3. servers' \subseteq servers \cup {i} /\ (i \in servers' => objs'[i].master = m)
      <4>1. At(objs[i].addr) \subseteq {i}
        BY <3>2
      <4>2. CASE m = TRUE
        <5>1. addServer(i, TRUE, TRUE)
          BY <3>1, <4>2
        <5> QED BY <1>1, <3>2, <4>1, <4>2, <5>1, addServerKeeps
      <4>3. CASE m = FALSE
        <5>1. addServer(i, FALSE, TRUE)
          BY <3>1, <4>3
        <5> QED BY <1>1, <3>2, <4>1, <4>3, <5>1, addServerKeeps
      <4> QED BY <3>2, <4>2, <4>3
    <3>4. C.direct \/ m \/ a \in iter.listed
      BY <1>1, <3>1 DEF IInv, VouchedInv, m
    <3> QED BY <3>2, <3>3, <3>4
  <2>3. ASSUME NEW a \in Addrs, settlePending(a) PROVE servers' \subseteq servers
    <3> DEFINE i == iter.notYetAdded[a]
    <3>1. i \in Ids /\ objs[i].addr = a /\ At(a) \subseteq {i}
      BY <1>1, <2>3 DEF settlePending, IInv, TypeInv, WorkInv, UniqueInv, Iterations
    <3>2. removeServer(i) \/ addServer(i, FALSE, FALSE)
      BY <2>3 DEF settlePending
    <3> HIDE DEF i
    <3>3. CASE removeServer(i)
      BY <3>3 DEF removeServer
    <3>4. CASE addServer(i, FALSE, FALSE)
      BY <3>1, <3>4 DEF addServer, At
    <3> QED BY <3>2, <3>3, <3>4
  <2>4. ASSUME loopStep, \A a \in Addrs : ~settlePending(a) PROVE servers' \subseteq servers
    BY <2>4 DEF loopStep, syncServersLoop, syncServersIteration, syncDone, updateSeeds,
       releaseAfterSync, holdOff, requested, spawnSync, cluster
  <2>5. ASSUME NEW a \in Addrs, workerStep(a), ~addFound(a) PROVE servers' \subseteq servers
    BY <2>5 DEF workerStep, server, syncServer, syncFailed, decide, syncServerFails, removeServer, cluster
  <2>6. ASSUME NEW u \in Users,
               userStep(u) \/ AcquireSocket(u) \/ Timeout(u) \/ returnSocket(u) \/ closeSession(u)
        PROVE  servers' \subseteq servers
    BY <2>6 DEF userStep, selectServer, awaitSync, dropServer, takeSocket, confirmMaster,
       AcquireSocket, Timeout, returnSocket, closeSession, removeServer, cluster
  <2>7. ASSUME NEW a \in Addrs, NEW r \in Roles, ChangeRole(a, r) PROVE servers' \subseteq servers
    BY <2>7 DEF ChangeRole, cluster
  <2>8. ASSUME NEW i \in Ids, AbendSocket(i) PROVE servers' \subseteq servers
    BY <2>8 DEF AbendSocket, cluster
  <2>9. ASSUME scheduled \/ UNCHANGED vars PROVE servers' \subseteq servers
    BY <2>9 DEF scheduled, vars, cluster
  <2> QED BY <1>1, <2>1, <2>2, <2>3, <2>4, <2>5, <2>6, <2>7, <2>8, <2>9 DEF Next
<1>2. [][Vouched]_vars <=> StrangersStayOut
  BY DEF StrangersStayOut
<1> QED BY <1>1, <1>2, InvariantHolds, PTL DEF Spec
=============================================================================
