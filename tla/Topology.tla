------------------------------ MODULE Topology ------------------------------
(***************************************************************************)
(* llmgo/cluster.go: how a cluster finds out which servers there are and   *)
(* which of them are masters.  syncServersLoop asks every known server, in *)
(* parallel, for its role and its peers; sessions wait for a server that   *)
(* suits them, take servers out of the cluster when they cannot connect to *)
(* them, and close.  The replica set itself is the environment: its        *)
(* members change their roles, go down and come back, connections fail.    *)
(*                                                                         *)
(* The part of a server that is its pool of sockets is in module Pool.     *)
(* Here a server is known by its address, by what info says of it and by   *)
(* whether it was closed or lost a connection.                             *)
(***************************************************************************)
EXTENDS Integers, FiniteSets

CONSTANTS
    Addrs,       \* resolved addresses
    Names,       \* addresses as the user or a server writes them
    Users,       \* sessions, each of which holds a reference of the cluster
    Scenarios,   \* by name: what the names resolve to, the seeds, the peers that
                 \* each server reports, the members of the replica set asked for,
                 \* the servers that have the tags asked for, the options of
                 \* DialInfo, the sessions and how each reads and, as a bound, the
                 \* number of changes of roles and failures of connections
    Retries,     \* attempts of syncServer, 3 in the code
    MaxServers   \* bound: server objects in memory at any time

Roles == {"primary", "secondary", "other", "down"}
Modes == {"Eventual", "Monotonic", "Primary", "PrimaryPreferred", "Secondary",
          "SecondaryPreferred", "Nearest"}
Ids == 1..MaxServers
None == 0            \* nil, where a pointer to a server may be nil

ASSUME BoundsAssumption == Retries \in Nat \ {0} /\ MaxServers \in Nat
ASSUME NamesAssumption == Addrs # {} /\ Names # {} /\ IsFiniteSet(Users)
ASSUME ScenariosAssumption ==
    \A s \in DOMAIN Scenarios :
      LET c == Scenarios[s]
      IN  /\ DOMAIN c.resolve \subseteq Names /\ c.seeds \subseteq Names
          /\ \A n \in DOMAIN c.resolve : c.resolve[n] \in Addrs
          /\ \A a \in Addrs : c.hosts[a] \subseteq Names
          /\ c.set \subseteq Addrs /\ c.tagged \subseteq Addrs
          /\ c.direct \in BOOLEAN /\ c.failFast \in BOOLEAN
          /\ \A u \in Users : c.mode[u] \in Modes /\ c.slaveOk[u] \in BOOLEAN
          /\ c.role \in [Addrs -> Roles]
          /\ c.users \subseteq Users /\ c.users # {} /\ c.faults \in Nat

VARIABLES
    config,      \* the name of the scenario
    role,        \* what each server is and would answer to ismaster
    objs,        \* MongoServer objects
    servers,     \* cluster.servers
    masters,     \* cluster.masters
    dynaSeeds,   \* cluster.dynaSeeds
    references,  \* cluster.references
    sync,        \* whether there is a value in the channel cluster.sync
    loop,        \* where syncServersLoop is
    spawned,     \* goroutines of spawnSync that have not started, by arguments
    worker,      \* the goroutine of spawnSync that works on an address
    iter,        \* the variables of syncServersIteration
    user,        \* the call of AcquireSocket of each session
    faults       \* how often the environment changed

vars == <<config, role, objs, servers, masters, dynaSeeds, references, sync, loop,
          spawned, worker, iter, user, faults>>
cluster == <<servers, masters, dynaSeeds, references>>

C == Scenarios[config]
resolveAddr(n) == C.resolve[n]
Goroutines == [name : Names, byMaster : BOOLEAN]
Idle == [pc |-> "idle", name |-> CHOOSE n \in Names : TRUE, srv |-> None, master |-> FALSE, retry |-> 0]
NoObj == [addr |-> CHOOSE a \in Addrs : TRUE, name |-> Idle.name, used |-> FALSE,
          master |-> FALSE, closed |-> TRUE, abended |-> FALSE]
Outside == [pc |-> "idle", srv |-> None, started |-> FALSE, timedOut |-> FALSE, synced |-> FALSE]
NewIter == [seen |-> {}, addIfFound |-> {}, notYetAdded |-> [a \in Addrs |-> None],
            complete |-> FALSE, listed |-> {}]

(* newCluster and DialWithInfo: every session has its reference, that of   *)
(* newCluster itself is released.                                          *)
Init ==
    /\ config \in DOMAIN Scenarios
    /\ role = C.role
    /\ objs = [i \in Ids |-> NoObj]
    /\ servers = {} /\ masters = {} /\ dynaSeeds = {}
    /\ references = Cardinality(C.users)
    /\ sync = FALSE
    /\ loop = "start"
    /\ spawned = [g \in Goroutines |-> 0]
    /\ worker = [a \in Addrs |-> Idle]
    /\ iter = NewIter
    /\ user = [u \in Users |-> [Outside EXCEPT !.pc = IF u \in C.users THEN "idle" ELSE "closed"]]
    /\ faults = 0

-----------------------------------------------------------------------------
(* Servers of the cluster.                                                 *)

At(a) == {i \in servers : objs[i].addr = a}

(* The objects something still points to; the others are garbage.          *)
Reachable ==
    servers \cup {worker[a].srv : a \in Addrs} \cup {iter.notYetAdded[a] : a \in Addrs}
            \cup {user[u].srv : u \in Users}

(* MongoServer.Close: its sockets are killed.                              *)
Close(o) == [o EXCEPT !.closed = TRUE, !.abended = FALSE]

(* removeServer: whatever server the cluster has for the address goes,     *)
(* which need not be the server that failed; both are closed.              *)
removeServer(i) ==
    LET other == At(objs[i].addr)
    IN  /\ servers' = servers \ other
        /\ masters' = masters \ other
        /\ objs' = [k \in Ids |-> IF k = i \/ k \in other THEN Close(objs[k]) ELSE objs[k]]

(* serverSynced.Broadcast.                                                 *)
Broadcast(us) == [u \in Users |-> IF us[u].pc = "waiting" THEN [us[u] EXCEPT !.pc = "check"] ELSE us[u]]

(* addServer.  An unknown server of a partial sync is closed instead.      *)
addServer(i, master, complete) ==
    IF At(objs[i].addr) = {} /\ ~complete
    THEN /\ objs' = [objs EXCEPT ![i] = Close(@)]
         /\ UNCHANGED <<servers, masters, user>>
    ELSE /\ servers' = servers \cup {i}
         /\ masters' = IF At(objs[i].addr) = {} \/ objs[i].master # master
                       THEN IF master THEN masters \cup {i} ELSE masters \ {i}
                       ELSE masters
         /\ objs' = [objs EXCEPT ![i].master = master]
         /\ user' = Broadcast(user)

(* LiveServers.                                                            *)
LiveServers == {objs[i].name : i \in servers}

getKnownAddrs == C.seeds \cup dynaSeeds \cup LiveServers

(* Release: the last one closes the servers and wakes up the loop.         *)
Release ==
    /\ references' = references - 1
    /\ IF references = 1      \* the last one
       THEN /\ objs' = [i \in Ids |-> IF i \in servers THEN Close(objs[i]) ELSE objs[i]]
            /\ sync' = TRUE
       ELSE UNCHANGED <<objs, sync>>

-----------------------------------------------------------------------------
(* syncServersLoop.                                                        *)

(* The top of the loop: the cluster is kept alive while syncing.           *)
syncServersLoop ==
    /\ loop = "start"
    /\ IF references = 0
       THEN loop' = "ended" /\ UNCHANGED references
       ELSE loop' = "spawn" /\ references' = references + 1
    /\ UNCHANGED <<config, role, objs, servers, masters, dynaSeeds, sync, spawned, worker, iter, user, faults>>

(* syncServersIteration up to wg.Wait.                                     *)
syncServersIteration ==
    /\ loop = "spawn"
    /\ loop' = "sync"
    /\ iter' = NewIter
    /\ spawned' = [g \in Goroutines |-> IF g.name \in getKnownAddrs /\ ~g.byMaster THEN 1 ELSE 0]
    /\ UNCHANGED <<config, role, objs, cluster, sync, worker, user, faults>>

(* Plausible bug: what a slave says of other servers counts like the word  *)
(* of a master.                                                            *)
Hosts_AllVouchedFor(a, master) ==
    IF C.direct THEN spawned
    ELSE [g \in Goroutines |->
            IF g.byMaster /\ g.name \in C.hosts[a] THEN spawned[g] + 1 ELSE spawned[g]]

(* The calls of spawnSync for the hosts a server reported.                 *)
Hosts(a, master) ==
    IF C.direct THEN spawned
    ELSE [g \in Goroutines |->
            IF g.byMaster = master /\ g.name \in C.hosts[a] THEN spawned[g] + 1 ELSE spawned[g]]

(* Plausible bug: servers are told apart by name, not by resolved address. *)
spawnSync_ByName(g) ==
    /\ loop = "sync" /\ spawned[g] > 0
    /\ spawned' = [spawned EXCEPT ![g] = @ - 1]
    /\ IF g.name \notin DOMAIN C.resolve
       THEN UNCHANGED <<worker, iter>>
       ELSE LET a == resolveAddr(g.name)
            IN  /\ worker[a].pc = "idle"
                /\ worker' = [worker EXCEPT ![a] = [Idle EXCEPT !.pc = "server", !.name = g.name]]
                /\ iter' = IF g.byMaster THEN [iter EXCEPT !.addIfFound = @ \cup {a}] ELSE iter
    /\ UNCHANGED <<config, role, objs, cluster, sync, loop, user, faults>>

(* A goroutine of spawnSync up to the release of m: a server the master    *)
(* knows and that waits to be added is, one that was seen is left to the   *)
(* goroutine that works on it.                                             *)
spawnSync(g) ==
    /\ loop = "sync" /\ spawned[g] > 0
    /\ spawned' = [spawned EXCEPT ![g] = @ - 1]
    /\ IF g.name \notin DOMAIN C.resolve
       THEN UNCHANGED <<worker, iter>>
       ELSE LET a == resolveAddr(g.name)
            IN  IF g.byMaster /\ iter.notYetAdded[a] # None
                THEN /\ iter' = [iter EXCEPT !.notYetAdded[a] = None]
                     /\ worker' = [worker EXCEPT ![a] =
                          [Idle EXCEPT !.pc = "vouched", !.srv = iter.notYetAdded[a]]]
                ELSE /\ iter' = [iter EXCEPT !.seen = @ \cup {a},
                                    !.addIfFound = IF g.byMaster THEN @ \cup {a} ELSE @]
                     /\ worker' = IF a \in iter.seen THEN worker
                                  ELSE [worker EXCEPT ![a] = [Idle EXCEPT !.pc = "server", !.name = g.name]]
    /\ UNCHANGED <<config, role, objs, cluster, sync, loop, user, faults>>

(* cluster.server: the server the cluster has, or a new one.               *)
server(a) ==
    /\ worker[a].pc = "server"
    /\ IF At(a) # {}
       THEN /\ worker' = [worker EXCEPT ![a].pc = "try", ![a].srv = CHOOSE i \in At(a) : TRUE]
            /\ UNCHANGED objs
       ELSE LET free == {i \in Ids : i \notin Reachable /\ (objs[i].closed \/ ~objs[i].used)}
                new == CHOOSE i \in free : TRUE
            IN  /\ free # {}
                /\ objs' = [objs EXCEPT ![new] =
                     [addr |-> a, name |-> worker[a].name, used |-> TRUE, master |-> FALSE,
                      closed |-> FALSE, abended |-> FALSE]]
                /\ worker' = [worker EXCEPT ![a].pc = "try", ![a].srv = new]
    /\ UNCHANGED <<config, role, cluster, sync, loop, spawned, iter, user, faults>>
(* What a server answers to ismaster is an answer unless it is in neither  *)
(* state (a direct connection takes it for a slave) or of another set.     *)
Suits(a) == a \in C.set /\ (role[a] \in {"primary", "secondary"} \/ C.direct)

(* One attempt of syncServer: the server is closed or cannot be reached,   *)
(* or a connection to it fails although it is up.                          *)
syncServerFails(a, timeout) ==
    LET i == worker[a].srv
        r == worker[a].retry + 1
    IN  /\ worker[a].pc = "try"
        /\ \/ (objs[i].closed \/ role[a] = "down") /\ UNCHANGED faults
           \/ faults < C.faults /\ faults' = faults + 1
        /\ worker' = [worker EXCEPT ![a].retry = r,
                        ![a].pc = IF r = Retries \/ C.failFast THEN "remove" ELSE "try"]
        /\ user' = IF timeout /\ worker'[a].pc = "try" THEN Broadcast(user) ELSE user
        /\ UNCHANGED <<config, role, objs, cluster, sync, loop, spawned, iter>>

(* syncServer gets an answer.                                              *)
syncServer(a) ==
    /\ worker[a].pc = "try"
    /\ ~objs[worker[a].srv].closed /\ role[a] # "down"
    /\ worker' = [worker EXCEPT ![a].pc = IF Suits(a) THEN "answered" ELSE "remove",
                                ![a].master = role[a] = "primary"]
    /\ UNCHANGED <<config, role, objs, cluster, sync, loop, spawned, iter, user, faults>>

(* The goroutine's removeServer after an error.                            *)
syncFailed(a) ==
    /\ worker[a].pc = "remove"
    /\ removeServer(worker[a].srv)
    /\ worker' = [worker EXCEPT ![a] = Idle]
    /\ UNCHANGED <<config, role, dynaSeeds, references, sync, loop, spawned, iter, user, faults>>

(* Whether the server is added now or waits for a master to name it.       *)
decide(a) ==
    LET w == worker[a]
        listed == IF w.master THEN {resolveAddr(n) : n \in C.hosts[a] \cap DOMAIN C.resolve} ELSE {}
    IN  /\ w.pc = "answered"
        /\ IF C.direct \/ w.master \/ a \in iter.addIfFound
           THEN /\ iter' = [iter EXCEPT !.complete = TRUE, !.listed = @ \cup listed]
                /\ worker' = [worker EXCEPT ![a].pc = "add"]
                /\ UNCHANGED spawned
           ELSE /\ iter' = [iter EXCEPT !.notYetAdded[a] = w.srv]
                /\ worker' = [worker EXCEPT ![a] = Idle]
                /\ spawned' = Hosts(a, w.master)
        /\ UNCHANGED <<config, role, objs, cluster, sync, loop, user, faults>>

(* The call of addServer in a goroutine of spawnSync.                      *)
addFound(a) ==
    /\ worker[a].pc \in {"add", "vouched"}
    /\ addServer(worker[a].srv, worker[a].master, TRUE)
    /\ spawned' = IF worker[a].pc = "add" THEN Hosts(a, worker[a].master) ELSE spawned
    /\ worker' = [worker EXCEPT ![a] = Idle]
    /\ UNCHANGED <<config, role, dynaSeeds, references, sync, loop, iter, faults>>

(* wg.Wait returns.                                                        *)
syncDone ==
    /\ loop = "sync"
    /\ \A g \in Goroutines : spawned[g] = 0
    /\ \A a \in Addrs : worker[a].pc = "idle"
    /\ loop' = "pending"
    /\ UNCHANGED <<config, role, objs, cluster, sync, spawned, worker, iter, user, faults>>

(* A server nobody vouched for: it leaves the cluster if a master was      *)
(* heard, else it stays as it is known.                                    *)
settlePending(a) ==
    /\ loop = "pending" /\ iter.notYetAdded[a] # None
    /\ iter' = [iter EXCEPT !.notYetAdded[a] = None]
    /\ IF iter.complete
       THEN removeServer(iter.notYetAdded[a]) /\ UNCHANGED user
       ELSE addServer(iter.notYetAdded[a], FALSE, FALSE)
    /\ UNCHANGED <<config, role, dynaSeeds, references, sync, loop, spawned, worker, faults>>

(* The end of syncServersIteration; requests made meanwhile are consumed.  *)
updateSeeds ==
    /\ loop = "pending" /\ \A a \in Addrs : iter.notYetAdded[a] = None
    /\ dynaSeeds' = IF iter.complete THEN LiveServers ELSE dynaSeeds
    /\ sync' = FALSE
    /\ iter' = NewIter
    /\ loop' = "release"
    /\ UNCHANGED <<config, role, objs, servers, masters, references, spawned, worker, user, faults>>

releaseAfterSync ==
    /\ loop = "release"
    /\ Release
    /\ loop' = "hold"
    /\ UNCHANGED <<config, role, servers, masters, dynaSeeds, spawned, worker, iter, user, faults>>

(* Plausible bug: the end of a sync is not broadcast.                      *)
holdOff_Silent ==
    /\ loop = "hold"
    /\ loop' = IF references = 0 THEN "ended"
               ELSE IF (~C.direct /\ masters = {}) \/ servers = {} THEN "start" ELSE "wait"
    /\ UNCHANGED <<config, role, objs, cluster, sync, spawned, worker, iter, user, faults>>

(* After the short delay: the waiters are poked, syncCount moves on and    *)
(* the loop restarts at once if it lacks a master or any server.           *)
holdOff ==
    /\ loop = "hold"
    /\ IF references = 0
       THEN loop' = "ended" /\ UNCHANGED user
       ELSE /\ loop' = IF (~C.direct /\ masters = {}) \/ servers = {} THEN "start" ELSE "wait"
            /\ user' = Broadcast([u \in Users |-> [user[u] EXCEPT !.synced = user[u].started]])
    /\ UNCHANGED <<config, role, objs, cluster, sync, spawned, worker, iter, faults>>

(* The wait for a request or for the next scheduled sync.                  *)
requested ==
    /\ loop = "wait" /\ sync
    /\ sync' = FALSE
    /\ loop' = "start"
    /\ UNCHANGED <<config, role, objs, cluster, spawned, worker, iter, user, faults>>

scheduled ==
    /\ loop = "wait"
    /\ loop' = "start"
    /\ UNCHANGED <<config, role, objs, cluster, sync, spawned, worker, iter, user, faults>>

-----------------------------------------------------------------------------
(* A session's AcquireSocket.                                              *)

SlaveOk(u) == C.slaveOk[u]
Mode(u) == C.mode[u]

(* BestFit: among the servers with the tags, a slave rather than a master, *)
(* the other way round for PrimaryPreferred, either for Nearest; ping time *)
(* and load decide between servers that are alike.                         *)
BestFit(of, mode, tagged) ==
    LET fit == {i \in of : objs[i].addr \in tagged}
        preferred == {i \in fit : objs[i].master = (mode = "PrimaryPreferred")}
    IN  IF mode = "Nearest" \/ preferred = {} THEN fit ELSE preferred

(* The condition that ends the wait for servers.                           *)
Available(u) ==
    \/ ~(SlaveOk(u) /\ Mode(u) = "Secondary") /\ masters # {}
    \/ SlaveOk(u) /\ servers # masters

Candidates(u) ==
    IF SlaveOk(u) THEN BestFit(servers, Mode(u), C.tagged) ELSE BestFit(masters, Mode(u), Addrs)

AcquireSocket(u) ==
    /\ user[u].pc = "idle"
    /\ user' = [user EXCEPT ![u] = [Outside EXCEPT !.pc = "check"]]
    /\ UNCHANGED <<config, role, objs, cluster, sync, loop, spawned, worker, iter, faults>>

(* A server that fits; none may have the tags, and the call tries again.   *)
selectServer(u) ==
    /\ user[u].pc = "check" /\ Available(u)
    /\ \/ \E i \in Candidates(u) : user' = [user EXCEPT ![u].pc = "server", ![u].srv = i]
       \/ Candidates(u) = {} /\ UNCHANGED user
    /\ UNCHANGED <<config, role, objs, cluster, sync, loop, spawned, worker, iter, faults>>

(* No server yet: an error after the timeout, or after one sync if the     *)
(* user wants to fail fast, else a request to sync and a wait.             *)
awaitSync(u) ==
    /\ user[u].pc = "check" /\ ~Available(u)
    /\ IF user[u].started /\ (user[u].timedOut \/ (C.failFast /\ user[u].synced))
       THEN user' = [user EXCEPT ![u] = Outside] /\ UNCHANGED sync
       ELSE /\ user' = [user EXCEPT ![u].pc = "waiting", ![u].started = TRUE]
            /\ sync' = TRUE
    /\ UNCHANGED <<config, role, objs, cluster, loop, spawned, worker, iter, faults>>

(* syncTimeout passes.                                                     *)
Timeout(u) ==
    /\ user[u].started /\ ~user[u].timedOut
    /\ user' = [user EXCEPT ![u].timedOut = TRUE]
    /\ UNCHANGED <<config, role, objs, cluster, sync, loop, spawned, worker, iter, faults>>

(* server.AcquireSocket fails: the server is dropped and a sync requested. *)
dropServer(u) ==
    LET i == user[u].srv
    IN  /\ user[u].pc = "server"
        /\ \/ (objs[i].closed \/ role[objs[i].addr] = "down") /\ UNCHANGED faults
           \/ faults < C.faults /\ faults' = faults + 1
        /\ removeServer(i)
        /\ sync' = TRUE
        /\ user' = [user EXCEPT ![u].pc = "check", ![u].srv = None]
        /\ UNCHANGED <<config, role, dynaSeeds, references, loop, spawned, worker, iter>>

(* It returns a socket, perhaps a cached one to a server that is gone.  If *)
(* the server lost a connection before, a master has to be confirmed.      *)
takeSocket(u) ==
    LET o == objs[user[u].srv]
    IN  /\ user[u].pc = "server"
        /\ ~o.closed /\ (role[o.addr] # "down" \/ ~o.abended)
        /\ user' = [user EXCEPT ![u].pc = IF o.abended /\ ~SlaveOk(u) THEN "confirm" ELSE "got"]
        /\ UNCHANGED <<config, role, objs, cluster, sync, loop, spawned, worker, iter, faults>>

confirmMaster(u) ==
    LET o == objs[user[u].srv]
    IN  /\ user[u].pc = "confirm"
        /\ \/ /\ ~o.closed /\ role[o.addr] = "primary"
              /\ user' = [user EXCEPT ![u].pc = "got"]
              /\ UNCHANGED <<sync, faults>>
           \/ /\ \/ (o.closed \/ role[o.addr] # "primary") /\ UNCHANGED faults
                 \/ faults < C.faults /\ faults' = faults + 1
              /\ user' = [user EXCEPT ![u].pc = "check", ![u].srv = None]
              /\ sync' = TRUE
        /\ UNCHANGED <<config, role, objs, cluster, loop, spawned, worker, iter>>

(* The session has used its socket and gives it back.                      *)
returnSocket(u) ==
    /\ user[u].pc = "got"
    /\ user' = [user EXCEPT ![u] = Outside]
    /\ UNCHANGED <<config, role, objs, cluster, sync, loop, spawned, worker, iter, faults>>

(* Session.Close.                                                          *)
closeSession(u) ==
    /\ user[u].pc = "idle"
    /\ Release
    /\ user' = [user EXCEPT ![u].pc = "closed"]
    /\ UNCHANGED <<config, role, servers, masters, dynaSeeds, loop, spawned, worker, iter, faults>>

-----------------------------------------------------------------------------
(* The replica set.                                                        *)

ChangeRole(a, r) ==
    /\ faults < C.faults
    /\ r # role[a]
    /\ r = "primary" => \A b \in Addrs : role[b] # "primary"
    /\ role' = [role EXCEPT ![a] = r]
    /\ faults' = faults + 1
    /\ UNCHANGED <<config, objs, cluster, sync, loop, spawned, worker, iter, user>>

(* AbendSocket: a connection of a server that was in use breaks.           *)
AbendSocket(i) ==
    /\ faults < C.faults
    /\ objs[i].used /\ ~objs[i].closed /\ ~objs[i].abended
    /\ objs' = [objs EXCEPT ![i].abended = TRUE]
    /\ sync' = TRUE
    /\ faults' = faults + 1
    /\ UNCHANGED <<config, role, cluster, loop, spawned, worker, iter, user>>

loopStep ==
    \/ syncServersLoop \/ syncServersIteration \/ syncDone \/ updateSeeds
    \/ releaseAfterSync \/ holdOff \/ requested
    \/ \E g \in Goroutines : spawnSync(g)
    \/ \E a \in Addrs : settlePending(a)

workerStep(a) ==
    \/ server(a) \/ syncServer(a) \/ syncFailed(a) \/ decide(a) \/ addFound(a)
    \/ \E timeout \in BOOLEAN : syncServerFails(a, timeout)

userStep(u) == selectServer(u) \/ awaitSync(u) \/ dropServer(u) \/ takeSocket(u) \/ confirmMaster(u)

Next ==
    \/ loopStep \/ scheduled
    \/ \E a \in Addrs : workerStep(a) \/ \E r \in Roles : ChangeRole(a, r)
    \/ \E u \in Users : userStep(u) \/ AcquireSocket(u) \/ Timeout(u) \/ returnSocket(u) \/ closeSession(u)
    \/ \E i \in Ids : AbendSocket(i)

(* Goroutines run and time passes; nothing is assumed of the 30 seconds of *)
(* the scheduled sync, so that a request alone has to bring one about.     *)
Fairness ==
    /\ WF_vars(loopStep)
    /\ \A a \in Addrs : WF_vars(workerStep(a))
    /\ \A u \in Users : WF_vars(userStep(u)) /\ WF_vars(Timeout(u))

Spec == Init /\ [][Next]_vars /\ Fairness

-----------------------------------------------------------------------------
TypeOK ==
    /\ role \in [Addrs -> Roles]
    /\ \A i \in Ids : objs[i].addr \in Addrs /\ objs[i].name \in Names
    /\ servers \subseteq Ids /\ masters \subseteq Ids /\ dynaSeeds \subseteq Names
    /\ references \in 0..Cardinality(C.users) + 1
    /\ sync \in BOOLEAN
    /\ loop \in {"start", "spawn", "sync", "pending", "release", "hold", "wait", "ended"}
    /\ spawned \in [Goroutines -> Nat]
    /\ \A a \in Addrs : worker[a].pc \in {"idle", "server", "try", "remove", "answered", "add", "vouched"}
    /\ \A u \in Users : user[u].pc \in {"idle", "check", "waiting", "server", "confirm", "got", "closed"}
    /\ faults \in 0..C.faults

(* cluster.masters holds the servers of the cluster whose info says they   *)
(* are masters, although addServer only touches it when the info changes   *)
(* and removeServer may take a server out while a sync of it is under way. *)
MastersAreKnown == masters = {i \in servers : objs[i].master}

(* The panic "addServer attempting to add duplicated server" is never      *)
(* reached, whatever names a server is known by and however the goroutines *)
(* of spawnSync and removeServer interleave.                               *)
NoDuplicatedServer ==
    /\ \A a \in Addrs : Cardinality(At(a)) <= 1
    /\ \A a \in Addrs :
         /\ worker[a].pc \in {"add", "vouched"} => At(a) \subseteq {worker[a].srv}
         /\ iter.notYetAdded[a] # None => At(a) \subseteq {iter.notYetAdded[a]}

(* A server gets into the cluster only on its own word that it is a master *)
(* or on a master's word: one that lists it or that it belongs to.         *)
StrangersStayOut ==
    [][\A i \in servers' \ servers :
         C.direct \/ objs'[i].master \/ objs[i].addr \in iter.listed]_vars

(* Once the last session was closed and the loop has ended no server is    *)
(* left open, also none that a sync was adding when the session closed.    *)
AllClosedAtEnd == loop = "ended" => \A i \in Ids : objs[i].used => objs[i].closed

(* A session that waits for servers is woken up: its request to sync is    *)
(* not lost in the channel, also when it comes while a sync is under way,  *)
(* and the sync that follows ends with a broadcast.                        *)
WaitersAreWoken == \A u \in Users : user[u].pc = "waiting" ~> user[u].pc # "waiting"

(* The lists of servers agree, no server is in them twice, and none is     *)
(* left open when the last session is gone.                                *)
ServersAreKept == TypeOK /\ MastersAreKnown /\ NoDuplicatedServer /\ AllClosedAtEnd
====
