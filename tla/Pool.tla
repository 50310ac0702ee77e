-------------------------------- MODULE Pool --------------------------------
(***************************************************************************)
(* The sockets of llmgo (server.go, socket.go, auth.go and the socket      *)
(* handling of session.go): a server's pool of connections, the references *)
(* sessions hold on them, the requests that wait for replies on them and   *)
(* the credentials that are logged in on them.                             *)
(*                                                                         *)
(* One action is what happens under one lock.  Each session is used by one *)
(* goroutine; sessions share a socket after Clone.  There is one server,   *)
(* whose role may change; how a cluster finds its servers is in module     *)
(* Topology.  A login is one request, two with the nonce of MONGODB-CR,    *)
(* or the rounds of a SASL conversation.                                   *)
(***************************************************************************)
EXTENDS Integers, Sequences, FiniteSets, SequencesExt

CONSTANTS
    Sessions,    \* sessions and the goroutines that use them
    Sockets,     \* bound: socket objects in memory
    Creds,       \* credentials, by name: the database they are for
    Scenarios    \* by name: the pool limit, the mode, whether the server is a
                 \* master and logins need a nonce, the rounds of a login, the
                 \* operations used, the credentials each session starts with,
                 \* those the server rejects and, as a bound, how often a
                 \* connection fails or the server's role changes

None == 0
Modes == {"Eventual", "Monotonic", "Strong"}
Ops == {"read", "write", "login", "logout", "refresh", "setMode", "copy", "clone", "new",
        "closeServer", "setInfo", "badRequest"}

ASSUME SocketsAssumption == None \notin Sockets
ASSUME SessionsAssumption == IsFiniteSet(Sessions)
ASSUME ScenariosAssumption ==
    \A n \in DOMAIN Scenarios :
      LET c == Scenarios[n]
      IN  /\ c.limit \in Nat /\ c.mode \in Modes /\ c.master \in BOOLEAN /\ c.classic \in BOOLEAN /\ c.rounds \in Nat \ {0}
          /\ c.faults \in Nat
          /\ c.ops \subseteq Ops /\ c.rejected \subseteq DOMAIN Creds
          /\ \A s \in Sessions : c.creds[s] \in Seq(DOMAIN Creds)
          /\ c.open \subseteq Sessions

VARIABLES
    config,   \* the name of the scenario
    server,   \* MongoServer
    sock,     \* MongoSocket objects, with what is on their connections
    ses,      \* Session
    go,       \* what the goroutine of each session does
    faults,   \* how often the environment failed or changed
    panic     \* a panic the code can raise

vars == <<config, server, sock, ses, go, faults, panic>>

C == Scenarios[config]
Source(c) == Creds[c]

(* replyFuncs holds the goroutines that wait (the replyFunc of resetNonce  *)
(* wakes nobody by itself), wire what was sent and not answered yet, auth  *)
(* the credentials the server has for the connection.  attached is         *)
(* socket.server # nil.  lost is history: the databases whose logout was   *)
(* taken from the list and never sent.                                     *)
NoSocket == [references |-> 0, dead |-> TRUE, attached |-> FALSE, abending |-> FALSE,
             broken |-> FALSE, nonce |-> FALSE, master |-> FALSE, creds |-> {}, logout |-> {},
             replyFuncs |-> {}, wire |-> <<>>, auth |-> {}, lost |-> {}]

(* creds in the order of the logins.  halfOut is history: the databases    *)
(* from which a Logout removed one of several users.                       *)
NewSession == [open |-> TRUE, masterSocket |-> None, slaveSocket |-> None, slaveOk |-> FALSE,
               mode |-> "Strong", creds |-> <<>>, halfOut |-> {}]

(* todo: sockets to Release; back: one to hand to RecycleSocket; pend: the *)
(* credentials still to log in; arg: the argument of Session.Login; cred   *)
(* and req: the credential and the kind of the request under way; flushed: *)
(* what flushLogout returned for it; ret: where a login returns to; cut:   *)
(* the reply was cut short.                                                *)
Idle == [pc |-> "idle", op |-> "none", slaveOk |-> FALSE, sock |-> None, master |-> FALSE,
         pend |-> <<>>, arg |-> "none", cred |-> "none", req |-> "query", round |-> 1, ret |-> "login",
         flushed |-> {}, cut |-> FALSE, todo |-> <<>>, back |-> None]

(* newSession and DialWithInfo for the sessions that are open.             *)
Init ==
    /\ config \in DOMAIN Scenarios
    /\ server = [closed |-> FALSE, master |-> C.master, unused |-> <<>>, live |-> {}, closing |-> {}]
    /\ sock = [k \in Sockets |-> NoSocket]
    /\ ses = [s \in Sessions |->
         [NewSession EXCEPT !.open = s \in C.open, !.creds = C.creds[s],
                            !.mode = C.mode, !.slaveOk = C.mode # "Strong"]]
    /\ go = [s \in Sessions |-> Idle]
    /\ faults = 0
    /\ panic = "none"

-----------------------------------------------------------------------------
(* Sockets: what the methods do to the record of a socket.                 *)

Acquire(k) == [k EXCEPT !.references = @ + 1]

LogoutAll(k) == [k EXCEPT !.logout = @ \cup k.creds, !.creds = {}]

(* Plausible bug: the credentials of the last user are not flagged for     *)
(* logout.                                                                 *)
Release_StaysLoggedIn(k) == [k EXCEPT !.references = @ - 1]

(* Release, up to RecycleSocket: the last reference logs out.  The rest of *)
(* a dead socket does not matter any more.                                 *)
Release(k) ==
    LET r == [k EXCEPT !.references = @ - 1]
    IN  IF r.references > 0 THEN r
        ELSE IF r.dead THEN [NoSocket EXCEPT !.abending = r.abending]
        ELSE LogoutAll(r)

dropAuth(k, db) == [k EXCEPT !.creds = {c \in @ : Source(c) # db}]

(* socket.Logout of some databases: flagged, to be sent later.             *)
Logout(k, dbs) ==
    [k EXCEPT !.logout = @ \cup {c \in k.creds : Source(c) \in dbs},
              !.creds = {c \in @ : Source(c) \notin dbs}]

(* kill: everybody who waits is told (see Told), AbendSocket comes later.  *)
kill(k, abend) ==
    IF k.dead THEN k
    ELSE [k EXCEPT !.dead = TRUE, !.attached = FALSE, !.replyFuncs = {}, !.wire = <<>>,
                   !.auth = {}, !.lost = {}, !.broken = FALSE, !.abending = abend]

(* The goroutines whose replyFunc was called with an error.                *)
Told(gs) ==
    [s \in Sessions |-> IF s \in gs /\ go[s].pc = "wait"
                        THEN [go[s] EXCEPT !.pc = "failed"] ELSE go[s]]

-----------------------------------------------------------------------------
(* The server's pool.                                                      *)

(* A socket is in a list at most once (CachedIsUnused).                    *)
removeSocket(q, k) ==
    IF k \in Range(q) THEN RemoveAt(q, CHOOSE i \in DOMAIN q : q[i] = k) ELSE q

(* The socket objects nobody points to any more.                           *)
Free ==
    {k \in Sockets : /\ sock[k].dead /\ sock[k].references = 0 /\ ~sock[k].abending
                     /\ k \notin server.live \cup Range(server.unused) \cup server.closing
                     /\ \A s \in Sessions : k \notin {go[s].sock, go[s].back}}

(* AcquireSocket under the server's lock.                                  *)
AcquireSocket(s) ==
    LET n == Len(server.unused)
    IN  /\ go[s].pc = "acquire"
        /\ \/ /\ server.closed
              /\ go' = [go EXCEPT ![s].pc = "failed"]
              /\ UNCHANGED server
           \/ /\ ~server.closed
              /\ C.limit = 0 \/ Cardinality(server.live) - n < C.limit
              /\ IF n > 0
                 THEN /\ server' = [server EXCEPT !.unused = Front(@)]
                      /\ go' = [go EXCEPT ![s].pc = "initial", ![s].sock = Last(server.unused),
                                          ![s].master = server.master]
                 ELSE /\ go' = [go EXCEPT ![s].pc = "connect"]
                      /\ UNCHANGED server
        /\ UNCHANGED <<config, sock, ses, faults, panic>>

(* InitialAcquire of a cached socket; a dead one is dropped.               *)
InitialAcquire(s) ==
    LET k == go[s].sock
    IN  /\ go[s].pc = "initial"
        /\ IF sock[k].references > 0
           THEN panic' = "acquired out of cache with references" /\ UNCHANGED <<go, sock>>
           ELSE IF sock[k].dead
           THEN /\ go' = [go EXCEPT ![s].pc = "acquire", ![s].sock = None]
                /\ UNCHANGED <<sock, panic>>
           ELSE /\ sock' = [sock EXCEPT ![k] = [Acquire(@) EXCEPT !.master = go[s].master]]
                /\ go' = [go EXCEPT ![s].pc = "login", ![s].pend = ses[s].creds]
                /\ UNCHANGED panic
        /\ UNCHANGED <<config, server, ses, faults>>

(* Connect and NewSocket, which takes the role the server has by then.     *)
Connect(s) ==
    /\ go[s].pc = "connect"
    /\ \/ /\ Free # {}
          /\ LET k == CHOOSE k \in Free : TRUE
             IN  /\ sock' = [sock EXCEPT ![k] = [NoSocket EXCEPT !.dead = FALSE,
                               !.attached = TRUE, !.references = 1, !.master = server.master]]
                 /\ go' = [go EXCEPT ![s].pc = "append", ![s].sock = k]
          /\ UNCHANGED faults
       \/ /\ faults < C.faults /\ faults' = faults + 1
          /\ go' = [go EXCEPT ![s].pc = "failed"]
          /\ UNCHANGED sock
    /\ UNCHANGED <<config, server, ses, panic>>

(* After Connect: the server may have been closed meanwhile.               *)
appendLive(s) ==
    LET k == go[s].sock
    IN  /\ go[s].pc = "append"
        /\ IF server.closed
           THEN /\ sock' = [sock EXCEPT ![k] = kill(Release(@), FALSE)]
                /\ go' = [go EXCEPT ![s].pc = "failed", ![s].sock = None]
                /\ UNCHANGED server
           ELSE /\ server' = [server EXCEPT !.live = @ \cup {k}]
                /\ go' = [go EXCEPT ![s].pc = "login", ![s].pend = ses[s].creds]
                /\ UNCHANGED sock
        /\ UNCHANGED <<config, ses, faults, panic>>

(* MongoServer.Close, and the Close of each socket after the lock.         *)
Close ==
    /\ "closeServer" \in C.ops /\ ~server.closed
    /\ server' = [server EXCEPT !.closed = TRUE, !.live = {}, !.unused = <<>>, !.closing = server.live]
    /\ UNCHANGED <<config, sock, ses, go, faults, panic>>

closeSocket(k) ==
    /\ k \in server.closing
    /\ server' = [server EXCEPT !.closing = @ \ {k}]
    /\ sock' = [sock EXCEPT ![k] = kill(@, FALSE)]
    /\ go' = Told(sock[k].replyFuncs)
    /\ UNCHANGED <<config, ses, faults, panic>>

AbendSocket(k) ==
    /\ sock[k].abending
    /\ sock' = [sock EXCEPT ![k].abending = FALSE]
    /\ server' = IF server.closed THEN server
                 ELSE [server EXCEPT !.live = @ \ {k}, !.unused = removeSocket(@, k)]
    /\ UNCHANGED <<config, ses, go, faults, panic>>

(* SetInfo: a sync of the cluster finds another role.                      *)
SetInfo ==
    /\ "setInfo" \in C.ops /\ faults < C.faults
    /\ server' = [server EXCEPT !.master = ~@]
    /\ faults' = faults + 1
    /\ UNCHANGED <<config, sock, ses, go, panic>>

-----------------------------------------------------------------------------
(* Requests.                                                               *)

(* What follows once a socket is the session's to use.                     *)
Use(g) == IF g.op = "login" THEN [g EXCEPT !.pc = "loginNew", !.pend = <<g.arg>>]
                            ELSE [g EXCEPT !.pc = "flush", !.req = "query", !.cred = "none"]

(* socket.Login for one credential, up to the request: it may be logged in *)
(* already, or only be flagged for logout.  dropLogout is part of it.      *)
Login(s) ==
    LET k == go[s].sock
        c == Head(go[s].pend)
    IN  /\ go[s].pc \in {"login", "loginNew"} /\ go[s].pend # <<>>
        /\ IF c \in sock[k].creds \cup sock[k].logout
           THEN /\ go' = [go EXCEPT ![s].pend = Tail(@)]
                /\ sock' = [sock EXCEPT ![k].logout = IF c \in sock[k].creds THEN @ ELSE @ \ {c},
                                        ![k].creds = @ \cup {c}]
           ELSE /\ go' = [go EXCEPT ![s].pc = "flush", ![s].ret = go[s].pc, ![s].cred = c, ![s].round = 1,
                                    ![s].pend = Tail(@), ![s].req = IF C.classic THEN "nonce" ELSE "login"]
                /\ UNCHANGED sock
        /\ UNCHANGED <<config, server, ses, faults, panic>>

(* loginClassic: getNonce takes the nonce that the reply has cached.       *)
getNonce(s) ==
    LET k == go[s].sock
    IN  /\ go[s].pc = "getNonce" /\ (sock[k].nonce \/ sock[k].dead)
        /\ sock' = [sock EXCEPT ![k].nonce = FALSE]
        /\ go' = [go EXCEPT ![s].pc = IF sock[k].dead THEN "failed" ELSE "flush", ![s].req = "login"]
        /\ UNCHANGED <<config, server, ses, faults, panic>>

(* The end of Session.Login.                                               *)
loggedIn(s) ==
    /\ go[s].pc = "loginNew" /\ go[s].pend = <<>>
    /\ ses' = [ses EXCEPT ![s].creds = Append(@, go[s].arg)]
    /\ go' = [go EXCEPT ![s].pc = "release"]
    /\ UNCHANGED <<config, server, sock, faults, panic>>

(* Query calls flushLogout before it has the lock it sends under.          *)
flushLogout(s) ==
    LET k == go[s].sock
    IN  /\ go[s].pc = "flush"
        /\ go' = [go EXCEPT ![s].pc = "write", ![s].flushed = {Source(c) : c \in sock[k].logout}]
        /\ sock' = [sock EXCEPT ![k].logout = {}]
        /\ UNCHANGED <<config, server, ses, faults, panic>>

(* What Query serializes for the request under way.                        *)
Request(s) == [kind |-> go[s].req, by |-> s, cred |-> go[s].cred, last |-> go[s].round = C.rounds]

(* Plausible bug: a request is registered without a look at whether the    *)
(* socket died.                                                            *)
Query_Unchecked(s) ==
    LET k == go[s].sock
    IN  /\ go[s].pc = "write"
        /\ sock' = [sock EXCEPT ![k].wire = @ \o <<Request(s)>>, ![k].replyFuncs = @ \cup {s}]
        /\ go' = [go EXCEPT ![s].pc = IF go[s].req = "nonce" THEN "getNonce" ELSE "wait", ![s].flushed = {}]
        /\ UNCHANGED <<config, server, ses, faults, panic>>

(* The rest of Query.  It serializes the logouts and the request, and      *)
(* returns if the document of the request has no BSON.  Under the lock     *)
(* they go out in one write, which fails if the connection is broken:      *)
(* nobody waits for the replyFunc that stays behind then.  A dead socket   *)
(* answers itself.                                                         *)
Query(s) ==
    LET k == go[s].sock
        g == go[s]
        logouts == IF g.flushed = {} THEN <<>> ELSE <<[kind |-> "logout", dbs |-> g.flushed]>>
    IN  /\ g.pc = "write"
        /\ \/ /\ "badRequest" \in C.ops /\ g.req = "query"
              /\ sock' = [sock EXCEPT ![k].lost = @ \cup g.flushed]
              /\ go' = [go EXCEPT ![s].pc = "failed", ![s].flushed = {}]
              /\ UNCHANGED faults
           \/ /\ sock[k].dead
              /\ go' = [go EXCEPT ![s].pc = "failed", ![s].flushed = {}]
              /\ UNCHANGED <<sock, faults>>
           \/ /\ ~sock[k].dead /\ ~sock[k].broken
              /\ sock' = [sock EXCEPT ![k].wire = @ \o logouts \o <<Request(s)>>,
                                      ![k].replyFuncs = IF g.req = "nonce" THEN @ ELSE @ \cup {s}]
              /\ go' = [go EXCEPT ![s].pc = IF g.req = "nonce" THEN "getNonce" ELSE "wait", ![s].flushed = {}]
              /\ UNCHANGED faults
           \/ /\ ~sock[k].dead
              /\ IF sock[k].broken THEN UNCHANGED faults ELSE faults < C.faults /\ faults' = faults + 1
              /\ sock' = [sock EXCEPT ![k].broken = TRUE]
              /\ go' = [go EXCEPT ![s].pc = "failed", ![s].flushed = {}]
        /\ UNCHANGED <<config, server, ses, panic>>

(* The connection after the server has processed a request.                *)
Processed(k, m) ==
    [k EXCEPT !.wire = Tail(@),
              !.lost = IF m.kind = "logout" THEN @ \ m.dbs
                       ELSE IF m.kind \in {"query", "nonce"} \/ m.cred \in C.rejected \/ ~m.last THEN @
                       ELSE @ \ {Source(m.cred)},
              !.auth = IF m.kind = "logout" THEN {c \in @ : Source(c) \notin m.dbs}
                       ELSE IF m.kind \in {"query", "nonce"} \/ m.cred \in C.rejected \/ ~m.last THEN @
                       ELSE {c \in @ : Source(c) # Source(m.cred)} \cup {m.cred}]

(* What a login that succeeds leaves, by whatever mechanism.               *)
keepCred(k, c) == [dropAuth(k, Source(c)) EXCEPT !.creds = @ \cup {c}]

(* readLoop takes a reply and calls its replyFunc: that of a login keeps   *)
(* the credential, that of resetNonce the nonce; a logout has none.        *)
readReply(k) ==
    LET m == Head(sock[k].wire)
        r == [Processed(sock[k], m) EXCEPT !.replyFuncs = IF m.kind \in {"logout", "nonce"} THEN @ ELSE @ \ {m.by},
                                           !.nonce = @ \/ m.kind = "nonce"]
        accepted == m.kind = "login" /\ m.cred \notin C.rejected
    IN  /\ ~sock[k].dead /\ ~sock[k].broken /\ sock[k].wire # <<>>
        /\ sock' = [sock EXCEPT ![k] =
             IF accepted /\ m.last THEN keepCred(r, m.cred) ELSE r]
        /\ go' = IF m.kind \in {"logout", "nonce"} THEN go
                 ELSE IF accepted /\ m.last
                 THEN [go EXCEPT ![m.by].pc = go[m.by].ret]
                 ELSE IF accepted THEN [go EXCEPT ![m.by].pc = "flush", ![m.by].round = @ + 1]
                 ELSE [go EXCEPT ![m.by].pc = IF m.kind = "query" THEN "release" ELSE "failed"]
        /\ panic' = IF m.kind = "nonce" /\ sock[k].nonce THEN "nonce already cached" ELSE panic
        /\ UNCHANGED <<config, server, ses, faults>>

(* readLoop has the header of a reply and with it has taken the replyFunc  *)
(* out of the map, then the connection ends: nobody calls it.              *)
readCut(k) ==
    LET m == Head(sock[k].wire)
        gone == IF m.kind = "nonce" THEN {} ELSE {m.by}
    IN  /\ ~sock[k].dead /\ ~sock[k].broken /\ sock[k].wire # <<>>
        /\ m.kind # "logout"
        /\ faults < C.faults /\ faults' = faults + 1
        /\ sock' = [sock EXCEPT ![k] = kill(Processed(@, m), TRUE)]
        /\ go' = [s \in Sessions |-> IF s \in gone THEN [go[s] EXCEPT !.cut = TRUE]
                                     ELSE Told(sock[k].replyFuncs)[s]]
        /\ UNCHANGED <<config, server, ses, panic>>

(* readLoop fails to read a header.                                        *)
readFails(k) ==
    /\ ~sock[k].dead
    /\ IF sock[k].broken THEN UNCHANGED faults ELSE faults < C.faults /\ faults' = faults + 1
    /\ sock' = [sock EXCEPT ![k] = kill(@, TRUE)]
    /\ go' = Told(sock[k].replyFuncs)
    /\ UNCHANGED <<config, server, ses, panic>>

-----------------------------------------------------------------------------
(* Sessions.                                                               *)

(* The sockets unsetSocket releases.                                       *)
Reserved(s) ==
    LET reserved(k) == IF k = None THEN <<>> ELSE <<k>>
    IN  reserved(ses[s].masterSocket) \o reserved(ses[s].slaveSocket)
Unset(r) == [r EXCEPT !.masterSocket = None, !.slaveSocket = None]

(* The goroutine g with sockets to release, and without any left.          *)
Releasing(g, ks) == [g EXCEPT !.pc = IF ks = <<>> THEN "idle" ELSE "releasing", !.todo = ks]
Rest(g) == IF g.todo = <<>> /\ g.back = None THEN Idle ELSE g

(* An operation begins with AcquireSocketPrivate: a reserved socket if it  *)
(* suits, else one from the cluster, once that has a server for it.        *)
AcquireSocketPrivate(s, op) ==
    LET slaveOk == op # "write"
        r == ses[s]
        slave == r.slaveSocket # None /\ r.slaveOk /\ slaveOk
                   /\ (r.masterSocket = None \/ r.mode # "Monotonic")
        k == IF slave THEN r.slaveSocket ELSE r.masterSocket
        g == [Idle EXCEPT !.op = op, !.slaveOk = slaveOk]
    IN  /\ r.open /\ go[s].pc = "idle" /\ op \in C.ops \cap {"read", "write", "login"}
        /\ \E c \in IF op = "login" THEN DOMAIN Creds \ Range(r.creds) ELSE {"none"} :
             IF k # None
             THEN /\ sock' = [sock EXCEPT ![k] = Acquire(@)]
                  /\ go' = [go EXCEPT ![s] = Use([g EXCEPT !.sock = k, !.arg = c])]
             ELSE /\ (slaveOk /\ r.slaveOk) \/ server.master
                  /\ go' = [go EXCEPT ![s] = [g EXCEPT !.arg = c, !.pc = "acquire"]]
                  /\ UNCHANGED sock
        /\ UNCHANGED <<config, server, ses, faults, panic>>

(* The end of AcquireSocketPrivate: setSocket reserves the socket for the  *)
(* session, under the role it was acquired with.                           *)
setSocket(s) ==
    LET k == go[s].sock
        r == ses[s]
        taken == IF sock[k].master THEN r.masterSocket ELSE r.slaveSocket
        keep == r.mode # "Eventual" \/ r.slaveSocket # None
        kept == IF ~keep THEN r
                ELSE IF sock[k].master THEN [r EXCEPT !.masterSocket = k]
                ELSE [r EXCEPT !.slaveSocket = k]
    IN  /\ go[s].pc = "login" /\ go[s].pend = <<>>
        /\ IF keep /\ taken # None
           THEN panic' = "setSocket with existing socket reserved" /\ UNCHANGED <<sock, ses, go>>
           ELSE /\ sock' = IF keep THEN [sock EXCEPT ![k] = Acquire(@)] ELSE sock
                /\ ses' = [ses EXCEPT ![s] =
                     IF ~go[s].slaveOk /\ r.mode = "Monotonic" THEN [kept EXCEPT !.slaveOk = FALSE] ELSE kept]
                /\ go' = [go EXCEPT ![s] = Use(@)]
                /\ UNCHANGED panic
        /\ UNCHANGED <<config, server, faults>>

(* The operation is over: its socket is released.                          *)
finish(s) ==
    /\ go[s].pc \in {"release", "failed"}
    /\ go' = [go EXCEPT ![s] = Releasing(Idle, IF go[s].sock = None THEN <<>> ELSE <<go[s].sock>>)]
    /\ UNCHANGED <<config, server, sock, ses, faults, panic>>

(* Plausible bug: a socket goes back to the cache whoever else holds it.   *)
releaseNext_AlwaysRecycles(s) ==
    LET k == Head(go[s].todo)
        g == [go[s] EXCEPT !.todo = Tail(@), !.back = IF sock[k].attached THEN k ELSE None]
    IN  /\ go[s].pc = "releasing" /\ go[s].back = None /\ go[s].todo # <<>>
        /\ sock' = [sock EXCEPT ![k] = Release(@)]
        /\ go' = [go EXCEPT ![s] = Rest(g)]
        /\ UNCHANGED <<config, server, ses, faults, panic>>

(* socket.Release.                                                         *)
releaseNext(s) ==
    LET k == Head(go[s].todo)
        r == Release(sock[k])
        g == [go[s] EXCEPT !.todo = Tail(@),
                           !.back = IF r.references = 0 /\ r.attached THEN k ELSE None]
    IN  /\ go[s].pc = "releasing" /\ go[s].back = None /\ go[s].todo # <<>>
        /\ IF sock[k].references = 0
           THEN panic' = "Release with references = 0" /\ UNCHANGED <<sock, go>>
           ELSE /\ sock' = [sock EXCEPT ![k] = r]
                /\ go' = [go EXCEPT ![s] = Rest(g)]
                /\ UNCHANGED panic
        /\ UNCHANGED <<config, server, ses, faults>>

(* It goes back to the cache, whatever happened to it since.               *)
RecycleSocket(s) ==
    /\ go[s].back # None
    /\ server' = IF server.closed THEN server ELSE [server EXCEPT !.unused = Append(@, go[s].back)]
    /\ go' = [go EXCEPT ![s] = Rest([@ EXCEPT !.back = None])]
    /\ UNCHANGED <<config, sock, ses, faults, panic>>

(* New, Copy and Clone: copySession references the reserved sockets; all   *)
(* but Clone refresh the copy.                                             *)
copySession(s, t, op) ==
    LET r == [ses[s] EXCEPT !.creds = IF op = "new" THEN C.creds[s] ELSE @,
                            !.halfOut = IF op = "new" THEN {} ELSE @]
    IN  /\ ses[s].open /\ ~ses[t].open /\ go[t].pc = "idle"
        /\ op \in C.ops \cap {"new", "copy", "clone"}
        /\ sock' = [k \in Sockets |-> IF k \in Range(Reserved(s)) THEN Acquire(sock[k]) ELSE sock[k]]
        /\ IF op = "clone"
           THEN ses' = [ses EXCEPT ![t] = r] /\ UNCHANGED go
           ELSE /\ ses' = [ses EXCEPT ![t] = [Unset(r) EXCEPT !.slaveOk = r.mode # "Strong"]]
                /\ go' = [go EXCEPT ![t] = Releasing(Idle, Reserved(s))]
        /\ UNCHANGED <<config, server, faults, panic>>

(* Refresh, and SetMode with refresh; SetMode without it keeps sockets.    *)
Refresh(s, mode) ==
    /\ ses[s].open /\ go[s].pc = "idle"
    /\ IF mode = ses[s].mode THEN "refresh" \in C.ops ELSE "setMode" \in C.ops
    /\ ses' = [ses EXCEPT ![s] = [Unset(@) EXCEPT !.mode = mode, !.slaveOk = mode # "Strong"]]
    /\ go' = [go EXCEPT ![s] = Releasing(Idle, Reserved(s))]
    /\ UNCHANGED <<config, server, sock, faults, panic>>

SetMode(s, mode) ==
    /\ ses[s].open /\ go[s].pc = "idle" /\ "setMode" \in C.ops
    /\ ses' = [ses EXCEPT ![s].mode = mode,
                          ![s].slaveOk = mode # "Strong" /\ (@ \/ ses[s].masterSocket = None)]
    /\ UNCHANGED <<config, server, sock, go, faults, panic>>

(* What a logout from the databases dbs leaves of a session and its        *)
(* sockets: the credentials q, and the databases half that it is half out  *)
(* of.                                                                     *)
LoggedOut(s, dbs, q, half) ==
    /\ ses' = [ses EXCEPT ![s].creds = q, ![s].halfOut = half]
    /\ sock' = [k \in Sockets |-> IF k \in Range(Reserved(s)) THEN Logout(sock[k], dbs) ELSE sock[k]]

(* Database.Logout, which removes the first credential that the session    *)
(* has for the database, and Session.LogoutAll.                            *)
LogoutSession(s) ==
    LET q == ses[s].creds
        all == {Source(c) : c \in Range(q)}
    IN  /\ ses[s].open /\ go[s].pc = "idle" /\ "logout" \in C.ops
        /\ \/ \E i \in DOMAIN q :
                LET same == {j \in DOMAIN q : Source(q[j]) = Source(q[i])}
                IN  /\ \A j \in same : i <= j
                    /\ LoggedOut(s, {Source(q[i])}, RemoveAt(q, i),
                                 IF same = {i} THEN ses[s].halfOut \ {Source(q[i])} ELSE ses[s].halfOut \cup {Source(q[i])})
           \/ q # <<>> /\ LoggedOut(s, all, <<>>, {})
        /\ UNCHANGED <<config, server, go, faults, panic>>

CloseSession(s) ==
    /\ ses[s].open /\ go[s].pc = "idle"
    /\ ses' = [ses EXCEPT ![s] = [NewSession EXCEPT !.open = FALSE]]
    /\ go' = [go EXCEPT ![s] = Releasing(Idle, Reserved(s))]
    /\ UNCHANGED <<config, server, sock, faults, panic>>

Step(s) ==
    \/ AcquireSocket(s) \/ InitialAcquire(s) \/ Connect(s) \/ appendLive(s) \/ Login(s) \/ getNonce(s) \/ loggedIn(s)
    \/ setSocket(s) \/ flushLogout(s) \/ Query(s) \/ finish(s) \/ releaseNext(s) \/ RecycleSocket(s)

Begin(s) ==
    \/ \E op \in {"read", "write", "login"} : AcquireSocketPrivate(s, op)
    \/ \E t \in Sessions, op \in {"new", "copy", "clone"} : copySession(s, t, op)
    \/ \E mode \in Modes : Refresh(s, mode) \/ SetMode(s, mode)
    \/ LogoutSession(s) \/ CloseSession(s)

Next ==
    \/ \E s \in Sessions : Step(s) \/ Begin(s)
    \/ \E k \in Sockets : closeSocket(k) \/ AbendSocket(k) \/ readReply(k) \/ readCut(k) \/ readFails(k)
    \/ Close \/ SetInfo

Spec == Init /\ [][Next]_vars

-----------------------------------------------------------------------------
(* Who holds references on a socket: its users, the sessions that reserve  *)
(* it and those about to release it.                                       *)
Holders(k) ==
    Cardinality({s \in Sessions : go[s].sock = k /\ go[s].pc # "initial"})
      + Cardinality({s \in Sessions : ses[s].masterSocket = k})
      + Cardinality({s \in Sessions : ses[s].slaveSocket = k})
      + Cardinality({x \in Sessions \X (1..2) : x[2] \in DOMAIN go[x[1]].todo /\ go[x[1]].todo[x[2]] = k})

Alone(s, k) == \A t \in Sessions \ {s} : k \notin {go[t].sock, ses[t].masterSocket, ses[t].slaveSocket}

TypeOK ==
    /\ server.live \subseteq Sockets /\ Range(server.unused) \subseteq Sockets
    /\ server.closing \subseteq Sockets
    /\ \A k \in Sockets :
         /\ sock[k].references \in Nat
         /\ sock[k].creds \cup sock[k].logout \cup sock[k].auth \subseteq DOMAIN Creds
         /\ sock[k].replyFuncs \subseteq Sessions
    /\ \A s \in Sessions :
         /\ {ses[s].masterSocket, ses[s].slaveSocket, go[s].sock, go[s].back} \subseteq Sockets \cup {None}
         /\ ses[s].mode \in Modes /\ Range(ses[s].creds) \subseteq DOMAIN Creds
    /\ faults \in 0..C.faults

(* No panic of InitialAcquire, Release or setSocket is reached.            *)
NoPanic == panic = "none"

(* The count of references of a socket is that of its holders, so that it  *)
(* goes back to the pool when the last one is gone and not before.         *)
ReferencesAreHeld == \A k \in Sockets : sock[k].references = Holders(k)

(* A cached socket is in the cache once and nobody uses it: two goroutines *)
(* never get the same socket from the pool, also if a failure of it is     *)
(* noticed while it is being released or acquired.                         *)
CachedIsUnused ==
    /\ \A i, j \in DOMAIN server.unused : server.unused[i] = server.unused[j] => i = j
    /\ \A k \in Range(server.unused) :
         Holders(k) = 0 /\ \A s \in Sessions : k \notin {go[s].sock, go[s].back}

(* The server is about to run a request of the session t, which has the    *)
(* socket k for itself.                                                    *)
Runs(t, k) ==
    /\ ~sock[k].dead /\ ~sock[k].broken /\ sock[k].wire # <<>>
    /\ LET m == Head(sock[k].wire) IN m.kind = "query" /\ m.by = t
    /\ Alone(t, k)

(* The users that a session has logged in as: the last one of each         *)
(* database.                                                               *)
Users(r) ==
    {r.creds[i] : i \in {i \in DOMAIN r.creds :
                           \A j \in DOMAIN r.creds : Source(r.creds[j]) = Source(r.creds[i]) => j <= i}}

(* A request of a session that has a socket for itself runs as the users   *)
(* of that session and nobody else, whoever used the socket before: what   *)
(* they had is logged out, or taken over, before the request.  Two things  *)
(* the code gets wrong are left out: the databases whose logout was lost   *)
(* (see LogoutsAreSent), and those a session is half logged out of (see    *)
(* LogoutRemoves), which a request may find without its user.              *)
RunsAsSession ==
    \A t \in Sessions, k \in Sockets :
      Runs(t, k) =>
        /\ \A c \in sock[k].auth : c \in Range(ses[t].creds) \/ Source(c) \in sock[k].lost
        /\ \A c \in Users(ses[t]) : c \in sock[k].auth \/ Source(c) \in ses[t].halfOut

(* "Logouts are properly flushed if they are not revalidated after leaving *)
(* the pool", says the test of the logins that are cached: no request runs *)
(* as a user its session is not.  A request whose document has no BSON     *)
(* takes the logouts with it when Query gives up.                          *)
LogoutsAreSent ==
    \A t \in Sessions, k \in Sockets : Runs(t, k) => sock[k].auth \subseteq Range(ses[t].creds)

(* "Logout removes any established authentication credentials for the      *)
(* database": a session that logs out of a database keeps no user of it.   *)
(* The loop of Database.Logout ends at the first one.                      *)
LogoutRemoves ==
    [][\A s \in Sessions :
         \A c \in Range(ses[s].creds) \ Range(ses'[s].creds), d \in Range(ses'[s].creds) : Source(c) # Source(d)]_vars

(* Whoever waits for a reply will be told something: the request is known  *)
(* to a socket that is alive and whose readLoop will answer it or fail.    *)
(* The exception is a reply that is cut short after its header.            *)
NoForgottenWaiter ==
    \A s \in Sessions :
      go[s].pc = "wait" =>
        \/ go[s].cut
        \/ ~sock[go[s].sock].dead /\ s \in sock[go[s].sock].replyFuncs

(* Once the server was closed, every socket is, but for one that a         *)
(* goroutine is just connecting.                                           *)
ClosedClosesAll ==
    server.closed =>
      \A k \in Sockets : sock[k].dead \/ k \in server.closing \/ \E s \in Sessions : go[s].pc = "append" /\ go[s].sock = k

(* The bookkeeping of sockets: references, the cache, the sessions that    *)
(* reserve them and the server that was closed agree.                      *)
SocketsAreKept ==
    TypeOK /\ NoPanic /\ ReferencesAreHeld /\ CachedIsUnused /\ ClosedClosesAll
====
