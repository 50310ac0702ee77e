------------------------------- MODULE MCPool -------------------------------
(* Instances of Pool: two sessions, two users of one database and one of   *)
(* another.                                                                *)
EXTENDS Pool

MCCreds == [ann |-> "db", bob |-> "db", cyd |-> "other"]
Base == [limit |-> 0, mode |-> "Strong", master |-> TRUE, classic |-> FALSE, rounds |-> 1, ops |-> {"read", "refresh"},
         creds |-> [s1 |-> <<"ann">>, s2 |-> <<"bob">>], rejected |-> {}, open |-> {"s1", "s2"}, faults |-> 1]
Same == [s1 |-> <<"ann">>, s2 |-> <<"ann">>]
Nobody == [s1 |-> <<>>, s2 |-> <<>>]

(* turns: sessions of different users on the same sockets.                 *)
(* closing: the server is closed under two sessions.                       *)
(* pooled: Eventual sessions and a limit of one; the role changes.         *)
(* accounts: one session logs in and out, the server does not know bob.    *)
(* family: copies of a session that share its socket or not.               *)
(* monotonic: reads from a slave, changes of the mode.                     *)
(* users: one session as several users of a database, and a pool whose     *)
(* next session sends a document that has no BSON.                         *)
MCScenarios ==
    [turns |-> [Base EXCEPT !.ops = @ \cup {"badRequest"}],
     closing |-> [Base EXCEPT !.ops = {"read", "closeServer"}, !.creds = Nobody],
     pooled |-> [Base EXCEPT !.limit = 1, !.mode = "Eventual", !.ops = {"read", "setInfo"}, !.faults = 2],
     accounts |-> [Base EXCEPT !.classic = TRUE, !.open = {"s1"}, !.rejected = {"bob"}, !.ops = {"read", "login", "logout", "refresh"}],
     family |-> [Base EXCEPT !.rounds = 2,
                    !.open = {"s1"}, !.creds = Same, !.ops = {"write", "new", "copy", "clone"}],
     monotonic |-> [Base EXCEPT !.mode = "Monotonic", !.master = FALSE, !.open = {"s1"}, !.creds = Nobody,
                                !.ops = {"read", "write", "setMode"}, !.faults = 2],
     users |-> [Base EXCEPT !.open = {"s1"}, !.creds = Nobody, !.faults = 0,
                            !.ops = {"read", "login", "logout", "refresh", "badRequest"}]]
====
