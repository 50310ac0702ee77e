----------------------------- MODULE MCTopology -----------------------------
(* Instances of Topology: two servers and up to two sessions.              *)
EXTENDS Topology, TLC

MCAddrs == {"h1", "h2"}
MCNames == {"h1", "h2", "alias1", "nowhere"}
Resolve == [n \in MCNames \ {"nowhere"} |-> IF n = "h2" THEN "h2" ELSE "h1"]
Healthy == [resolve |-> Resolve, seeds |-> {"h2"}, hosts |-> [a \in MCAddrs |-> {"h1", "h2"}],
            set |-> MCAddrs, tagged |-> MCAddrs, direct |-> FALSE, failFast |-> FALSE,
            role |-> [h1 |-> "primary", h2 |-> "secondary"],
            users |-> {"u1"}, mode |-> [u1 |-> "Primary", u2 |-> "SecondaryPreferred"],
            slaveOk |-> [u1 |-> FALSE, u2 |-> TRUE], faults |-> 1]

(* failover: the seed is a slave, the master names itself and its slave.   *)
(* aliases: the seeds name one server twice.                               *)
(* removed: a former member still reports the others, who forgot it.       *)
(* both: two sessions; direct: one server, a slave that is recovering.     *)
(* untagged: no server has the tags the session asks for.                  *)
MCScenarios ==
    [failover |-> Healthy,
     aliases |-> [Healthy EXCEPT !.seeds = {"h1", "alias1"}, !.users = {"u2"}, !.faults = 0],
     removed |-> [Healthy EXCEPT !.seeds = {"h1", "h2", "nowhere"}, !.hosts = [h1 |-> {"h1"}, h2 |-> {"h1", "h2"}],
                                 !.failFast = TRUE, !.users = {"u2"}, !.mode.u2 = "Secondary"],
     both |-> [Healthy EXCEPT !.seeds = {"h1"}, !.users = {"u1", "u2"}, !.faults = 0],
     direct |-> [Healthy EXCEPT !.seeds = {"h2"}, !.direct = TRUE, !.role.h2 = "other"],
     untagged |-> [Healthy EXCEPT !.users = {"u2"}, !.tagged = {}, !.faults = 0]]
====
