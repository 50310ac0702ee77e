----------------------------- MODULE MCPlayback -----------------------------
(* Instances of Playback for TLC.                                          *)
EXTENDS Playback, TLC

CONSTANTS k1, k2

(* An invocation with one cursor, used by getMores.                        *)
Case(ops, repeat, pre, faults) ==
    [cursors |-> {k1}, useLists |-> {<<k1>>}, maxOps |-> ops, repeat |-> repeat, preprocess |-> pre, faults |-> faults]

(* With two cursors and killCursors of both.                               *)
KillCase ==
    [Case(5, 1, TRUE, {}) EXCEPT !.cursors = {k1, k2}, !.useLists = {<<k1>>, <<k2>>, <<k1, k2>>, <<k2, k1>>}]

(* Generations whose replies expire are among them.                        *)
SafetyCases ==
    {Case(5, 1, TRUE, {"connect", "nocursor", "expiry"}), Case(4, 1, TRUE, AllFaults), KillCase,
     Case(4, 2, TRUE, {"expiry"}), Case(4, 2, FALSE, {"expiry"})}

(* Those that must end.                                                    *)
EndCases == {Case(4, 1, TRUE, {}), Case(4, 1, FALSE, {}), Case(3, 2, TRUE, {})}

MCSymmetry == Permutations(Conns)

=============================================================================
