----------------------------- MODULE MCGridFS -----------------------------
(* Small instances of module GridFS.                                       *)
EXTENDS GridFS

S(size, pending, total, length) ==
    [chunkSize |-> size, maxPending |-> pending, writes |-> {1, 2, 5}, reads |-> {1, 3}, total |-> total,
     length |-> length, ops |-> 0, faults |-> 2, aborts |-> TRUE, removes |-> FALSE, lost |-> TRUE,
     badId |-> FALSE]

MCScenarios ==
    [write2 |-> S(2, 2, 7, 0), write3 |-> S(3, 1, 7, 0), write1 |-> S(1, 3, 4, 0),
     writeRead |-> [S(2, 2, 3, 0) EXCEPT !.ops = 2, !.removes = TRUE, !.faults = 1],
     read4 |-> [S(2, 1, 0, 4) EXCEPT !.ops = 4], read5 |-> [S(2, 1, 0, 5) EXCEPT !.ops = 4],
     badId |-> [S(2, 2, 7, 0) EXCEPT !.badId = TRUE],
     remove |-> [S(2, 1, 0, 5) EXCEPT !.ops = 2, !.removes = TRUE]]
=============================================================================
