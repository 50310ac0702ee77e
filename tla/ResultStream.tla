---------------------------- MODULE ResultStream ----------------------------
(***************************************************************************)
(* What an iterator promises to those who call Next, however many batches  *)
(* the documents come in and whenever these are requested: every document  *)
(* of the result set once and in order, and an end without an error only   *)
(* after the last one, or after as many as the limit allows.  Once         *)
(* something failed documents may be missing, and the end is an error.     *)
(***************************************************************************)
EXTENDS Naturals, Sequences

VARIABLES
    docs,      \* the result set: documents may be added to it at its end
    limit,     \* how many documents are asked for, 0 for all
    returned,  \* the documents Next returned, oldest first
    closed,    \* Close was called before the end
    failed,    \* something failed before that
    ended      \* what Next returned false for: "no", "exhausted" (Err is nil)
               \* or "error"

streamVars == <<docs, limit, returned, closed, failed, ended>>

Wanted == IF limit > 0 /\ limit < Len(docs) THEN limit ELSE Len(docs)

(* The position of the document returned last: documents are distinct.     *)
Position ==
    IF returned = <<>> THEN 0
    ELSE CHOOSE i \in DOMAIN docs : docs[i] = returned[Len(returned)]

Init == returned = <<>> /\ closed = FALSE /\ failed = FALSE /\ ended = "no"

Grow ==
    /\ Len(docs') > Len(docs) /\ SubSeq(docs', 1, Len(docs)) = docs
    /\ UNCHANGED <<limit, returned, closed, failed, ended>>

(* Documents that had been received are still returned after a Close or a  *)
(* failure.                                                                *)
Return ==
    /\ ended # "exhausted" /\ Len(returned) < Wanted
    /\ \E i \in DOMAIN docs :
          /\ i = Position + 1 \/ (failed' /\ i > Position)
          /\ returned' = Append(returned, docs[i])
    /\ failed' \in {failed, TRUE}
    /\ UNCHANGED <<docs, limit, closed, ended>>

Close == closed' = TRUE /\ failed' = FALSE /\ UNCHANGED <<docs, limit, returned, ended>>

Exhaust ==
    /\ ended = "no" /\ ~failed /\ (closed \/ Len(returned) = Wanted)
    /\ ended' = "exhausted"
    /\ UNCHANGED <<docs, limit, returned, closed, failed>>

Fail ==
    /\ failed' = ~closed /\ ended' \in {ended, "error"}
    /\ UNCHANGED <<docs, limit, returned, closed>>

Next == Grow \/ Return \/ Close \/ Exhaust \/ Fail

Spec == Init /\ [][Next]_streamVars
=============================================================================
