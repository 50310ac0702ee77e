----------------------------- MODULE Collection -----------------------------
(***************************************************************************)
(* A program that writes to a collection with llmgo and then reads it: the *)
(* writes of module Writes followed by the iteration of module Cursor over *)
(* what the server then holds.                                             *)
(***************************************************************************)
EXTENDS Integers, Sequences, FiniteSets, SequencesExt

CONSTANTS
    Callers,      \* the goroutines that use the iterator
    QueueCap,     \* the capacity a queue gets first, 8 in the code
    BatchMax,     \* documents in one insert command, 1000 in the code
    Plans,        \* the ways to write
    Queries       \* the ways to read

VARIABLES
    plan, collection, bulk, writer, applied, told, wfaults,
    query, stored, iter, app, wire, replies, cursor, returned, closed, ended, faults, panic, astray,
    reading       \* the iteration has begun

W == INSTANCE Writes
R == INSTANCE Cursor

writing == <<plan, collection, bulk, writer, applied, told, wfaults>>
iterating == <<query, stored, iter, app, wire, replies, cursor, returned, closed, ended, faults, panic, astray>>
vars == <<writing, iterating, reading>>

ASSUME CapsAssumption == QueueCap \in Nat \ {0} /\ BatchMax \in Nat \ {0}
Ops == {"insert", "update", "updateAll", "upsert", "remove", "removeAll"}
Documents == Nat \ {0}
ASSUME PlansAssumption ==
    \A p \in Plans :
      /\ p.calls \in Seq([op : Ops, doc : Documents])
      /\ p.there \subseteq Documents /\ IsFiniteSet(p.there)
      /\ {p.ordered, p.safe, p.command, p.single} \subseteq BOOLEAN /\ p.faults \in Nat
      /\ ~p.single => \A i, j \in DOMAIN p.calls : i # j => p.calls[i] # p.calls[j]
ASSUME QueriesAssumption ==
    \A q \in Queries :
      /\ q.kind \in {"find", "tail", "command"} /\ q.prefetch \in 0..4 /\ q.faults \in Nat
      /\ q.batch \in Nat /\ q.limit \in Int
      /\ q.kind # "find" => q.limit = 0
      /\ {q.fails, q.dies, q.cuts} \subseteq BOOLEAN
      /\ \A c \in Callers : q.plan[c] \in -2..5
      /\ \E c \in Callers : q.plan[c] # -1

Init ==
    /\ \E p \in Plans, q \in Queries :
         /\ p.read = q.after
         /\ plan = p /\ collection = p.there /\ wfaults = p.faults
         /\ query = q /\ faults = q.faults
    /\ W!Init /\ R!Init /\ stored = <<>> /\ reading = FALSE

(* The documents that match, in the order of the collection.               *)
InOrder(S) == [i \in 1..Cardinality(S) |-> CHOOSE d \in S : Cardinality({e \in S : e <= d}) = i]

StartReading ==
    /\ writer = "done" /\ ~reading
    /\ reading' = TRUE
    /\ stored' = InOrder(collection)
    /\ UNCHANGED <<writing, query, iter, app, wire, replies, cursor, returned, closed, ended, faults, panic, astray>>

(* The program has come to its end; or a caller of Next waits that a       *)
(* failing getMore did not wake up.                                        *)
Ends == (reading /\ R!Finished) \/ writer = "crashed"
Strands ==
    /\ reading /\ "unwoken" \in astray
    /\ \A c \in Callers : app[c].pc \in {"wait", "done"}

Done == (Ends \/ Strands) /\ UNCHANGED vars

Step ==
    \/ W!Next /\ UNCHANGED <<iterating, reading>>
    \/ StartReading
    \/ reading /\ R!Next /\ UNCHANGED <<writing, reading>>

Next == Step \/ Done

Fairness == WF_vars(Step)
Spec == Init /\ [][Next]_vars /\ Fairness

-----------------------------------------------------------------------------
(* The types of both halves.                                               *)
TypeOK == W!TypeOK /\ R!TypeOK /\ reading \in BOOLEAN

(* A bulk or a single write reports what it did: an ordered bulk was       *)
(* carried out in order and up to the first failure, no error means that   *)
(* everything was done, an unordered one reports each error of each batch, *)
(* ErrNotFound and a nil error of Update, Upsert and Remove are true.      *)
WritesTellTheTruth ==
    /\ W!OrderedIsPrefix /\ W!SuccessMeansApplied /\ W!AllErrorsAreReported
    /\ W!SinglesTellTheTruth

(* No request asks for more documents than the limit, which would in the   *)
(* end be the panic "data remains after limit exhausted", unless Batch is  *)
(* beyond the limit or a reply was cut while getMore was under way; and    *)
(* neither Close nor the end of the iteration leaves a cursor open at the  *)
(* server when nothing failed, unless Close came before the first reply.   *)
(* Until a batch beyond the limit or a cut reply has upset them, the       *)
(* counts have their types: no more documents come than were expected.     *)
CursorsAreKept == (R!Regular => TypeOK) /\ R!LimitIsExact /\ R!CursorIsReleased

(* The iteration implements ResultStream: every document once, in order,   *)
(* and an end without an error only at the end; until a batch beyond the   *)
(* limit comes or a reply is cut while getMore is under way, and but for   *)
(* the end of a failing query with a limit of 1.                           *)
ImplementsStream == R!ImplementsStream

(* The program finishes: whoever waits in Next is woken up in the end,     *)
(* unless a getMore failed while it waited.  (Two programs are left out:   *)
(* one that follows a tailable cursor need not finish, and one may be      *)
(* ended by the panic of LimitIsExact or that of a dying connection.)      *)
ProgramEnds == (query.kind # "tail") ~> (Ends \/ Strands)

(* What was inserted, by a bulk or one by one, and not removed again is in *)
(* what an iteration that ended by itself and without an error returned,   *)
(* in one batch or several, unless a reply was cut while getMore was under *)
(* way.                                                                    *)
WrittenIsRead ==
    ended = "exhausted" /\ ~closed /\ query.limit = 0 /\ "cut" \notin astray =>
      \A i \in DOMAIN applied :
        \/ applied[i].op # "insert"
        \/ applied[i].doc \in ToSet(returned)
        \/ \E j \in i + 1..Len(applied) : applied[j].doc = applied[i].doc /\ W!Kind(applied[j].op) = "remove"

-----------------------------------------------------------------------------
(* What the documentation says without these conditions (module Cursor):   *)
(* no more documents than Limit, Err tells of every error, Close kills the *)
(* cursor, Next returns when an error happened.                            *)
LimitHolds == R!LimitHolds
ErrTells == R!ErrTells
CloseKills == R!CloseKills
NextReturns == R!NextReturns

=============================================================================
