-------------------------- MODULE ParallelFileRead --------------------------
(***************************************************************************)
(* parallel_file_read_manager.go: one goroutine reads the documents of a   *)
(* playback file and hands them round robin to NumWorkers result managers; *)
(* a pool of NumWorkers goroutines unmarshals them; the consumer (the loop *)
(* of PlaybackFileReader.OpChan, playbackfile.go) takes the results, round *)
(* robin as well, and so gets them back in file order.                     *)
(*                                                                         *)
(* A document is its position in the file.  An unbuffered channel          *)
(* (resultChan) is a joint step of sender and receiver; the buffered ones  *)
(* are state.  A panic of the Go runtime (a send on a closed channel) is   *)
(* not a step: the invariants say that it is out of reach.                 *)
(***************************************************************************)
EXTENDS Naturals, Sequences, FiniteSets

CONSTANTS
    MaxDocs,     \* Bound: the largest number of documents in a file.
    NumWorkers   \* runtime.NumCPU()

ASSUME MaxDocsAssumption == MaxDocs \in Nat
ASSUME NumWorkersAssumption == NumWorkers \in Nat \ {0}

Workers == 1..NumWorkers
Managers == 0..(NumWorkers - 1)
Jobs == [doc : 1..MaxDocs, mgr : Managers]

VARIABLES
    input,          \* the file
    readerPc,       \* where the file reading goroutine is
    readerIdx,      \* its currentWorkerResultManagerIndex
    readPos,        \* number of documents read
    readerJob,      \* the job it is about to hand out
    available,      \* available[m]: the token is in manager m's available channel
    parseJobsChan,  \* the buffered jobs
    jobsClosed,     \* parseJobsChan is closed
    stopClosed,     \* stopChan is closed
    fileReadErr,    \* fileReadErr # nil
    workerPc,       \* where each parse worker is
    workerJob,      \* the job each parse worker holds
    closedManagers, \* managers 0..closedManagers-1 have their channels closed
    consumerPc,     \* where OpChan's loop is
    consumerIdx,    \* pm.currentWorkerResultManagerIndex
    delivered,      \* documents pushed to the ops channel, oldest first
    outcome         \* what the function inside OpChan returned

readerVars == <<readerPc, readerIdx, readPos, readerJob>>
workerVars == <<workerPc, workerJob>>
consumerVars == <<consumerPc, consumerIdx, delivered, outcome>>

vars == <<input, readerVars, available, parseJobsChan, jobsClosed, stopClosed,
          fileReadErr, workerVars, closedManagers, consumerVars>>

Ordered == INSTANCE OrderedFileRead

Inputs == Ordered!Inputs
Outcomes == Ordered!Outcomes

NoJob == [doc |-> 0, mgr |-> 0]

TypeOK ==
    /\ input \in Inputs
    /\ readerPc \in {"read", "acquire", "send", "setErr", "stop", "close", "done"}
    /\ readerIdx \in Managers
    /\ readPos \in 0..MaxDocs
    /\ readerJob \in Jobs \cup {NoJob}
    /\ available \in [Managers -> BOOLEAN]
    /\ parseJobsChan \in Seq(Jobs)
    /\ jobsClosed \in BOOLEAN
    /\ stopClosed \in BOOLEAN
    /\ fileReadErr \in BOOLEAN
    /\ workerPc \in [Workers -> {"recv", "send", "signal", "done"}]
    /\ workerJob \in [Workers -> Jobs \cup {NoJob}]
    /\ closedManagers \in 0..NumWorkers
    /\ consumerPc \in {"check", "next", "done"}
    /\ consumerIdx \in Managers
    /\ delivered \in Seq(1..MaxDocs)
    /\ outcome \in Outcomes

-----------------------------------------------------------------------------

(* begin: one token per manager, empty channels, every goroutine at its    *)
(* first statement.                                                        *)
Init ==
    /\ input \in Inputs
    /\ readerPc = "read"
    /\ readerIdx = 0
    /\ readPos = 0
    /\ readerJob = NoJob
    /\ available = [m \in Managers |-> TRUE]
    /\ parseJobsChan = <<>>
    /\ jobsClosed = FALSE
    /\ stopClosed = FALSE
    /\ fileReadErr = FALSE
    /\ workerPc = [w \in Workers |-> "recv"]
    /\ workerJob = [w \in Workers |-> NoJob]
    /\ closedManagers = 0
    /\ consumerPc = "check"
    /\ consumerIdx = 0
    /\ delivered = <<>>
    /\ outcome = "none"

-----------------------------------------------------------------------------
(* The file reading goroutine (runFileReader).                             *)

(* io.ReadFull returns io.EOF when it reads nothing at all, so a file cut  *)
(* between the length of a document and its body ends like a clean one.    *)
ReadDocument ==
    IF readPos < input.n THEN "doc"
    ELSE IF input.end = "error" THEN "err" ELSE "EOF"
ReaderRead ==
    /\ readerPc = "read"
    /\ readerIdx' = (readerIdx + 1) % NumWorkers
    /\ \/ /\ ReadDocument = "doc"
          /\ readPos' = readPos + 1
          /\ readerJob' = [doc |-> readPos + 1, mgr |-> readerIdx]
          /\ readerPc' = "acquire"
       \/ /\ ReadDocument = "EOF"
          /\ readerPc' = "close"
          /\ UNCHANGED <<readPos, readerJob>>
       \/ /\ ReadDocument = "err"
          /\ readerPc' = "setErr"
          /\ UNCHANGED <<readPos, readerJob>>
    /\ UNCHANGED <<input, available, parseJobsChan, jobsClosed, stopClosed,
                   fileReadErr, workerVars, closedManagers, consumerVars>>

(* Plausible bug: a job is handed out without waiting for the token.       *)
ReaderAcquire_NoToken ==
    /\ readerPc = "acquire"
    /\ available' = [available EXCEPT ![readerJob.mgr] = FALSE]
    /\ readerPc' = "send"
    /\ UNCHANGED <<input, readerIdx, readPos, readerJob, parseJobsChan, jobsClosed,
                   stopClosed, fileReadErr, workerVars, closedManagers, consumerVars>>

(* <-currentWorkerResultManager.available                                  *)
ReaderAcquire ==
    /\ readerPc = "acquire"
    /\ available[readerJob.mgr]
    /\ available' = [available EXCEPT ![readerJob.mgr] = FALSE]
    /\ readerPc' = "send"
    /\ UNCHANGED <<input, readerIdx, readPos, readerJob, parseJobsChan, jobsClosed,
                   stopClosed, fileReadErr, workerVars, closedManagers, consumerVars>>

(* pm.parseJobsChan <- &parseJob{...}, a channel of capacity numWorkers.   *)
ReaderSend ==
    /\ readerPc = "send"
    /\ Len(parseJobsChan) < NumWorkers
    /\ parseJobsChan' = Append(parseJobsChan, readerJob)
    /\ readerPc' = "read"
    /\ UNCHANGED <<input, readerIdx, readPos, readerJob, available, jobsClosed,
                   stopClosed, fileReadErr, workerVars, closedManagers, consumerVars>>

(* pm.fileReadErr = err                                                    *)
ReaderSetErr ==
    /\ readerPc = "setErr"
    /\ fileReadErr' = TRUE
    /\ readerPc' = "stop"
    /\ UNCHANGED <<input, readerIdx, readPos, readerJob, available, parseJobsChan,
                   jobsClosed, stopClosed, workerVars, closedManagers, consumerVars>>

(* close(pm.stopChan)                                                      *)
ReaderStop ==
    /\ readerPc = "stop"
    /\ stopClosed' = TRUE
    /\ readerPc' = "close"
    /\ UNCHANGED <<input, readerIdx, readPos, readerJob, available, parseJobsChan,
                   jobsClosed, fileReadErr, workerVars, closedManagers, consumerVars>>

(* Plausible bug: the reader returns without closing parseJobsChan.        *)
ReaderClose_Forgotten ==
    /\ readerPc = "close"
    /\ readerPc' = "done"
    /\ UNCHANGED <<input, readerIdx, readPos, readerJob, available, parseJobsChan,
                   jobsClosed, stopClosed, fileReadErr, workerVars, closedManagers,
                   consumerVars>>

(* defer close(pm.parseJobsChan)                                           *)
ReaderClose ==
    /\ readerPc = "close"
    /\ jobsClosed' = TRUE
    /\ readerPc' = "done"
    /\ UNCHANGED <<input, readerIdx, readPos, readerJob, available, parseJobsChan,
                   stopClosed, fileReadErr, workerVars, closedManagers, consumerVars>>

Reader == ReaderRead \/ ReaderAcquire \/ ReaderSend \/ ReaderSetErr
            \/ ReaderStop \/ ReaderClose

-----------------------------------------------------------------------------
(* The parse workers (runParsePool, runParseWorker).                       *)

(* for parseJob := range parseJobsChan, and bson.Unmarshal                 *)
WorkerReceive(w) ==
    /\ workerPc[w] = "recv"
    /\ parseJobsChan # <<>>
    /\ workerJob' = [workerJob EXCEPT ![w] = Head(parseJobsChan)]
    /\ workerPc' = [workerPc EXCEPT ![w] = "send"]
    /\ parseJobsChan' = Tail(parseJobsChan)
    /\ UNCHANGED <<input, readerVars, available, jobsClosed, stopClosed,
                   fileReadErr, closedManagers, consumerVars>>

(* The range loop ends when parseJobsChan is closed and drained.           *)
WorkerFinish(w) ==
    /\ workerPc[w] = "recv"
    /\ parseJobsChan = <<>>
    /\ jobsClosed
    /\ workerPc' = [workerPc EXCEPT ![w] = "done"]
    /\ UNCHANGED <<input, readerVars, available, parseJobsChan, jobsClosed,
                   stopClosed, fileReadErr, workerJob, closedManagers, consumerVars>>

(* Plausible bug: the error of a result is not looked at.                  *)
TakeResult_IgnoreErr(doc) ==
    /\ consumerIdx' = (consumerIdx + 1) % NumWorkers
    /\ delivered' = Append(delivered, doc)
    /\ consumerPc' = "check"
    /\ UNCHANGED outcome

(* Plausible bug: the index of the next manager is not advanced.           *)
TakeResult_SameManager(doc) ==
    /\ delivered' = Append(delivered, doc)
    /\ consumerPc' = "check"
    /\ UNCHANGED <<consumerIdx, outcome>>

(* What OpChan's loop does with the result of next(): an unmarshalling     *)
(* error ends the pass, anything else goes on to the ops channel.          *)
TakeResult(doc) ==
    /\ consumerIdx' = (consumerIdx + 1) % NumWorkers
    /\ \/ /\ doc \in input.bad
          /\ outcome' = "parseErr"
          /\ consumerPc' = "done"
          /\ UNCHANGED delivered
       \/ /\ doc \notin input.bad
          /\ delivered' = Append(delivered, doc)
          /\ consumerPc' = "check"
          /\ UNCHANGED outcome

(* case resultChan <- result, received by next().                          *)
WorkerDeliver(w) ==
    /\ workerPc[w] = "send"
    /\ consumerPc = "next"
    /\ workerJob[w].mgr = consumerIdx
    /\ TakeResult(workerJob[w].doc)
    /\ workerPc' = [workerPc EXCEPT ![w] = "signal"]
    /\ UNCHANGED <<input, readerVars, available, parseJobsChan, jobsClosed,
                   stopClosed, fileReadErr, workerJob, closedManagers>>

(* available <- struct{}{}, a channel of capacity 1.                       *)
WorkerSignal(w) ==
    /\ workerPc[w] = "signal"
    /\ ~available[workerJob[w].mgr]
    /\ available' = [available EXCEPT ![workerJob[w].mgr] = TRUE]
    /\ workerPc' = [workerPc EXCEPT ![w] = "recv"]
    /\ UNCHANGED <<input, readerVars, parseJobsChan, jobsClosed, stopClosed,
                   fileReadErr, workerJob, closedManagers, consumerVars>>

(* case <-stop                                                             *)
WorkerStop(w) ==
    /\ workerPc[w] = "send"
    /\ stopClosed
    /\ workerPc' = [workerPc EXCEPT ![w] = "done"]
    /\ UNCHANGED <<input, readerVars, available, parseJobsChan, jobsClosed,
                   stopClosed, fileReadErr, workerJob, closedManagers, consumerVars>>

Worker(w) == WorkerReceive(w) \/ WorkerFinish(w) \/ WorkerDeliver(w)
               \/ WorkerSignal(w) \/ WorkerStop(w)

(* Plausible bug: the channels are closed when the first worker is done.   *)
PoolClose_FirstDone ==
    /\ \E w \in Workers : workerPc[w] = "done"
    /\ closedManagers < NumWorkers
    /\ closedManagers' = closedManagers + 1
    /\ UNCHANGED <<input, readerVars, available, parseJobsChan, jobsClosed,
                   stopClosed, fileReadErr, workerVars, consumerVars>>

(* The goroutine of runParsePool: wg.Wait(), then close the channels of    *)
(* one manager after the other.                                            *)
PoolClose ==
    /\ \A w \in Workers : workerPc[w] = "done"
    /\ closedManagers < NumWorkers
    /\ closedManagers' = closedManagers + 1
    /\ UNCHANGED <<input, readerVars, available, parseJobsChan, jobsClosed,
                   stopClosed, fileReadErr, workerVars, consumerVars>>

-----------------------------------------------------------------------------
(* The consumer, one iteration of OpChan's inner loop at a time.           *)

(* err() reads fileReadErr without synchronisation: it may see the value   *)
(* from before the reader's write.                                         *)
ConsumerCheck ==
    /\ consumerPc = "check"
    /\ \E err \in {FALSE, fileReadErr} :
         \/ /\ err
            /\ outcome' = "readErr"
            /\ consumerPc' = "done"
         \/ /\ ~err
            /\ consumerPc' = "next"
            /\ UNCHANGED outcome
    /\ UNCHANGED <<input, readerVars, available, parseJobsChan, jobsClosed, stopClosed,
                   fileReadErr, workerVars, closedManagers, consumerIdx, delivered>>

(* next() receives nil from a closed resultChan and returns io.EOF.        *)
ConsumerEOF ==
    /\ consumerPc = "next"
    /\ consumerIdx < closedManagers
    /\ outcome' = "EOF"
    /\ consumerPc' = "done"
    /\ UNCHANGED <<input, readerVars, available, parseJobsChan, jobsClosed, stopClosed,
                   fileReadErr, workerVars, closedManagers, consumerIdx, delivered>>

(* OpChan's pass is over; goroutines it leaves behind may be blocked.      *)
Terminating == consumerPc = "done" /\ UNCHANGED vars

Next ==
    \/ Reader
    \/ \E w \in Workers : Worker(w)
    \/ PoolClose
    \/ ConsumerCheck
    \/ ConsumerEOF
    \/ Terminating

Spec == Init /\ [][Next]_vars

(* The Go scheduler runs every goroutine that can run, and a read of a     *)
(* file returns.                                                           *)
FairSpec ==
    /\ Spec
    /\ WF_vars(Reader)
    /\ \A w \in Workers : WF_vars(Worker(w))
    /\ WF_vars(PoolClose)
    /\ WF_vars(ConsumerCheck \/ ConsumerEOF)

-----------------------------------------------------------------------------
(* Properties.                                                             *)

(* Results taken by the consumer, a bad one included.                      *)
taken == Len(delivered) + (IF outcome = "parseErr" THEN 1 ELSE 0)

(* The ops leave next() in file order, without gap or repetition, however  *)
(* the reader, the workers and the consumer interleave.                    *)
InOrder == \A i \in 1..Len(delivered) : delivered[i] = i

(* A pass that ends with io.EOF over a file whose read did not fail has    *)
(* delivered every document: no op of the recording is lost.               *)
EOFIsComplete ==
    outcome = "EOF" /\ input.end # "error" => Len(delivered) = input.n

(* When OpChan seeks to the start of the file for the next generation (it  *)
(* does after io.EOF), no goroutine of this pass will read the file or     *)
(* hold a job any more.                                                    *)
EOFMeansQuiet ==
    outcome = "EOF" =>
        /\ readerPc \in {"close", "done"}
        /\ \A w \in Workers : workerPc[w] = "done"

(* The pool of goroutines implements the sequential pass.                  *)
ImplementsOrderedRead == Ordered!Spec

-----------------------------------------------------------------------------
(* The inductive invariant behind InOrder, EOFIsComplete and EOFMeansQuiet.*)

(* Documents 1..acquired have got their manager's token.                   *)
acquired == IF readerPc = "acquire" THEN readPos - 1 ELSE readPos

(* A job that is on its way holds its manager's token, and is the last one *)
(* that got it.                                                            *)
HoldsToken(j) ==
    /\ j.mgr = (j.doc - 1) % NumWorkers
    /\ 1 <= j.doc
    /\ j.doc <= acquired
    /\ acquired < j.doc + NumWorkers
    /\ ~available[j.mgr]

(* A job whose result the consumer still waits for.                        *)
Pending(j) == HoldsToken(j) /\ taken < j.doc

ReaderInv ==
    /\ readPos <= input.n
    /\ readerPc \in {"read", "acquire", "send"} => readerIdx = readPos % NumWorkers
    /\ readerPc \in {"acquire", "send"} =>
         /\ 1 <= readPos
         /\ readerJob = [doc |-> readPos, mgr |-> (readPos - 1) % NumWorkers]

JobsInv ==
    /\ readerPc = "send" => Pending(readerJob)
    /\ \A i \in DOMAIN parseJobsChan : Pending(parseJobsChan[i])
    /\ \A w \in Workers : workerPc[w] = "send" => Pending(workerJob[w])
    /\ \A w \in Workers : workerPc[w] = "signal" =>
         HoldsToken(workerJob[w]) /\ workerJob[w].doc <= taken

(* No document is in two places.                                           *)
DistinctInv ==
    /\ readerPc = "send" =>
         /\ \A i \in DOMAIN parseJobsChan : parseJobsChan[i].doc # readPos
         /\ \A w \in Workers : workerPc[w] = "send" => workerJob[w].doc # readPos
    /\ \A i, k \in DOMAIN parseJobsChan :
         i # k => parseJobsChan[i].doc # parseJobsChan[k].doc
    /\ \A i \in DOMAIN parseJobsChan, w \in Workers :
         workerPc[w] = "send" => parseJobsChan[i].doc # workerJob[w].doc
    /\ \A v, w \in Workers :
         v # w /\ workerPc[v] \in {"send", "signal"} /\ workerPc[w] \in {"send", "signal"}
            => workerJob[v].doc # workerJob[w].doc

(* A token in its channel says that the manager's documents are taken.     *)
TokenInv ==
    \A m \in Managers : available[m] =>
        \A d \in 1..acquired : (d - 1) % NumWorkers = m => d <= taken

ConsumerInv ==
    /\ taken <= acquired
    /\ acquired <= taken + NumWorkers
    /\ consumerIdx = taken % NumWorkers
    /\ consumerPc = "done" <=> outcome # "none"

(* Unless the reader stopped them, the workers lose no document.           *)
CoverageInv ==
    ~stopClosed =>
        \A d \in 1..acquired : taken < d =>
            \/ readerPc = "send" /\ readPos = d
            \/ \E i \in DOMAIN parseJobsChan : parseJobsChan[i].doc = d
            \/ \E w \in Workers : workerPc[w] = "send" /\ workerJob[w].doc = d

ClosingInv ==
    /\ jobsClosed <=> readerPc = "done"
    /\ stopClosed => readerPc \in {"close", "done"}
    /\ stopClosed \/ fileReadErr \/ readerPc \in {"setErr", "stop"} => input.end = "error"
    /\ readerPc \in {"close", "done"} /\ ~stopClosed => readPos = input.n
    /\ \A w \in Workers : workerPc[w] = "done" =>
         stopClosed \/ (jobsClosed /\ parseJobsChan = <<>>)
    /\ closedManagers > 0 => \A w \in Workers : workerPc[w] = "done"

EOFInv ==
    outcome = "EOF" => closedManagers > 0 /\ (~stopClosed => taken = input.n)

IInv ==
    /\ TypeOK
    /\ ReaderInv
    /\ JobsInv
    /\ DistinctInv
    /\ TokenInv
    /\ ConsumerInv
    /\ CoverageInv
    /\ ClosingInv
    /\ EOFInv
    /\ InOrder

-----------------------------------------------------------------------------
(* What the documentation says and the code does not do.                   *)

(* A pass always ends: neither a bad document nor a failing read leaves    *)
(* the consumer blocked in next(). After io.EOF or a read error all        *)
(* goroutines of the pass return (after an unmarshalling error they are    *)
(* left blocked).                                                          *)
PassEnds ==
    /\ <>(outcome # "none")
    /\ outcome \in {"EOF", "readErr"} ~>
          /\ readerPc = "done"
          /\ \A w \in Workers : workerPc[w] = "done"
          /\ closedManagers = NumWorkers
=============================================================================
