----------------------- MODULE ParallelFileReadProofs -----------------------
(***************************************************************************)
(* Proofs about ParallelFileRead for every number of workers and every     *)
(* file length: IInv is inductive, so the order and completeness of a pass *)
(* do not depend on the sizes TLC explores.                                *)
(***************************************************************************)
EXTENDS ParallelFileRead, ModLemmas

(* A worker's result that the consumer can take now is the next document:  *)
(* pending documents lie within NumWorkers of the last one taken, so only  *)
(* one of them has the consumer's remainder.                               *)
LEMMA NextIsUnique ==
    ASSUME IInv, NEW w \in Workers, workerPc[w] = "send",
           workerJob[w].mgr = consumerIdx
    PROVE  workerJob[w].doc = taken + 1
  <1> USE NumWorkersAssumption, MaxDocsAssumption
  <1> DEFINE d == workerJob[w].doc
  <1>1. d \in Nat /\ taken \in Nat /\ acquired \in Int
    BY SMT DEF IInv, TypeOK, taken, acquired, JobsInv, Pending, HoldsToken, Jobs, Managers, NoJob
  <1>2. taken < d /\ d <= acquired /\ (d - 1) % NumWorkers = workerJob[w].mgr
    BY DEF IInv, JobsInv, Pending, HoldsToken
  <1>3. acquired <= taken + NumWorkers /\ consumerIdx = taken % NumWorkers
    BY DEF IInv, ConsumerInv
  <1> HIDE DEF d
  <1>4. d - 1 \in Nat /\ taken <= d - 1 /\ d - 1 < taken + NumWorkers
    BY <1>1, <1>2, <1>3, SMT
  <1>5. taken % NumWorkers = (d - 1) % NumWorkers
    BY <1>2, <1>3
  <1>6. taken = d - 1
    BY <1>1, <1>4, <1>5, ModUnique
  <1> QED BY <1>1, <1>6, SMT DEF d

LEMMA InitIInv == Init => IInv
  <1> USE NumWorkersAssumption, MaxDocsAssumption
  <1> SUFFICES ASSUME Init PROVE IInv
    OBVIOUS
  <1>1. 0 % NumWorkers = 0
    <2>1. 0 = NumWorkers * 0 + 0 /\ 0 \in 0..(NumWorkers - 1)
      BY SMT
    <2> QED BY <2>1, ModIs
  <1>2. TypeOK
    <2>1. available \in [Managers -> BOOLEAN]
      BY Zenon DEF Init
    <2>2. workerJob \in [Workers -> Jobs \cup {NoJob}] /\ readerJob \in Jobs \cup {NoJob}
      BY Zenon DEF Init
    <2>3. parseJobsChan \in Seq(Jobs) /\ delivered \in Seq(1..MaxDocs)
      BY SMT DEF Init
    <2>4. jobsClosed \in BOOLEAN /\ stopClosed \in BOOLEAN /\ fileReadErr \in BOOLEAN
      BY Zenon DEF Init
    <2>5. 0 \in Managers /\ 0 \in 0..MaxDocs /\ 0 \in 0..NumWorkers
      BY SMT DEF Managers
    <2> QED
      BY <2>1, <2>2, <2>3, <2>4, <2>5, Zenon DEF Init, TypeOK, Outcomes, Ordered!Outcomes
  <1>3. ReaderInv
    BY <1>1, SMT DEF Init, ReaderInv, Inputs, Ordered!Inputs
  <1>4. JobsInv
    BY SMT DEF Init, JobsInv, Workers
  <1>5. DistinctInv
    BY SMT DEF Init, DistinctInv, Workers
  <1>6. TokenInv
    BY SMT DEF Init, TokenInv, acquired
  <1>7. ConsumerInv
    BY <1>1, SMT DEF Init, ConsumerInv, acquired, taken
  <1>8. CoverageInv
    BY SMT DEF Init, CoverageInv, acquired
  <1>9. ClosingInv /\ EOFInv /\ InOrder
    BY SMT DEF Init, ClosingInv, EOFInv, InOrder, Workers
  <1> QED BY <1>2, <1>3, <1>4, <1>5, <1>6, <1>7, <1>8, <1>9 DEF IInv

(* The reader's steps.                                                     *)
LEMMA ReaderReadIInv == IInv /\ ReaderRead => IInv'
  <1> USE NumWorkersAssumption, MaxDocsAssumption
  <1> SUFFICES ASSUME IInv, ReaderRead PROVE IInv'
    OBVIOUS
  <1>1. TypeOK'
    <2>1. (readerIdx + 1) % NumWorkers \in Managers
      BY DivMod, SMT DEF IInv, TypeOK, Managers
    <2>2. input.n \in 0..MaxDocs
      BY SMT DEF IInv, TypeOK, Inputs, Ordered!Inputs
    <2>3. readPos' \in 0..MaxDocs /\ readerJob' \in Jobs \cup {NoJob}
      BY <2>2, SMT DEF IInv, TypeOK, ReaderRead, ReadDocument, Jobs
    <2>4. readerPc' \in {"acquire", "close", "setErr"} /\ readerIdx' \in Managers
      BY <2>1, Zenon DEF ReaderRead
    <2> QED BY <2>3, <2>4, Zenon DEF IInv, TypeOK, ReaderRead, workerVars, consumerVars
  <1>2. ReaderInv'
    <2>1. input.n \in 0..MaxDocs /\ readPos \in 0..MaxDocs /\ readPos \in Nat
      BY SMT DEF IInv, TypeOK, Inputs, Ordered!Inputs
    <2>2. readerIdx = readPos % NumWorkers
      BY Zenon DEF IInv, ReaderInv, ReaderRead
    <2>3. (readerIdx + 1) % NumWorkers = (readPos + 1) % NumWorkers
      BY <2>1, <2>2, ModSucc
    <2>4. CASE ReadDocument = "doc"
      <3>1. readPos + 1 <= input.n /\ readPos + 1 >= 1 /\ (readPos + 1) - 1 = readPos
        BY <2>1, <2>4, SMT DEF ReadDocument
      <3>2. readPos' = readPos + 1 /\ readerIdx' = (readPos + 1) % NumWorkers /\ input' = input
            /\ readerJob' = [doc |-> readPos + 1, mgr |-> readPos % NumWorkers]
        BY <2>2, <2>3, <2>4, Zenon DEF ReaderRead
      <3> QED BY <3>1, <3>2, SMT DEF ReaderInv
    <2>5. CASE ReadDocument # "doc"
      <3>1. readerPc' \in {"close", "setErr"} /\ UNCHANGED <<readPos, input>>
        BY <2>5, Zenon DEF ReaderRead
      <3> QED BY <3>1, SMT DEF IInv, ReaderInv
    <2> QED BY <2>4, <2>5
  <1>3. JobsInv'
    <2>1. acquired' = acquired /\ taken' = taken
      BY SMT DEF IInv, TypeOK, ReaderRead, acquired, taken, consumerVars
    <2>2. UNCHANGED <<available, parseJobsChan, workerPc, workerJob>> /\ readerPc' # "send"
      BY SMT DEF ReaderRead, workerVars
    <2>3. JobsInv
      BY DEF IInv
    <2> QED BY <2>1, <2>2, <2>3, Zenon DEF JobsInv, Pending, HoldsToken
  <1>4. DistinctInv'
    <2>1. UNCHANGED <<parseJobsChan, workerPc, workerJob>> /\ readerPc' # "send"
      BY SMT DEF ReaderRead, workerVars
    <2> QED BY <2>1, Zenon DEF IInv, DistinctInv
  <1>5. TokenInv'
    BY SMT DEF IInv, ReaderRead, TokenInv, acquired, taken, TypeOK, ReaderInv, JobsInv, Pending, HoldsToken, readerVars, workerVars, consumerVars
  <1>6. ConsumerInv'
    BY SMT DEF IInv, ReaderRead, ConsumerInv, acquired, taken, TypeOK, ReaderInv, readerVars, workerVars, consumerVars
  <1>7. CoverageInv'
    <2>1. acquired' = acquired /\ taken' = taken
      BY SMT DEF IInv, TypeOK, ReaderRead, acquired, taken, consumerVars
    <2>2. UNCHANGED <<stopClosed, parseJobsChan, workerPc, workerJob>> /\ readerPc # "send"
      BY SMT DEF ReaderRead, workerVars
    <2> QED BY <2>1, <2>2, Zenon DEF IInv, CoverageInv
  <1>8. ClosingInv'
    <2>1. input.n \in 0..MaxDocs /\ readPos \in 0..MaxDocs /\ readPos <= input.n
      BY SMT DEF IInv, TypeOK, Inputs, Ordered!Inputs, ReaderInv
    <2>2. readerPc' = "close" => readPos' = input.n
      BY <2>1, SMT DEF ReaderRead, ReadDocument
    <2>3. readerPc' = "setErr" => input.end = "error"
      BY SMT DEF ReaderRead, ReadDocument
    <2>4. readerPc' \in {"acquire", "close", "setErr"} /\ readerPc = "read"
      BY Zenon DEF ReaderRead
    <2> QED BY <2>2, <2>3, <2>4, SMT DEF IInv, ClosingInv, ReaderRead, workerVars
  <1>9. EOFInv'
    BY SMT DEF IInv, ReaderRead, EOFInv, taken, readerVars, workerVars, consumerVars
  <1>10. InOrder'
    BY SMT DEF IInv, ReaderRead, InOrder, readerVars, workerVars, consumerVars
  <1> QED BY <1>1, <1>2, <1>3, <1>4, <1>5, <1>6, <1>7, <1>8, <1>9, <1>10 DEF IInv

LEMMA ReaderAcquireIInv == IInv /\ ReaderAcquire => IInv'
  <1> USE NumWorkersAssumption, MaxDocsAssumption
  <1> SUFFICES ASSUME IInv, ReaderAcquire PROVE IInv'
    OBVIOUS
  <1>1. TypeOK'
    BY SMT DEF IInv, ReaderAcquire, TypeOK, Managers, Workers, Jobs, NoJob, Outcomes, Ordered!Outcomes, readerVars, workerVars, consumerVars
  <1>2. ReaderInv'
    BY SMT DEF IInv, ReaderAcquire, ReaderInv, TypeOK, readerVars, workerVars, consumerVars
  <1>3. JobsInv'
    <2> DEFINE m == (readPos - 1) % NumWorkers
    <2>1. acquired = readPos - 1 /\ acquired' = readPos /\ taken' = taken /\ readPos \in Nat
          /\ 1 <= readPos /\ taken \in Nat
      BY SMT DEF IInv, TypeOK, ReaderInv, ReaderAcquire, acquired, taken, consumerVars
    <2>2. readerJob = [doc |-> readPos, mgr |-> m] /\ m \in Managers
      BY <2>1, DivMod, SMT DEF IInv, ReaderInv, ReaderAcquire, Managers
    <2>3. available[m] /\ available' = [available EXCEPT ![m] = FALSE]
          /\ UNCHANGED <<parseJobsChan, workerPc, workerJob, readerJob>> /\ readerPc' = "send"
      BY <2>2, SMT DEF ReaderAcquire, workerVars
    <2> HIDE DEF m
    <2>4. \A n \in Managers : ~available[n] => ~available'[n]
      BY <2>2, <2>3, SMT DEF IInv, TypeOK
    <2>5. ASSUME NEW j \in Jobs \cup {NoJob}, HoldsToken(j)
          PROVE  HoldsToken(j)'
      <3>1. j.doc \in Nat /\ j.mgr \in Managers
        BY SMT DEF Jobs, NoJob, Managers
      <3>2. readPos # j.doc + NumWorkers
        <4> SUFFICES ASSUME readPos = j.doc + NumWorkers PROVE FALSE
          OBVIOUS
        <4>1. readPos - 1 = (j.doc - 1) + NumWorkers /\ j.doc - 1 \in Nat
          BY <3>1, <2>5, <2>1, SMT DEF HoldsToken
        <4>2. m = (j.doc - 1) % NumWorkers
          BY <4>1, ModAdd DEF m
        <4> QED BY <4>2, <2>3, <2>5 DEF HoldsToken
      <3> QED BY <3>1, <3>2, <2>1, <2>4, <2>5, SMT DEF HoldsToken
    <2>6. Pending(readerJob)'
      <3>1. taken < readPos
        BY <2>1, SMT DEF IInv, ConsumerInv
      <3>2. readerJob' = [doc |-> readPos, mgr |-> m] /\ ~available'[m]
        BY <2>2, <2>3, SMT DEF IInv, TypeOK
      <3> QED BY <2>1, <3>1, <3>2, SMT DEF Pending, HoldsToken, m
    <2>7. \A i \in DOMAIN parseJobsChan : parseJobsChan[i] \in Jobs
      BY SMT DEF IInv, TypeOK
    <2>8. \A w \in Workers : workerJob[w] \in Jobs \cup {NoJob}
      BY SMT DEF IInv, TypeOK
    <2>9. JobsInv
      BY DEF IInv
    <2> QED BY <2>1, <2>3, <2>5, <2>6, <2>7, <2>8, <2>9, Zenon DEF JobsInv, Pending
  <1>4. DistinctInv'
    BY SMT DEF IInv, ReaderAcquire, DistinctInv, TypeOK, Jobs, ReaderInv, JobsInv, Pending, HoldsToken, acquired, readerVars, workerVars, consumerVars
  <1>5. TokenInv'
    BY SMT DEF IInv, ReaderAcquire, TokenInv, acquired, taken, TypeOK, ReaderInv, JobsInv, Pending, HoldsToken, readerVars, workerVars, consumerVars
  <1>6. ConsumerInv'
    <2> DEFINE m == (readPos - 1) % NumWorkers
    <2>1. acquired = readPos - 1 /\ acquired' = readPos /\ taken' = taken /\ readPos \in Nat
          /\ 1 <= readPos /\ taken \in Nat
      BY SMT DEF IInv, TypeOK, ReaderInv, ReaderAcquire, acquired, taken, consumerVars
    <2>2. m \in Managers /\ available[m]
      BY <2>1, DivMod, SMT DEF IInv, ReaderInv, ReaderAcquire, Managers
    <2> HIDE DEF m
    <2>3. readPos <= taken + NumWorkers
      <3> SUFFICES ASSUME readPos > NumWorkers PROVE readPos - NumWorkers <= taken
        BY <2>1, SMT
      <3> DEFINE d == readPos - NumWorkers
      <3>1. d \in 1..acquired /\ d - 1 \in Nat /\ readPos - 1 = (d - 1) + NumWorkers
        BY <2>1, SMT
      <3>2. (d - 1) % NumWorkers = m
        BY <3>1, ModAdd DEF m
      <3> HIDE DEF d
      <3>3. d <= taken
        BY <3>1, <3>2, <2>2 DEF IInv, TokenInv
      <3> QED BY <3>3 DEF d
    <2> QED BY <2>1, <2>3, SMT DEF IInv, ConsumerInv, ReaderAcquire, consumerVars
  <1>7. CoverageInv'
    BY SMT DEF IInv, ReaderAcquire, CoverageInv, acquired, taken, TypeOK, ReaderInv, ClosingInv, readerVars, workerVars, consumerVars
  <1>8. ClosingInv'
    BY SMT DEF IInv, ReaderAcquire, ClosingInv, TypeOK, ReadDocument, readerVars, workerVars, consumerVars
  <1>9. EOFInv'
    BY SMT DEF IInv, ReaderAcquire, EOFInv, taken, readerVars, workerVars, consumerVars
  <1>10. InOrder'
    BY SMT DEF IInv, ReaderAcquire, InOrder, readerVars, workerVars, consumerVars
  <1> QED BY <1>1, <1>2, <1>3, <1>4, <1>5, <1>6, <1>7, <1>8, <1>9, <1>10 DEF IInv

LEMMA ReaderSendIInv == IInv /\ ReaderSend => IInv'
  <1> USE NumWorkersAssumption, MaxDocsAssumption
  <1> SUFFICES ASSUME IInv, ReaderSend PROVE IInv'
    OBVIOUS
  <1> DEFINE n == Len(parseJobsChan)
  <1>a. /\ readerPc = "send" /\ readerPc' = "read"
        /\ UNCHANGED <<input, readerIdx, readPos, readerJob, available, jobsClosed,
                       stopClosed, fileReadErr, workerPc, workerJob, closedManagers,
                       consumerPc, consumerIdx, delivered, outcome>>
    BY Zenon DEF ReaderSend, workerVars, consumerVars
  <1>b. acquired' = acquired /\ taken' = taken /\ readerJob.doc = readPos
    BY <1>a, SMT DEF acquired, taken, IInv, ReaderInv
  <1>c. readerJob \in Jobs
    <2>1. readerJob \in Jobs \cup {NoJob} /\ Pending(readerJob)
      BY <1>a DEF IInv, TypeOK, JobsInv
    <2> QED BY <2>1, SMT DEF Pending, HoldsToken, NoJob
  <1>d. /\ n \in Nat /\ parseJobsChan \in Seq(Jobs)
        /\ DOMAIN parseJobsChan = 1..n /\ DOMAIN parseJobsChan' = 1..(n + 1)
        /\ \A i \in 1..n : parseJobsChan'[i] = parseJobsChan[i]
        /\ parseJobsChan'[n + 1] = readerJob
        /\ parseJobsChan' \in Seq(Jobs)
    BY <1>c, SMT DEF IInv, TypeOK, ReaderSend
  <1>e. \A i \in DOMAIN parseJobsChan' :
          \/ i \in DOMAIN parseJobsChan /\ parseJobsChan'[i] = parseJobsChan[i]
          \/ i = n + 1 /\ i \notin DOMAIN parseJobsChan /\ parseJobsChan'[i] = readerJob
    BY <1>d, SMT
  <1>f. \A i \in DOMAIN parseJobsChan :
          i \in DOMAIN parseJobsChan' /\ parseJobsChan'[i] = parseJobsChan[i]
    BY <1>d, SMT
  <1>g. n + 1 \in DOMAIN parseJobsChan' /\ parseJobsChan'[n + 1] = readerJob
    BY <1>d, SMT
  <1> HIDE DEF n
  <1>1. TypeOK'
    BY <1>a, <1>d, Zenon DEF IInv, TypeOK
  <1>2. ReaderInv'
    BY <1>a, SMT DEF IInv, ReaderInv
  <1>3. JobsInv'
    BY <1>a, <1>b, <1>e, Zenon DEF IInv, JobsInv, Pending, HoldsToken
  <1>4. DistinctInv'
    <2>1. DistinctInv
      BY DEF IInv
    <2>2. ASSUME NEW i \in DOMAIN parseJobsChan', NEW k \in DOMAIN parseJobsChan', i # k
          PROVE  parseJobsChan'[i].doc # parseJobsChan'[k].doc
      <3>1. CASE i \in DOMAIN parseJobsChan /\ k \in DOMAIN parseJobsChan
        BY <3>1, <2>1, <2>2, <1>f, Zenon DEF DistinctInv
      <3>2. CASE i \notin DOMAIN parseJobsChan
        BY <3>2, <2>1, <2>2, <1>a, <1>b, <1>e, Zenon DEF DistinctInv
      <3>3. CASE k \notin DOMAIN parseJobsChan
        BY <3>3, <2>1, <2>2, <1>a, <1>b, <1>e, Zenon DEF DistinctInv
      <3> QED BY <3>1, <3>2, <3>3
    <2>3. ASSUME NEW i \in DOMAIN parseJobsChan', NEW w \in Workers, workerPc[w] = "send"
          PROVE  parseJobsChan'[i].doc # workerJob[w].doc
      BY <2>1, <2>3, <1>a, <1>b, <1>e, Zenon DEF DistinctInv
    <2>4. readerPc' # "send"
      BY <1>a
    <2> QED BY <2>1, <2>2, <2>3, <2>4, <1>a, Zenon DEF DistinctInv
  <1>5. TokenInv'
    BY <1>a, <1>b, Zenon DEF IInv, TokenInv
  <1>6. ConsumerInv'
    BY <1>a, <1>b, Zenon DEF IInv, ConsumerInv
  <1>7. CoverageInv'
    BY <1>a, <1>b, <1>f, <1>g, Zenon DEF IInv, CoverageInv
  <1>8. ClosingInv'
    BY <1>a, SMT DEF IInv, ClosingInv
  <1>9. EOFInv' /\ InOrder'
    BY <1>a, <1>b, Zenon DEF IInv, EOFInv, InOrder
  <1> QED
    BY <1>1, <1>2, <1>3, <1>4, <1>5, <1>6, <1>7, <1>8, <1>9 DEF IInv

(* Steps that touch no job, no token and no delivered document keep the    *)
(* parts of the invariant that speak about those.                          *)
LEMMA QuietStep ==
    ASSUME IInv,
           UNCHANGED <<input, readPos, readerIdx, readerJob, available, parseJobsChan,
                       workerPc, workerJob, delivered, consumerIdx>>,
           \/ readerPc' = readerPc
           \/ /\ readerPc \in {"setErr", "stop", "close"}
              /\ readerPc' \in {"stop", "close", "done"},
           outcome' = outcome \/ (outcome = "none" /\ outcome' # "parseErr"),
           stopClosed => stopClosed'
    PROVE  /\ acquired' = acquired /\ taken' = taken
           /\ ReaderInv' /\ JobsInv' /\ DistinctInv' /\ TokenInv'
           /\ CoverageInv' /\ InOrder'
           /\ (consumerPc' = "done" <=> outcome' # "none") => ConsumerInv'
  <1>1. acquired' = acquired
    BY SMT DEF acquired
  <1>2. taken' = taken
    BY SMT DEF taken
  <1>3. (readerPc' = "send") = (readerPc = "send")
    BY SMT
  <1>4. ReaderInv'
    BY SMT DEF IInv, ReaderInv
  <1>5. JobsInv'
    BY <1>1, <1>2, <1>3, Zenon DEF IInv, JobsInv, Pending, HoldsToken
  <1>6. DistinctInv'
    BY <1>3, Zenon DEF IInv, DistinctInv
  <1>7. TokenInv'
    BY <1>1, <1>2, Zenon DEF IInv, TokenInv
  <1>8. CoverageInv'
    BY <1>1, <1>2, <1>3, Zenon DEF IInv, CoverageInv
  <1>9. InOrder'
    BY Zenon DEF IInv, InOrder
  <1>10. (consumerPc' = "done" <=> outcome' # "none") => ConsumerInv'
    BY <1>1, <1>2, Zenon DEF IInv, ConsumerInv
  <1> QED
    BY <1>1, <1>2, <1>4, <1>5, <1>6, <1>7, <1>8, <1>9, <1>10

LEMMA ReaderEndIInv == IInv /\ (ReaderSetErr \/ ReaderStop \/ ReaderClose) => IInv'
  <1> USE NumWorkersAssumption, MaxDocsAssumption
  <1> SUFFICES ASSUME IInv, ReaderSetErr \/ ReaderStop \/ ReaderClose PROVE IInv'
    OBVIOUS
  <1>1. /\ UNCHANGED <<input, readPos, readerIdx, readerJob, available, parseJobsChan,
                       workerPc, workerJob, closedManagers, consumerPc, consumerIdx,
                       delivered, outcome>>
        /\ readerPc \in {"setErr", "stop", "close"}
        /\ readerPc' \in {"stop", "close", "done"}
        /\ stopClosed => stopClosed'
    BY SMT DEF ReaderSetErr, ReaderStop, ReaderClose, workerVars, consumerVars
  <1>2. /\ taken' = taken /\ ReaderInv' /\ JobsInv' /\ DistinctInv' /\ TokenInv'
        /\ CoverageInv' /\ InOrder'
        /\ (consumerPc' = "done" <=> outcome' # "none") => ConsumerInv'
    BY <1>1, QuietStep
  <1>3. ConsumerInv'
    BY <1>1, <1>2, Zenon DEF IInv, ConsumerInv
  <1>4. TypeOK'
    <2>1. fileReadErr' \in BOOLEAN /\ stopClosed' \in BOOLEAN /\ jobsClosed' \in BOOLEAN
      BY Zenon DEF IInv, TypeOK, ReaderSetErr, ReaderStop, ReaderClose
    <2> QED BY <1>1, <2>1, Zenon DEF IInv, TypeOK
  <1>5. ClosingInv'
    BY <1>1, SMT DEF IInv, ClosingInv, ReaderSetErr, ReaderStop, ReaderClose
  <1>6. EOFInv'
    BY <1>1, <1>2, Zenon DEF IInv, EOFInv
  <1> QED BY <1>2, <1>3, <1>4, <1>5, <1>6 DEF IInv

(* The workers' steps.                                                     *)
LEMMA WorkerReceiveIInv ==
    ASSUME IInv, NEW w \in Workers, WorkerReceive(w)
    PROVE  IInv'
  <1> USE NumWorkersAssumption, MaxDocsAssumption
  <1> DEFINE n == Len(parseJobsChan)
             j == Head(parseJobsChan)
  <1>a. /\ workerPc[w] = "recv"
        /\ UNCHANGED <<input, readerPc, readerIdx, readPos, readerJob, available, jobsClosed,
                       stopClosed, fileReadErr, closedManagers,
                       consumerPc, consumerIdx, delivered, outcome>>
    BY Zenon DEF WorkerReceive, readerVars, consumerVars
  <1>b. acquired' = acquired /\ taken' = taken
    BY <1>a, SMT DEF acquired, taken
  <1>c. /\ n \in Nat /\ 1 <= n /\ parseJobsChan \in Seq(Jobs)
        /\ DOMAIN parseJobsChan = 1..n /\ DOMAIN parseJobsChan' = 1..(n - 1)
        /\ \A i \in 1..(n - 1) : parseJobsChan'[i] = parseJobsChan[i + 1]
        /\ parseJobsChan[1] = j /\ j \in Jobs
        /\ parseJobsChan' \in Seq(Jobs)
    BY SMT DEF IInv, TypeOK, WorkerReceive
  <1>d. /\ \A v \in Workers : v # w => workerPc'[v] = workerPc[v] /\ workerJob'[v] = workerJob[v]
        /\ workerPc'[w] = "send" /\ workerJob'[w] = j
        /\ workerPc' \in [Workers -> {"recv", "send", "signal", "done"}]
        /\ workerJob' \in [Workers -> Jobs \cup {NoJob}]
    BY <1>c, SMT DEF IInv, TypeOK, WorkerReceive
  <1>e. \A i \in DOMAIN parseJobsChan' :
          /\ i + 1 \in DOMAIN parseJobsChan /\ i + 1 # 1
          /\ parseJobsChan'[i] = parseJobsChan[i + 1]
    BY <1>c, SMT
  <1>f. 1 \in DOMAIN parseJobsChan /\ parseJobsChan[1] = j
    BY <1>c, SMT
  <1>g. \A i \in DOMAIN parseJobsChan :
          \/ i = 1
          \/ \E k \in DOMAIN parseJobsChan' : parseJobsChan'[k] = parseJobsChan[i]
    <2> SUFFICES ASSUME NEW i \in DOMAIN parseJobsChan, i # 1
                 PROVE  \E k \in DOMAIN parseJobsChan' : parseJobsChan'[k] = parseJobsChan[i]
      OBVIOUS
    <2>1. i - 1 \in DOMAIN parseJobsChan' /\ parseJobsChan'[i - 1] = parseJobsChan[i]
      BY <1>c, SMT
    <2> QED BY <2>1
  <1>h. \A i, k \in DOMAIN parseJobsChan' : i # k => i + 1 # k + 1
    BY <1>c, SMT
  <1> HIDE DEF n, j
  <1>1. TypeOK'
    BY <1>a, <1>c, <1>d, Zenon DEF IInv, TypeOK
  <1>2. ReaderInv'
    BY <1>a, Zenon DEF IInv, ReaderInv
  <1>3. JobsInv'
    <2>1. JobsInv
      BY DEF IInv
    <2>2. readerPc' = "send" => Pending(readerJob)'
      BY <2>1, <1>a, <1>b, Zenon DEF JobsInv, Pending, HoldsToken
    <2>3. \A i \in DOMAIN parseJobsChan' : Pending(parseJobsChan[i + 1])
      BY <2>1, <1>e, Zenon DEF JobsInv
    <2>4. \A i \in DOMAIN parseJobsChan' : Pending(parseJobsChan[i])'
      BY <2>3, <1>a, <1>b, <1>e, Zenon DEF Pending, HoldsToken
    <2>5. \A v \in Workers : workerPc'[v] = "send" => Pending(workerJob[v])'
      BY <2>1, <1>a, <1>b, <1>d, <1>f, Zenon DEF JobsInv, Pending, HoldsToken
    <2>6. \A v \in Workers : workerPc'[v] = "signal" =>
             HoldsToken(workerJob[v])' /\ workerJob'[v].doc <= taken'
      <3> TAKE v \in Workers
      <3>1. CASE v = w
        BY <3>1, <1>d, SMT
      <3>2. CASE v # w
        BY <3>2, <2>1, <1>a, <1>b, <1>d, Zenon DEF JobsInv, HoldsToken
      <3> QED BY <3>1, <3>2
    <2> QED BY <2>2, <2>4, <2>5, <2>6 DEF JobsInv
  <1>4. DistinctInv'
    <2>1. DistinctInv /\ JobsInv
      BY DEF IInv
    <2>2. \A i, k \in DOMAIN parseJobsChan' :
             i # k => parseJobsChan'[i].doc # parseJobsChan'[k].doc
      <3> TAKE i, k \in DOMAIN parseJobsChan'
      <3> HAVE i # k
      <3>1. /\ i + 1 \in DOMAIN parseJobsChan /\ parseJobsChan'[i] = parseJobsChan[i + 1]
            /\ k + 1 \in DOMAIN parseJobsChan /\ parseJobsChan'[k] = parseJobsChan[k + 1]
            /\ i + 1 # k + 1
        BY <1>e, <1>h, Zenon
      <3>2. parseJobsChan[i + 1].doc # parseJobsChan[k + 1].doc
        BY <2>1, <3>1, Zenon DEF DistinctInv
      <3> QED BY <3>1, <3>2
    <2>3. \A i \in DOMAIN parseJobsChan', v \in Workers :
             workerPc'[v] = "send" => parseJobsChan'[i].doc # workerJob'[v].doc
      <3> TAKE i \in DOMAIN parseJobsChan', v \in Workers
      <3> HAVE workerPc'[v] = "send"
      <3>1. i + 1 \in DOMAIN parseJobsChan /\ i + 1 # 1 /\ parseJobsChan'[i] = parseJobsChan[i + 1]
        BY <1>e
      <3>2. CASE v = w
        <4>1. parseJobsChan[i + 1].doc # parseJobsChan[1].doc
          BY <2>1, <3>1, <1>f, Zenon DEF DistinctInv
        <4> QED BY <4>1, <3>1, <3>2, <1>d, <1>f
      <3>3. CASE v # w
        <4>1. workerPc[v] = "send" /\ workerJob'[v] = workerJob[v]
          BY <3>3, <1>d
        <4> QED BY <4>1, <3>1, <2>1, Zenon DEF DistinctInv
      <3> QED BY <3>2, <3>3
    <2>4. \A v \in Workers : v # w /\ workerPc[v] \in {"send", "signal"} => workerJob[v].doc # j.doc
      <3> TAKE v \in Workers
      <3>1. CASE workerPc[v] = "send"
        BY <3>1, <2>1, <1>f, Zenon DEF DistinctInv
      <3>2. CASE workerPc[v] = "signal"
        <4>1. workerJob[v].doc <= taken /\ taken < j.doc
          BY <3>2, <2>1, <1>f, Zenon DEF JobsInv, Pending
        <4>2. workerJob[v].doc \in Int /\ taken \in Int /\ j.doc \in Int
          BY <1>c, SMT DEF IInv, TypeOK, taken, Jobs, NoJob
        <4> QED BY <4>1, <4>2, SMT
      <3> QED BY <3>1, <3>2
    <2>5. \A u, v \in Workers :
             u # v /\ workerPc'[u] \in {"send", "signal"} /\ workerPc'[v] \in {"send", "signal"}
               => workerJob'[u].doc # workerJob'[v].doc
      <3> TAKE u, v \in Workers
      <3> HAVE u # v /\ workerPc'[u] \in {"send", "signal"} /\ workerPc'[v] \in {"send", "signal"}
      <3>1. CASE u # w /\ v # w
        <4>1. /\ workerPc[u] \in {"send", "signal"} /\ workerJob'[u] = workerJob[u]
              /\ workerPc[v] \in {"send", "signal"} /\ workerJob'[v] = workerJob[v]
          BY <3>1, <1>d
        <4> QED BY <4>1, <2>1, Zenon DEF DistinctInv
      <3>2. CASE u = w
        <4>1. workerPc[v] \in {"send", "signal"} /\ workerJob'[v] = workerJob[v] /\ v # w
          BY <3>2, <1>d
        <4> QED BY <4>1, <3>2, <2>4, <1>d
      <3>3. CASE v = w
        <4>1. workerPc[u] \in {"send", "signal"} /\ workerJob'[u] = workerJob[u] /\ u # w
          BY <3>3, <1>d
        <4> QED BY <4>1, <3>3, <2>4, <1>d
      <3> QED BY <3>1, <3>2, <3>3
    <2>6. readerPc' = "send" =>
            /\ \A i \in DOMAIN parseJobsChan' : parseJobsChan'[i].doc # readPos'
            /\ \A v \in Workers : workerPc'[v] = "send" => workerJob'[v].doc # readPos'
      <3> SUFFICES ASSUME readerPc = "send"
          PROVE /\ \A i \in DOMAIN parseJobsChan' : parseJobsChan'[i].doc # readPos
                /\ \A v \in Workers : workerPc'[v] = "send" => workerJob'[v].doc # readPos
        BY <1>a
      <3>1. \A i \in DOMAIN parseJobsChan : parseJobsChan[i].doc # readPos
        BY <2>1, Zenon DEF DistinctInv
      <3>2. \A v \in Workers : workerPc[v] = "send" => workerJob[v].doc # readPos
        BY <2>1, Zenon DEF DistinctInv
      <3>3. ASSUME NEW v \in Workers, workerPc'[v] = "send" PROVE workerJob'[v].doc # readPos
        BY <3>1, <3>2, <3>3, <1>d, <1>f
      <3> QED BY <3>1, <3>3, <1>e
    <2> QED BY <2>2, <2>3, <2>5, <2>6, Zenon DEF DistinctInv
  <1>5. TokenInv'
    BY <1>a, <1>b, Zenon DEF IInv, TokenInv
  <1>6. ConsumerInv'
    BY <1>a, <1>b, Zenon DEF IInv, ConsumerInv
  <1>7. CoverageInv'
    <2> SUFFICES ASSUME ~stopClosed, NEW d \in 1..acquired, taken < d
        PROVE  \/ readerPc' = "send" /\ readPos' = d
               \/ \E i \in DOMAIN parseJobsChan' : parseJobsChan'[i].doc = d
               \/ \E v \in Workers : workerPc'[v] = "send" /\ workerJob'[v].doc = d
      BY <1>a, <1>b, Zenon DEF CoverageInv
    <2>1. \/ readerPc = "send" /\ readPos = d
          \/ \E i \in DOMAIN parseJobsChan : parseJobsChan[i].doc = d
          \/ \E v \in Workers : workerPc[v] = "send" /\ workerJob[v].doc = d
      BY Zenon DEF IInv, CoverageInv
    <2>2. CASE readerPc = "send" /\ readPos = d
      BY <2>2, <1>a
    <2>3. CASE \E i \in DOMAIN parseJobsChan : parseJobsChan[i].doc = d
      BY <2>3, <1>d, <1>f, <1>g, ZenonT(60)
    <2>4. CASE \E v \in Workers : workerPc[v] = "send" /\ workerJob[v].doc = d
      <3> PICK v \in Workers : workerPc[v] = "send" /\ workerJob[v].doc = d
        BY <2>4
      <3>1. v # w
        BY <1>a, SMT
      <3> QED BY <3>1, <1>d
    <2> QED BY <2>1, <2>2, <2>3, <2>4
  <1>8. ClosingInv'
    <2>1. \A v \in Workers : workerPc'[v] = "done" => workerPc[v] = "done" /\ v # w
      BY <1>d, SMT
    <2>2. stopClosed \/ ~jobsClosed \/ ~(\E v \in Workers : workerPc[v] = "done")
      BY <1>c, SMT DEF IInv, ClosingInv
    <2>3. ~(closedManagers > 0)
      BY <1>a, SMT DEF IInv, ClosingInv
    <2> QED BY <2>1, <2>2, <2>3, <1>a, Zenon DEF IInv, ClosingInv
  <1>9. EOFInv' /\ InOrder'
    BY <1>a, <1>b, Zenon DEF IInv, EOFInv, InOrder
  <1> QED
    BY <1>1, <1>2, <1>3, <1>4, <1>5, <1>6, <1>7, <1>8, <1>9 DEF IInv

(* Documents stay distinct when no goroutine gets a new one.               *)
LEMMA DistinctFrame ==
    ASSUME DistinctInv,
           UNCHANGED <<readerPc, readPos, parseJobsChan, workerJob>>,
           \A v \in Workers : workerPc'[v] = "send" => workerPc[v] = "send",
           \A v \in Workers :
               workerPc'[v] \in {"send", "signal"} => workerPc[v] \in {"send", "signal"}
    PROVE  DistinctInv'
  <1>1. \A u, v \in Workers :
          u # v /\ workerPc'[u] \in {"send", "signal"} /\ workerPc'[v] \in {"send", "signal"}
             => workerJob'[u].doc # workerJob'[v].doc
    <2> TAKE u, v \in Workers
    <2> HAVE u # v /\ workerPc'[u] \in {"send", "signal"} /\ workerPc'[v] \in {"send", "signal"}
    <2>1. workerPc[u] \in {"send", "signal"} /\ workerPc[v] \in {"send", "signal"}
      OBVIOUS
    <2> QED BY <2>1, Zenon DEF DistinctInv
  <1>2. \A i \in DOMAIN parseJobsChan', v \in Workers :
          workerPc'[v] = "send" => parseJobsChan'[i].doc # workerJob'[v].doc
    BY Zenon DEF DistinctInv
  <1>3. readerPc' = "send" =>
          /\ \A i \in DOMAIN parseJobsChan' : parseJobsChan'[i].doc # readPos'
          /\ \A v \in Workers : workerPc'[v] = "send" => workerJob'[v].doc # readPos'
    BY Zenon DEF DistinctInv
  <1>4. \A i, k \in DOMAIN parseJobsChan' :
          i # k => parseJobsChan'[i].doc # parseJobsChan'[k].doc
    BY Zenon DEF DistinctInv
  <1> QED BY <1>1, <1>2, <1>3, <1>4, Zenon DEF DistinctInv

(* A worker returns: it holds no job, or stop is closed and nothing is     *)
(* promised about the job it drops.                                        *)
LEMMA WorkerReturnIInv ==
    ASSUME IInv, NEW w \in Workers, WorkerFinish(w) \/ WorkerStop(w)
    PROVE  IInv'
  <1> USE NumWorkersAssumption, MaxDocsAssumption
  <1>a. /\ UNCHANGED <<input, readerPc, readerIdx, readPos, readerJob, available,
                       parseJobsChan, jobsClosed, stopClosed, fileReadErr, workerJob,
                       closedManagers, consumerPc, consumerIdx, delivered, outcome>>
        /\ workerPc[w] = "recv" \/ stopClosed
        /\ stopClosed \/ (jobsClosed /\ parseJobsChan = <<>>)
        /\ workerPc' = [workerPc EXCEPT ![w] = "done"]
    BY Zenon DEF WorkerFinish, WorkerStop, readerVars, consumerVars
  <1>b. acquired' = acquired /\ taken' = taken
    BY <1>a, SMT DEF acquired, taken
  <1>c. /\ workerPc' \in [Workers -> {"recv", "send", "signal", "done"}]
        /\ workerPc'[w] = "done"
        /\ \A v \in Workers : v # w => workerPc'[v] = workerPc[v]
    BY <1>a, SMT DEF IInv, TypeOK
  <1>d. \A v \in Workers : workerPc'[v] \in {"send", "signal"} => workerPc'[v] = workerPc[v]
    BY <1>c, SMT
  <1>1. TypeOK'
    BY <1>a, <1>c, Zenon DEF IInv, TypeOK
  <1>2. ReaderInv' /\ TokenInv' /\ ConsumerInv' /\ EOFInv' /\ InOrder'
    BY <1>a, <1>b, Zenon DEF IInv, ReaderInv, TokenInv, ConsumerInv, EOFInv, InOrder
  <1>3. JobsInv'
    BY <1>a, <1>b, <1>d, Zenon DEF IInv, JobsInv, Pending, HoldsToken
  <1>4. DistinctInv'
    BY <1>a, <1>d, DistinctFrame DEF IInv
  <1>5. CoverageInv'
    <2>1. ~stopClosed => \A v \in Workers : workerPc[v] = "send" => workerPc'[v] = "send"
      BY <1>a, <1>c, SMT
    <2> QED BY <2>1, <1>a, <1>b, Zenon DEF IInv, CoverageInv
  <1>6. ClosingInv'
    <2>1. \A v \in Workers : workerPc[v] = "done" => workerPc'[v] = "done"
      BY <1>c, Zenon
    <2> QED BY <2>1, <1>a, Zenon DEF IInv, ClosingInv
  <1> QED BY <1>1, <1>2, <1>3, <1>4, <1>5, <1>6 DEF IInv

(* A worker gives the token back: its document is taken, and no later      *)
(* document of the same manager is on its way.                             *)
LEMMA WorkerSignalIInv ==
    ASSUME IInv, NEW w \in Workers, WorkerSignal(w)
    PROVE  IInv'
  <1> USE NumWorkersAssumption, MaxDocsAssumption
  <1> DEFINE j == workerJob[w]
  <1>a. /\ workerPc[w] = "signal"
        /\ UNCHANGED <<input, readerPc, readerIdx, readPos, readerJob, parseJobsChan,
                       jobsClosed, stopClosed, fileReadErr, workerJob, closedManagers,
                       consumerPc, consumerIdx, delivered, outcome>>
        /\ available' = [available EXCEPT ![j.mgr] = TRUE]
    BY Zenon DEF WorkerSignal, readerVars, consumerVars
  <1>b. acquired' = acquired /\ taken' = taken /\ acquired \in Int /\ taken \in Nat
    BY <1>a, SMT DEF acquired, taken, IInv, TypeOK
  <1>c. /\ workerPc' \in [Workers -> {"recv", "send", "signal", "done"}]
        /\ workerPc'[w] = "recv"
        /\ \A v \in Workers : v # w => workerPc'[v] = workerPc[v]
    BY SMT DEF IInv, TypeOK, WorkerSignal
  <1>d. \A v \in Workers : workerPc'[v] \in {"send", "signal"} => workerPc'[v] = workerPc[v] /\ v # w
    BY <1>c, SMT
  <1>e. HoldsToken(j) /\ j.doc <= taken /\ j.doc \in Nat /\ j.mgr \in Managers
    BY <1>a, SMT DEF IInv, JobsInv, TypeOK, Jobs, NoJob, Managers
  <1>f. /\ available' \in [Managers -> BOOLEAN]
        /\ \A m \in Managers : m # j.mgr => available'[m] = available[m]
    BY <1>a, <1>e, SMT DEF IInv, TypeOK
  <1> HIDE DEF j
  <1>g. ASSUME NEW k \in Jobs \cup {NoJob}, HoldsToken(k), k.doc # j.doc
        PROVE  HoldsToken(k)'
    <2>1. k.doc \in Nat /\ k.mgr \in Managers
      BY SMT DEF Jobs, NoJob, Managers
    <2>2. k.mgr # j.mgr
      <3> SUFFICES ASSUME k.mgr = j.mgr PROVE FALSE
        OBVIOUS
      <3>1. (k.doc - 1) % NumWorkers = (j.doc - 1) % NumWorkers
        BY <1>e, <1>g DEF HoldsToken
      <3>2. /\ k.doc - 1 \in Nat /\ j.doc - 1 \in Nat
            /\ k.doc - 1 < (j.doc - 1) + NumWorkers
            /\ j.doc - 1 < (k.doc - 1) + NumWorkers
        <4>1. /\ 1 <= k.doc /\ k.doc <= acquired /\ acquired < k.doc + NumWorkers
              /\ 1 <= j.doc /\ j.doc <= acquired /\ acquired < j.doc + NumWorkers
          BY <1>e, <1>g DEF HoldsToken
        <4> QED BY <4>1, <1>b, <1>e, <2>1, SMT
      <3>3. k.doc - 1 = j.doc - 1
        <4>1. CASE k.doc - 1 <= j.doc - 1
          BY <4>1, <3>1, <3>2, ModUnique
        <4>2. CASE j.doc - 1 <= k.doc - 1
          BY <4>2, <3>1, <3>2, ModUnique
        <4> QED BY <4>1, <4>2, <3>2, SMT
      <3> QED BY <3>3, <1>e, <1>g, <2>1, SMT
    <2> QED BY <2>1, <2>2, <1>b, <1>f, <1>g DEF HoldsToken
  <1>h. ASSUME NEW k \in Jobs \cup {NoJob}, Pending(k)
        PROVE  Pending(k)'
    <2>1. k.doc \in Nat /\ taken < k.doc
      BY <1>h, SMT DEF Jobs, NoJob, Pending
    <2>2. k.doc # j.doc
      BY <2>1, <1>b, <1>e, SMT
    <2> QED BY <2>2, <1>b, <1>g, <1>h DEF Pending
  <1>1. TypeOK'
    BY <1>a, <1>c, <1>f, Zenon DEF IInv, TypeOK
  <1>2. ReaderInv' /\ ConsumerInv' /\ EOFInv' /\ InOrder'
    BY <1>a, <1>b, Zenon DEF IInv, ReaderInv, ConsumerInv, EOFInv, InOrder
  <1>3. JobsInv'
    <2>1. JobsInv /\ DistinctInv
      BY DEF IInv
    <2>2. readerJob \in Jobs \cup {NoJob} /\ \A v \in Workers : workerJob[v] \in Jobs \cup {NoJob}
      BY SMT DEF IInv, TypeOK
    <2>3. \A i \in DOMAIN parseJobsChan : parseJobsChan[i] \in Jobs
      BY SMT DEF IInv, TypeOK
    <2>4. readerPc' = "send" => Pending(readerJob)'
      BY <2>1, <2>2, <1>a, <1>h DEF JobsInv
    <2>5. \A i \in DOMAIN parseJobsChan' : Pending(parseJobsChan[i])'
      BY <2>1, <2>3, <1>a, <1>h DEF JobsInv
    <2>6. \A v \in Workers : workerPc'[v] = "send" => Pending(workerJob[v])'
      BY <2>1, <2>2, <1>a, <1>d, <1>h DEF JobsInv
    <2>7. ASSUME NEW v \in Workers, workerPc'[v] = "signal"
          PROVE  HoldsToken(workerJob[v])' /\ workerJob'[v].doc <= taken'
      <3>1. workerPc[v] = "signal" /\ v # w
        BY <2>7, <1>d
      <3>2. workerJob[v].doc # j.doc
        BY <3>1, <2>1, <1>a, SMT DEF DistinctInv, j
      <3>3. HoldsToken(workerJob[v]) /\ workerJob[v].doc <= taken
        BY <3>1, <2>1 DEF JobsInv
      <3> QED BY <3>2, <3>3, <2>2, <1>a, <1>b, <1>g
    <2> QED BY <2>4, <2>5, <2>6, <2>7 DEF JobsInv
  <1>4. DistinctInv'
    BY <1>a, <1>d, DistinctFrame DEF IInv
  <1>5. TokenInv'
    <2> SUFFICES ASSUME NEW m \in Managers, available'[m],
                        NEW d \in 1..acquired, (d - 1) % NumWorkers = m
                 PROVE  d <= taken
      BY <1>b, Zenon DEF TokenInv
    <2>1. CASE m # j.mgr
      BY <2>1, <1>f, Zenon DEF IInv, TokenInv
    <2>2. CASE m = j.mgr
      <3> SUFFICES ASSUME taken < d PROVE FALSE
        BY <1>b, SMT
      <3>1. /\ j.doc - 1 \in Nat /\ d - 1 \in Nat /\ j.doc - 1 <= d - 1
            /\ d - 1 < (j.doc - 1) + NumWorkers
        BY <1>b, <1>e, SMT DEF HoldsToken
      <3>2. (j.doc - 1) % NumWorkers = (d - 1) % NumWorkers
        BY <2>2, <1>e DEF HoldsToken
      <3>3. j.doc - 1 = d - 1
        BY <3>1, <3>2, ModUnique
      <3> QED BY <3>1, <3>3, <1>b, <1>e, SMT
    <2> QED BY <2>1, <2>2
  <1>6. CoverageInv'
    <2>1. \A v \in Workers : workerPc[v] = "send" => workerPc'[v] = "send"
      BY <1>a, <1>c, SMT
    <2> QED BY <2>1, <1>a, <1>b, Zenon DEF IInv, CoverageInv
  <1>7. ClosingInv'
    <2>1. \A v \in Workers : workerPc'[v] = "done" <=> workerPc[v] = "done"
      BY <1>a, <1>c, SMT
    <2> QED BY <2>1, <1>a, Zenon DEF IInv, ClosingInv
  <1> QED BY <1>1, <1>2, <1>3, <1>4, <1>5, <1>6, <1>7 DEF IInv

(* The consumer takes a result: it is the next document of the file.       *)
LEMMA WorkerDeliverIInv ==
    ASSUME IInv, NEW w \in Workers, WorkerDeliver(w)
    PROVE  IInv'
  <1> USE NumWorkersAssumption, MaxDocsAssumption
  <1> DEFINE d == workerJob[w].doc
  <1>a. /\ workerPc[w] = "send" /\ consumerPc = "next" /\ workerJob[w].mgr = consumerIdx
        /\ UNCHANGED <<input, readerPc, readerIdx, readPos, readerJob, available,
                       parseJobsChan, jobsClosed, stopClosed, fileReadErr, workerJob,
                       closedManagers>>
        /\ TakeResult(d)
    BY Zenon DEF WorkerDeliver, readerVars
  <1>b. d = taken + 1
    BY <1>a, NextIsUnique
  <1>c. outcome = "none" /\ taken = Len(delivered) /\ taken \in Nat /\ delivered \in Seq(1..MaxDocs)
    BY <1>a, SMT DEF IInv, TypeOK, ConsumerInv, taken
  <1>d. /\ workerPc' \in [Workers -> {"recv", "send", "signal", "done"}]
        /\ workerPc'[w] = "signal"
        /\ \A v \in Workers : v # w => workerPc'[v] = workerPc[v]
    BY SMT DEF IInv, TypeOK, WorkerDeliver
  <1>e. /\ \A v \in Workers : workerPc'[v] = "send" => workerPc[v] = "send" /\ v # w
        /\ \A v \in Workers : workerPc'[v] = "signal" => v = w \/ workerPc[v] = "signal"
        /\ \A v \in Workers : workerPc[v] = "send" => v = w \/ workerPc'[v] = "send"
        /\ \A v \in Workers :
             workerPc'[v] \in {"send", "signal"} => workerPc[v] \in {"send", "signal"}
    BY <1>a, <1>d, SMT
  <1>f. Pending(workerJob[w]) /\ workerJob[w] \in Jobs
    <2>1. Pending(workerJob[w]) /\ workerJob[w] \in Jobs \cup {NoJob}
      BY <1>a DEF IInv, JobsInv, TypeOK
    <2> QED BY <2>1, SMT DEF Pending, HoldsToken, NoJob
  <1>g. /\ \/ /\ outcome' = "parseErr" /\ consumerPc' = "done" /\ delivered' = delivered
           \/ /\ outcome' = "none" /\ consumerPc' = "check" /\ delivered' = Append(delivered, d)
        /\ consumerIdx' = (consumerIdx + 1) % NumWorkers
    BY <1>a, <1>c, Zenon DEF TakeResult
  <1>h. /\ d \in 1..MaxDocs
        /\ delivered' \in Seq(1..MaxDocs)
        /\ taken' = taken + 1
    <2>1. d \in 1..MaxDocs
      BY <1>f, SMT DEF Jobs
    <2> HIDE DEF d
    <2>2. CASE outcome' = "parseErr" /\ delivered' = delivered
      BY <2>1, <2>2, <1>c, SMT DEF taken
    <2>3. CASE outcome' = "none" /\ delivered' = Append(delivered, d)
      <3>1. delivered' \in Seq(1..MaxDocs) /\ Len(delivered') = Len(delivered) + 1
        BY <2>1, <2>3, <1>c, SMT
      <3> QED BY <2>1, <2>3, <3>1, <1>c, SMT DEF taken
    <2> QED BY <2>1, <2>2, <2>3, <1>g
  <1>i. acquired' = acquired /\ acquired \in Int /\ d <= acquired
    BY <1>a, <1>f, SMT DEF acquired, Pending, HoldsToken, IInv, TypeOK
  <1> HIDE DEF d
  <1>j. ASSUME NEW k \in Jobs \cup {NoJob}, Pending(k), k.doc # d
        PROVE  Pending(k)'
    <2>1. k.doc \in Nat
      BY SMT DEF Jobs, NoJob
    <2>2. taken' < k.doc
      BY <2>1, <1>b, <1>c, <1>h, <1>j, SMT DEF Pending
    <2> QED BY <2>2, <1>a, <1>i, <1>j, Zenon DEF Pending, HoldsToken
  <1>1. TypeOK'
    <2>1. consumerIdx' \in Managers
      BY <1>g, DivMod, SMT DEF IInv, TypeOK, Managers
    <2>2. outcome' \in Outcomes /\ consumerPc' \in {"check", "next", "done"}
      BY <1>g, SMT DEF Outcomes, Ordered!Outcomes
    <2> QED BY <2>1, <2>2, <1>a, <1>d, <1>h, Zenon DEF IInv, TypeOK
  <1>2. ReaderInv'
    BY <1>a, Zenon DEF IInv, ReaderInv
  <1>3. JobsInv'
    <2>1. JobsInv /\ DistinctInv
      BY DEF IInv
    <2>2. readerJob \in Jobs \cup {NoJob} /\ \A v \in Workers : workerJob[v] \in Jobs \cup {NoJob}
      BY SMT DEF IInv, TypeOK
    <2>3. \A i \in DOMAIN parseJobsChan : parseJobsChan[i] \in Jobs
      BY SMT DEF IInv, TypeOK
    <2>4. readerPc' = "send" => Pending(readerJob)'
      <3>1. readerPc = "send" => readerJob.doc # d
        BY <2>1, <1>a, SMT DEF DistinctInv, IInv, ReaderInv, d
      <3> QED BY <3>1, <2>1, <2>2, <1>a, <1>j DEF JobsInv
    <2>5. \A i \in DOMAIN parseJobsChan' : Pending(parseJobsChan[i])'
      <3>1. \A i \in DOMAIN parseJobsChan : parseJobsChan[i].doc # d
        BY <2>1, <1>a, Zenon DEF DistinctInv, d
      <3> QED BY <3>1, <2>1, <2>3, <1>a, <1>j DEF JobsInv
    <2>6. ASSUME NEW v \in Workers, workerPc'[v] = "send"
          PROVE  Pending(workerJob[v])'
      <3>1. workerPc[v] = "send" /\ v # w
        BY <2>6, <1>e
      <3>2. workerJob[v].doc # d
        BY <3>1, <2>1, <1>a, SMT DEF DistinctInv, d
      <3> QED BY <3>1, <3>2, <2>1, <2>2, <1>a, <1>j DEF JobsInv
    <2>7. ASSUME NEW v \in Workers, workerPc'[v] = "signal"
          PROVE  HoldsToken(workerJob[v])' /\ workerJob'[v].doc <= taken'
      <3>1. HoldsToken(workerJob[v])
        BY <2>1, <2>7, <1>e, <1>f DEF JobsInv, Pending
      <3>2. CASE v = w
        BY <3>1, <3>2, <1>a, <1>b, <1>c, <1>h, <1>i, SMT DEF HoldsToken, d
      <3>3. CASE v # w
        <4>1. workerJob[v].doc <= taken /\ workerJob[v].doc \in Nat
          BY <2>1, <2>2, <2>7, <3>3, <1>e, SMT DEF JobsInv, Jobs, NoJob
        <4>2. workerJob'[v].doc <= taken'
          BY <4>1, <1>a, <1>c, <1>h, SMT
        <4> QED BY <4>2, <3>1, <1>a, <1>i, Zenon DEF HoldsToken
      <3> QED BY <3>2, <3>3
    <2> QED BY <2>4, <2>5, <2>6, <2>7 DEF JobsInv
  <1>4. DistinctInv'
    BY <1>a, <1>e, DistinctFrame DEF IInv
  <1>5. TokenInv'
    <2> SUFFICES ASSUME NEW m \in Managers, available[m],
                        NEW e \in 1..acquired, (e - 1) % NumWorkers = m
                 PROVE  e <= taken'
      BY <1>a, <1>i, Zenon DEF TokenInv
    <2>1. e <= taken
      BY Zenon DEF IInv, TokenInv
    <2> QED BY <2>1, <1>c, <1>h, <1>i, SMT
  <1>6. ConsumerInv'
    <2>1. consumerIdx' = taken' % NumWorkers
      BY <1>c, <1>g, <1>h, ModSucc DEF IInv, ConsumerInv
    <2>2. taken' <= acquired' /\ acquired' <= taken' + NumWorkers
      BY <1>b, <1>c, <1>h, <1>i, SMT DEF IInv, ConsumerInv
    <2>3. consumerPc' = "done" <=> outcome' # "none"
      BY <1>g, SMT
    <2> QED BY <2>1, <2>2, <2>3 DEF ConsumerInv
  <1>7. CoverageInv'
    <2> SUFFICES ASSUME ~stopClosed, NEW e \in 1..acquired, taken' < e
        PROVE  \/ readerPc = "send" /\ readPos = e
               \/ \E i \in DOMAIN parseJobsChan : parseJobsChan[i].doc = e
               \/ \E v \in Workers : workerPc'[v] = "send" /\ workerJob[v].doc = e
      BY <1>a, <1>i, Zenon DEF CoverageInv
    <2>1. taken < e /\ e # d
      BY <1>b, <1>c, <1>h, <1>i, SMT
    <2>2. \/ readerPc = "send" /\ readPos = e
          \/ \E i \in DOMAIN parseJobsChan : parseJobsChan[i].doc = e
          \/ \E v \in Workers : workerPc[v] = "send" /\ workerJob[v].doc = e
      BY <2>1, Zenon DEF IInv, CoverageInv
    <2> QED BY <2>1, <2>2, <1>e, Zenon DEF d
  <1>8. ClosingInv'
    <2>1. \A v \in Workers : workerPc'[v] = "done" <=> workerPc[v] = "done"
      BY <1>a, <1>d, SMT
    <2> QED BY <2>1, <1>a, Zenon DEF IInv, ClosingInv
  <1>9. EOFInv'
    BY <1>g, SMT DEF EOFInv
  <1>10. InOrder'
    <2>1. CASE delivered' = delivered
      BY <2>1, Zenon DEF IInv, InOrder
    <2>2. CASE delivered' = Append(delivered, d)
      BY <2>2, <1>b, <1>c, SMT DEF IInv, InOrder
    <2> QED BY <2>1, <2>2, <1>g
  <1> QED
    BY <1>1, <1>2, <1>3, <1>4, <1>5, <1>6, <1>7, <1>8, <1>9, <1>10 DEF IInv

(* The steps of the pool's closing goroutine and of the consumer's loop.   *)
LEMMA CloseAndCheckIInv ==
    ASSUME IInv, PoolClose \/ ConsumerCheck \/ Terminating
    PROVE  IInv'
  <1> USE NumWorkersAssumption, MaxDocsAssumption
  <1>1. /\ UNCHANGED <<input, readerPc, readPos, readerIdx, readerJob, available,
                       parseJobsChan, jobsClosed, stopClosed, fileReadErr, workerPc,
                       workerJob, delivered, consumerIdx>>
        /\ outcome' = outcome \/ (outcome = "none" /\ outcome' = "readErr")
        /\ consumerPc' = "done" <=> outcome' # "none"
        /\ consumerPc' \in {"check", "next", "done"}
    BY SMT DEF PoolClose, ConsumerCheck, Terminating, vars, readerVars, workerVars,
               consumerVars, IInv, ConsumerInv, TypeOK
  <1>2. /\ taken' = taken /\ ReaderInv' /\ JobsInv' /\ DistinctInv' /\ TokenInv'
        /\ CoverageInv' /\ InOrder'
        /\ (consumerPc' = "done" <=> outcome' # "none") => ConsumerInv'
    BY <1>1, QuietStep
  <1>3. /\ closedManagers' \in 0..NumWorkers
        /\ closedManagers > 0 => closedManagers' > 0
        /\ closedManagers' > 0 => \A w \in Workers : workerPc[w] = "done"
    BY SMT DEF PoolClose, ConsumerCheck, Terminating, vars, IInv, TypeOK, ClosingInv
  <1>4. TypeOK'
    BY <1>1, <1>3, Zenon DEF IInv, TypeOK, Outcomes, Ordered!Outcomes
  <1>5. ClosingInv'
    BY <1>1, <1>3, Zenon DEF IInv, ClosingInv
  <1>6. EOFInv'
    BY <1>1, <1>2, <1>3, SMT DEF IInv, EOFInv
  <1> QED BY <1>1, <1>2, <1>4, <1>5, <1>6 DEF IInv

(* next() returns io.EOF: all workers are done, so no document is on its   *)
(* way, and unless the workers were stopped every one has been taken.      *)
LEMMA ConsumerEOFIInv ==
    ASSUME IInv, ConsumerEOF
    PROVE  IInv'
  <1> USE NumWorkersAssumption, MaxDocsAssumption
  <1>1. /\ UNCHANGED <<input, readerPc, readPos, readerIdx, readerJob, available,
                       parseJobsChan, jobsClosed, stopClosed, fileReadErr, workerPc,
                       workerJob, delivered, consumerIdx, closedManagers>>
        /\ outcome = "none" /\ outcome' = "EOF" /\ consumerPc' = "done"
    BY SMT DEF ConsumerEOF, readerVars, workerVars, IInv, ConsumerInv
  <1>2. /\ taken' = taken /\ ReaderInv' /\ JobsInv' /\ DistinctInv' /\ TokenInv'
        /\ CoverageInv' /\ InOrder'
        /\ (consumerPc' = "done" <=> outcome' # "none") => ConsumerInv'
    BY <1>1, QuietStep
  <1>3. ConsumerInv'
    BY <1>1, <1>2, SMT
  <1>4. closedManagers > 0 /\ \A w \in Workers : workerPc[w] = "done"
    BY SMT DEF ConsumerEOF, IInv, TypeOK, ClosingInv, Managers
  <1>5. ~stopClosed => taken = input.n
    <2> SUFFICES ASSUME ~stopClosed PROVE taken = input.n
      OBVIOUS
    <2>1. 1 \in Workers
      BY SMT DEF Workers
    <2>2. readerPc = "done" /\ parseJobsChan = <<>> /\ readPos = input.n
      BY <1>4, <2>1, SMT DEF IInv, ClosingInv
    <2>3. acquired = readPos /\ acquired \in Nat /\ taken \in Nat /\ taken <= acquired
      BY <2>2, SMT DEF acquired, taken, IInv, TypeOK, ConsumerInv
    <2>4. ~(taken < acquired)
      <3> SUFFICES ASSUME taken < acquired PROVE FALSE
        OBVIOUS
      <3>1. acquired \in 1..acquired
        BY <2>3, SMT
      <3>2. \/ readerPc = "send" /\ readPos = acquired
            \/ \E i \in DOMAIN parseJobsChan : parseJobsChan[i].doc = acquired
            \/ \E v \in Workers : workerPc[v] = "send" /\ workerJob[v].doc = acquired
        BY <3>1, Zenon DEF IInv, CoverageInv
      <3> QED BY <3>2, <2>2, <1>4, SMT
    <2> QED BY <2>2, <2>3, <2>4, SMT
  <1>6. TypeOK'
    BY <1>1, Zenon DEF IInv, TypeOK, Outcomes, Ordered!Outcomes
  <1>7. ClosingInv'
    BY <1>1, Zenon DEF IInv, ClosingInv
  <1>8. EOFInv'
    BY <1>1, <1>2, <1>4, <1>5, Zenon DEF EOFInv
  <1> QED BY <1>2, <1>3, <1>6, <1>7, <1>8 DEF IInv

LEMMA NextIInv == IInv /\ [Next]_vars => IInv'
  <1> SUFFICES ASSUME IInv, [Next]_vars PROVE IInv'
    OBVIOUS
  <1>1. CASE Reader
    BY <1>1, ReaderReadIInv, ReaderAcquireIInv, ReaderSendIInv, ReaderEndIInv DEF Reader
  <1>2. CASE \E w \in Workers : Worker(w)
    BY <1>2, WorkerReceiveIInv, WorkerReturnIInv, WorkerDeliverIInv, WorkerSignalIInv DEF Worker
  <1>3. CASE PoolClose \/ ConsumerCheck \/ Terminating
    BY <1>3, CloseAndCheckIInv
  <1>4. CASE ConsumerEOF
    BY <1>4, ConsumerEOFIInv
  <1>5. CASE UNCHANGED vars
    <2>1. UNCHANGED <<input, readerPc, readPos, readerIdx, readerJob, available,
                      parseJobsChan, jobsClosed, stopClosed, fileReadErr, workerPc,
                      workerJob, closedManagers, consumerPc, consumerIdx, delivered, outcome>>
      BY <1>5, Zenon DEF vars, readerVars, workerVars, consumerVars
    <2>2. /\ taken' = taken /\ ReaderInv' /\ JobsInv' /\ DistinctInv' /\ TokenInv'
          /\ CoverageInv' /\ InOrder'
          /\ (consumerPc' = "done" <=> outcome' # "none") => ConsumerInv'
      BY <2>1, QuietStep
    <2>3. TypeOK'
      BY <2>1, Zenon DEF IInv, TypeOK
    <2>4. ClosingInv' /\ EOFInv' /\ ConsumerInv'
      BY <2>1, <2>2, Zenon DEF IInv, ClosingInv, EOFInv, ConsumerInv
    <2> QED BY <2>2, <2>3, <2>4 DEF IInv
  <1> QED BY <1>1, <1>2, <1>3, <1>4, <1>5 DEF Next

(* Every reachable state satisfies the inductive invariant, for any number *)
(* of workers and any file.                                                *)
THEOREM Invariance == Spec => []IInv
  <1>1. Init => IInv
    BY InitIInv
  <1>2. IInv /\ [Next]_vars => IInv'
    BY NextIInv
  <1> QED BY <1>1, <1>2, PTL DEF Spec

(* Type correctness.                                                       *)
THEOREM TypeCorrect == Spec => []TypeOK
  <1>1. IInv => TypeOK
    BY DEF IInv
  <1> QED BY <1>1, Invariance, PTL

(* next() returns the ops in file order, whatever the interleaving.        *)
THEOREM DeliveredInOrder == Spec => []InOrder
  <1>1. IInv => InOrder
    BY DEF IInv
  <1> QED BY <1>1, Invariance, PTL

(* io.EOF after a read that did not fail means every op was delivered.     *)
THEOREM EOFComplete == Spec => []EOFIsComplete
  <1>1. IInv => EOFIsComplete
    <2> SUFFICES ASSUME IInv, outcome = "EOF", input.end # "error"
                 PROVE  Len(delivered) = input.n
      BY DEF EOFIsComplete
    <2>1. ~stopClosed
      BY DEF IInv, ClosingInv
    <2>2. taken = input.n
      BY <2>1 DEF IInv, EOFInv
    <2>3. taken = Len(delivered)
      BY SMT DEF taken, IInv, TypeOK
    <2> QED BY <2>2, <2>3
  <1> QED BY <1>1, Invariance, PTL

(* After io.EOF the next generation can seek in the file: the reading      *)
(* goroutine and the workers of this pass are through with it.             *)
THEOREM EOFQuiet == Spec => []EOFMeansQuiet
  <1>1. IInv => EOFMeansQuiet
    <2> SUFFICES ASSUME IInv, outcome = "EOF"
                 PROVE  /\ readerPc \in {"close", "done"}
                        /\ \A w \in Workers : workerPc[w] = "done"
      BY DEF EOFMeansQuiet
    <2>1. \A w \in Workers : workerPc[w] = "done"
      BY DEF IInv, EOFInv, ClosingInv
    <2>2. 1 \in Workers
      BY NumWorkersAssumption, SMT DEF Workers
    <2>3. stopClosed \/ jobsClosed
      BY <2>1, <2>2 DEF IInv, ClosingInv
    <2>4. readerPc \in {"close", "done"}
      BY <2>3, SMT DEF IInv, ClosingInv
    <2> QED BY <2>1, <2>4
  <1> QED BY <1>1, Invariance, PTL

(* The goroutines together implement the sequential pass over the file.    *)
THEOREM Refinement == Spec => ImplementsOrderedRead
  <1> USE NumWorkersAssumption, MaxDocsAssumption
  <1>1. Init => Ordered!Init
    BY DEF Init, Ordered!Init, Inputs
  <1>2. IInv /\ [Next]_vars => [Ordered!Next]_(Ordered!absVars)
    <2> SUFFICES ASSUME IInv, [Next]_vars
                 PROVE  Ordered!Next \/ UNCHANGED <<input, delivered, outcome>>
      BY DEF Ordered!absVars
    <2>1. CASE Reader \/ PoolClose \/ Terminating \/ UNCHANGED vars
      BY <2>1, Zenon DEF Reader, ReaderRead, ReaderAcquire, ReaderSend, ReaderSetErr,
         ReaderStop, ReaderClose, PoolClose, Terminating, vars, consumerVars
    <2>2. ASSUME NEW w \in Workers, WorkerReceive(w) \/ WorkerFinish(w) \/ WorkerSignal(w) \/ WorkerStop(w)
          PROVE  UNCHANGED <<input, delivered, outcome>>
      BY <2>2, Zenon DEF WorkerReceive, WorkerFinish, WorkerSignal, WorkerStop, consumerVars
    <2>3. ASSUME NEW w \in Workers, WorkerDeliver(w)
          PROVE  Ordered!Next
      <3> DEFINE d == workerJob[w].doc
      <3>1. workerPc[w] = "send" /\ consumerPc = "next" /\ workerJob[w].mgr = consumerIdx
            /\ TakeResult(d) /\ input' = input
        BY <2>3, Zenon DEF WorkerDeliver
      <3>2. d = taken + 1
        BY <3>1, NextIsUnique
      <3>3. outcome = "none"
        BY <3>1, SMT DEF IInv, ConsumerInv
      <3>4. d <= acquired
        BY <3>1 DEF IInv, JobsInv, Pending, HoldsToken
      <3>5. taken = Len(delivered) /\ taken \in Nat /\ acquired <= readPos /\ readPos <= input.n
            /\ acquired \in Int /\ readPos \in Int /\ input.n \in Int
        BY <3>3, SMT DEF taken, acquired, IInv, TypeOK, ReaderInv, Inputs, Ordered!Inputs
      <3> HIDE DEF d
      <3>6. d = Ordered!NextDoc /\ d \in 1..input.n
        BY <3>2, <3>4, <3>5, SMT DEF Ordered!NextDoc
      <3> QED
        BY <3>1, <3>3, <3>6, Zenon DEF TakeResult, Ordered!Next, Ordered!Deliver, Ordered!FailParse
    <2>4. CASE ConsumerCheck
      <3>1. outcome' = outcome \/ (outcome' = "readErr" /\ fileReadErr)
        <4> PICK err \in {FALSE, fileReadErr} :
                   (err /\ outcome' = "readErr") \/ (~err /\ outcome' = outcome)
          BY <2>4, Zenon DEF ConsumerCheck
        <4>1. CASE err = FALSE
          BY <4>1
        <4>2. CASE err = fileReadErr
          BY <4>2
        <4> QED BY <4>1, <4>2
      <3>2. outcome = "none" /\ input' = input /\ delivered' = delivered
        BY <2>4, SMT DEF ConsumerCheck, IInv, ConsumerInv
      <3>3. fileReadErr => input.end = "error"
        BY DEF IInv, ClosingInv
      <3> QED BY <3>1, <3>2, <3>3, Zenon DEF Ordered!Next, Ordered!FailRead
    <2>5. CASE ConsumerEOF
      <3>1. outcome = "none" /\ outcome' = "EOF" /\ input' = input /\ delivered' = delivered
        BY <2>5, SMT DEF ConsumerEOF, IInv, ConsumerInv
      <3>2. IInv'
        BY <2>5, ConsumerEOFIInv
      <3>3. stopClosed' => input'.end = "error"
        BY <3>2 DEF IInv, ClosingInv
      <3>4. ~stopClosed' => taken' = input'.n
        BY <3>1, <3>2 DEF IInv, EOFInv
      <3>5. taken' = Len(delivered)
        BY <3>1, <3>2, SMT DEF taken, IInv, TypeOK
      <3> QED BY <3>1, <3>3, <3>4, <3>5, Zenon DEF Ordered!Next, Ordered!Finish
    <2> QED BY <2>1, <2>2, <2>3, <2>4, <2>5 DEF Next, Worker
  <1> QED BY <1>1, <1>2, Invariance, PTL DEF Spec, ImplementsOrderedRead, Ordered!Spec

=============================================================================
