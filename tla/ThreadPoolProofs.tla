-------------------------- MODULE ThreadPoolProofs --------------------------
(***************************************************************************)
(* Proofs about ThreadPool, for every number of workers and chunks and     *)
(* every set of error codes.                                               *)
(*                                                                         *)
(* None of the safety properties is inductive.  What makes them true is    *)
(* who owns what: a worker between the predicate and the pop owns          *)
(* workMutex, so nobody else can empty the queue it has looked at; a chunk *)
(* is in the work queue, or held by one worker, or has an outcome; and an  *)
(* error is about to be pushed, in the result queue, in the local of       *)
(* clearResultQueue(), or in the value that chunkedCopy() returns.  The    *)
(* last part is about standing still: finish() is the only place to hang.  *)
(***************************************************************************)
EXTENDS ThreadPool, FiniteSetTheorems, SequenceTheorems, TLAPS

Up == {"chunk", "notify", "clear", "finish", "notifyAll", "join"}
Ending == {"notifyAll", "join", "drain", "done"}
Holding == {"pred", "block", "take", "pop"}
Busy == {"check", "run", "push"}
Waiting == {w \in Workers : pc[w] \in WaitPcs}
Taken == 1..(queued - Len(work))     \* the chunks popped so far

\* workMutex is held from the lock to the pop, sleep excepted.
MutexInv == \A w \in Workers : pc[w] \in Holding <=> workMutex = w

\* The counter behind ready() counts the workers inside the wait.
WaitInv == waitingThreads = Cardinality(Waiting)

\* Which phases of the main thread imply what.
MainInv ==
    /\ mainPc \in Up => threads = NumProcessors
    /\ mainPc = "construct" => \A w \in Workers : w > threads => pc[w] = "new"
    /\ mainPc = "construct" => queued = 0
    /\ mainPc \in {"notify", "clear"} => queued # 0
    /\ finished => mainPc \in Ending
    /\ mainPc \in {"notifyAll", "join", "drain"} => NumProcessors # 0 /\ finished
    /\ mainPc = "drain" => \A w \in Workers : pc[w] = "exited"
    /\ mainPc = "done" => \A w \in Workers : pc[w] \in {"new", "exited"}

\* Where workers stand with the work queue.
WorkerInv ==
    \A w \in Workers :
        /\ pc[w] = "take" => finished \/ work # <<>>
        /\ pc[w] = "pop" => work # <<>>
        /\ pc[w] = "check" /\ job[w] = NoChunk => finished /\ work = <<>>
        /\ pc[w] = "exited" => finished /\ work = <<>>

\* Until the first chunk is queued all workers wait.
ReadyInv ==
    mainPc = "chunk" /\ queued = 0 =>
        \A w \in Workers : pc[w] \in {"pred", "block", "asleep", "woken"}

\* A chunk is in the queue, in order, or was popped; a popped chunk is held by
\* one worker or has an outcome.
ChunkInv ==
    /\ Len(work) <= queued
    /\ \A i \in 1..Len(work) : work[i] = (queued - Len(work)) + i
    /\ \A c \in Chunks \ Taken : outcome[c] = NotRun
    /\ \A c \in Taken : outcome[c] = NotRun => \E w \in Workers : job[w] = c
    /\ \A w \in Workers :
          /\ job[w] # NoChunk => job[w] \in Taken /\ pc[w] \in Busy
          /\ pc[w] \in {"run", "push"} => job[w] # NoChunk
          /\ job[w] # NoChunk => (outcome[job[w]] = NotRun <=> pc[w] # "push")
          /\ \A v \in Workers : job[w] # NoChunk /\ v # w => job[v] # job[w]

Clearing == mainPc \in {"clear", "drain"}

\* No error gets lost on its way from a worker to the caller.
ErrorInv ==
    \A c \in Chunks : outcome[c] \in Errors =>
        \/ \E w \in Workers : pc[w] = "push" /\ job[w] = c
        \/ \E i \in 1..Len(results) : results[i] # Ok
        \/ Clearing /\ result # Ok
        \/ ret # Ok

Reported(r) == \E c \in 1..queued : outcome[c] = r

\* Every error on that way was returned by a chunk.
OriginInv ==
    /\ \A i \in 1..Len(results) : results[i] # Ok => Reported(results[i])
    /\ Clearing /\ result # Ok => Reported(result)
    /\ mainPc \in {"construct", "chunk", "notify", "clear"} => ret = Ok
    /\ ret # Ok => \/ Reported(ret)
                   \/ mainPc = "done" /\ queued = 0 /\ ret \in StartErrors

\* What holds once chunkedCopy() has returned.
DoneInv ==
    mainPc = "done" =>
        \/ queued = 0 /\ ret \in StartErrors
        \/ NumProcessors = 0
        \/ work = <<>> /\ results = <<>>

IInv ==
    /\ TypeOK
    /\ MutexInv
    /\ WaitInv
    /\ MainInv
    /\ WorkerInv
    /\ ReadyInv
    /\ ChunkInv
    /\ ErrorInv
    /\ OriginInv
    /\ DoneInv

-----------------------------------------------------------------------------
(* Proofs                                                                  *)

(* A worker that runs or has run a chunk holds one, and its outcome after  *)
(* the run is a result.                                                    *)
LEMMA HeldChunk ==
  ASSUME IInv, NEW w \in Workers, pc[w] \in {"run", "push"}
  PROVE  /\ job[w] \in Chunks
         /\ job[w] \in Taken
         /\ pc[w] = "push" => outcome[job[w]] \in Results
BY DEF IInv, TypeOK, ChunkInv, Chunks, NoChunk, NotRun

(* A step keeps the types, as long as it keeps the range of the counter.   *)
LEMMA TypeStep ==
  ASSUME IInv, [Next]_vars, waitingThreads' \in 0..NumProcessors
  PROVE  TypeOK'
<1> USE PoolAssumption DEF IInv, TypeOK, vars, mainVars, workerVars, Workers, Chunks, Results, Ok, NotRun,
    NoChunk, Nobody, MainPcs, WorkerPcs, WaitPcs
<1>1. CASE Spawn
  BY <1>1 DEF Spawn
<1>2. CASE StartFails
  BY <1>2 DEF StartFails
<1>3. CASE Ready
  BY <1>3 DEF Ready
<1>4. CASE Queue
  BY <1>4 DEF Queue
<1>5. CASE NotifyOne
  BY <1>5 DEF NotifyOne
<1>6. CASE PopResult
  BY <1>6 DEF PopResult, Keep
<1>7. CASE QueueReturns
  BY <1>7 DEF QueueReturns
<1>8. CASE NoMoreChunks
  BY <1>8 DEF NoMoreChunks
<1>9. CASE Finish
  BY <1>9 DEF Finish
<1>10. CASE NotifyAll
  BY <1>10 DEF NotifyAll
<1>11. CASE Join
  BY <1>11 DEF Join
<1>12. CASE FinishReturns
  BY <1>12 DEF FinishReturns, Keep
<1>13. ASSUME NEW w \in Workers, Loop(w) PROVE TypeOK'
  BY <1>13 DEF Loop, Goto
<1>14. ASSUME NEW w \in Workers, Lock(w) PROVE TypeOK'
  BY <1>14 DEF Lock, Goto
<1>15. ASSUME NEW w \in Workers, Predicate(w) PROVE TypeOK'
  BY <1>15 DEF Predicate, Goto
<1>16. ASSUME NEW w \in Workers, Block(w) PROVE TypeOK'
  BY <1>16 DEF Block, Goto
<1>17. ASSUME NEW w \in Workers, SpuriousWake(w) PROVE TypeOK'
  BY <1>17 DEF SpuriousWake, Goto
<1>18. ASSUME NEW w \in Workers, Relock(w) PROVE TypeOK'
  BY <1>18 DEF Relock, Goto
<1>19. ASSUME NEW w \in Workers, Take(w) PROVE TypeOK'
  BY <1>19 DEF Take, Goto
<1>20. ASSUME NEW w \in Workers, Pop(w) PROVE TypeOK'
  BY <1>20 DEF Pop, Goto
<1>21. ASSUME NEW w \in Workers, Check(w) PROVE TypeOK'
  BY <1>21 DEF Check, Goto
<1>22. ASSUME NEW w \in Workers, Run(w) PROVE TypeOK'
  BY <1>22, HeldChunk DEF Run, Goto
<1>23. ASSUME NEW w \in Workers, Push(w) PROVE TypeOK'
  BY <1>23, HeldChunk DEF Push, Goto
<1>24. CASE UNCHANGED vars
  BY <1>24
<1>25. QED
  BY <1>1, <1>2, <1>3, <1>4, <1>5, <1>6, <1>7, <1>8, <1>9, <1>10,
     <1>11, <1>12, <1>13, <1>14, <1>15, <1>16, <1>17, <1>18, <1>19,
     <1>20, <1>21, <1>22, <1>23, <1>24
     DEF Next, Step, Ended, Main, Worker

(* The workers are finitely many, and so are those that wait.              *)
LEMMA WaitingFinite ==
  /\ IsFiniteSet(Workers) /\ Cardinality(Workers) = NumProcessors
  /\ IsFiniteSet(Waiting) /\ Cardinality(Waiting) \in 0..NumProcessors
  /\ Cardinality(Waiting) = NumProcessors => Waiting = Workers
<1>1. IsFiniteSet(Workers) /\ Cardinality(Workers) = NumProcessors
  BY PoolAssumption, FS_Interval DEF Workers
<1>2. Waiting \in SUBSET Workers
  BY DEF Waiting
<1>3. QED
  BY <1>1, <1>2, FS_Subset, FS_CardinalityType, PoolAssumption

(* The counter behind ready() stays the number of waiting workers.         *)
LEMMA WaitStep ==
  ASSUME IInv, [Next]_vars
  PROVE  WaitInv' /\ waitingThreads' \in 0..NumProcessors
<1> USE DEF IInv, TypeOK, WaitPcs
<1>1. ASSUME Waiting' = Waiting, waitingThreads' = waitingThreads
      PROVE  WaitInv'
  BY <1>1 DEF WaitInv
<1>2. ASSUME NEW w \in Workers, Lock(w) PROVE WaitInv'
  <2>1. w \notin Waiting /\ Waiting' = Waiting \cup {w}
    BY <1>2 DEF Lock, Goto, Waiting
  <2>2. QED
    BY <1>2, <2>1, WaitingFinite, FS_AddElement DEF Lock, WaitInv
<1>3. ASSUME NEW w \in Workers, Take(w) PROVE WaitInv'
  <2>1. w \in Waiting /\ Waiting' = Waiting \ {w}
    BY <1>3 DEF Take, Goto, Waiting
  <2>2. QED
    BY <1>3, <2>1, WaitingFinite, FS_RemoveElement DEF Take, WaitInv
<1>4. CASE Spawn
  <2>1. Waiting' = Waiting
    BY <1>4 DEF Spawn, Waiting, MainInv, Workers
  <2>2. QED
    BY <1>1, <1>4, <2>1 DEF Spawn
<1>5. CASE StartFails
  BY <1>1, <1>5 DEF StartFails, Waiting, workerVars
<1>6. CASE Ready
  BY <1>1, <1>6 DEF Ready, Waiting, workerVars
<1>7. CASE Queue
  BY <1>1, <1>7 DEF Queue, Waiting, workerVars
<1>8. CASE NotifyOne
  BY <1>1, <1>8 DEF NotifyOne, Waiting, Asleep
<1>9. CASE PopResult
  BY <1>1, <1>9 DEF PopResult, Waiting, workerVars
<1>10. CASE QueueReturns
  BY <1>1, <1>10 DEF QueueReturns, Waiting, workerVars
<1>11. CASE NoMoreChunks
  BY <1>1, <1>11 DEF NoMoreChunks, Waiting, workerVars
<1>12. CASE Finish
  BY <1>1, <1>12 DEF Finish, Waiting, workerVars
<1>13. CASE NotifyAll
  BY <1>1, <1>13 DEF NotifyAll, Waiting
<1>14. CASE Join
  BY <1>1, <1>14 DEF Join, Waiting, workerVars
<1>15. CASE FinishReturns
  BY <1>1, <1>15 DEF FinishReturns, Waiting, workerVars
<1>16. ASSUME NEW w \in Workers, Loop(w) PROVE WaitInv'
  BY <1>1, <1>16 DEF Loop, Goto, Waiting
<1>17. ASSUME NEW w \in Workers, Predicate(w) PROVE WaitInv'
  BY <1>1, <1>17 DEF Predicate, Goto, Waiting
<1>18. ASSUME NEW w \in Workers, Block(w) PROVE WaitInv'
  BY <1>1, <1>18 DEF Block, Goto, Waiting
<1>19. ASSUME NEW w \in Workers, SpuriousWake(w) PROVE WaitInv'
  BY <1>1, <1>19 DEF SpuriousWake, Goto, Waiting
<1>20. ASSUME NEW w \in Workers, Relock(w) PROVE WaitInv'
  BY <1>1, <1>20 DEF Relock, Goto, Waiting
<1>21. ASSUME NEW w \in Workers, Pop(w) PROVE WaitInv'
  BY <1>1, <1>21 DEF Pop, Goto, Waiting
<1>22. ASSUME NEW w \in Workers, Check(w) PROVE WaitInv'
  BY <1>1, <1>22 DEF Check, Goto, Waiting
<1>23. ASSUME NEW w \in Workers, Run(w) PROVE WaitInv'
  BY <1>1, <1>23 DEF Run, Goto, Waiting
<1>24. ASSUME NEW w \in Workers, Push(w) PROVE WaitInv'
  BY <1>1, <1>24 DEF Push, Goto, Waiting
<1>25. CASE UNCHANGED vars
  BY <1>1, <1>25 DEF vars, workerVars, Waiting
<1>26. WaitInv'
  BY <1>2, <1>3, <1>4, <1>5, <1>6, <1>7, <1>8, <1>9, <1>10, <1>11,
     <1>12, <1>13, <1>14, <1>15, <1>16, <1>17, <1>18, <1>19, <1>20,
     <1>21, <1>22, <1>23, <1>24, <1>25
     DEF Next, Step, Ended, Main, Worker
<1>27. Cardinality(Waiting') \in 0..NumProcessors
  <2>1. Waiting' \in SUBSET Workers
    BY DEF Waiting
  <2>2. QED
    BY <2>1, WaitingFinite, FS_Subset, FS_CardinalityType, PoolAssumption
<1>28. QED
  BY <1>26, <1>27 DEF WaitInv

(* workMutex stays with the worker between the lock and the pop.           *)
LEMMA MutexStep ==
  ASSUME IInv, [Next]_vars
  PROVE  MutexInv'
<1> USE PoolAssumption DEF IInv, TypeOK, MutexInv, vars, mainVars, workerVars, Workers, Nobody, Holding
<1>1. CASE Spawn
  BY <1>1 DEF Spawn, MainInv
<1>2. CASE StartFails
  BY <1>2 DEF StartFails
<1>3. CASE Ready
  BY <1>3 DEF Ready
<1>4. CASE Queue
  BY <1>4 DEF Queue
<1>5. CASE NotifyOne
  BY <1>5 DEF NotifyOne, Asleep
<1>6. CASE PopResult
  BY <1>6 DEF PopResult
<1>7. CASE QueueReturns
  BY <1>7 DEF QueueReturns
<1>8. CASE NoMoreChunks
  BY <1>8 DEF NoMoreChunks
<1>9. CASE Finish
  BY <1>9 DEF Finish
<1>10. CASE NotifyAll
  BY <1>10 DEF NotifyAll
<1>11. CASE Join
  BY <1>11 DEF Join
<1>12. CASE FinishReturns
  BY <1>12 DEF FinishReturns
<1>13. ASSUME NEW w \in Workers, Loop(w) PROVE MutexInv'
  BY <1>13 DEF Loop, Goto
<1>14. ASSUME NEW w \in Workers, Lock(w) PROVE MutexInv'
  BY <1>14 DEF Lock, Goto
<1>15. ASSUME NEW w \in Workers, Predicate(w) PROVE MutexInv'
  BY <1>15 DEF Predicate, Goto
<1>16. ASSUME NEW w \in Workers, Block(w) PROVE MutexInv'
  BY <1>16 DEF Block, Goto
<1>17. ASSUME NEW w \in Workers, SpuriousWake(w) PROVE MutexInv'
  BY <1>17 DEF SpuriousWake, Goto
<1>18. ASSUME NEW w \in Workers, Relock(w) PROVE MutexInv'
  BY <1>18 DEF Relock, Goto
<1>19. ASSUME NEW w \in Workers, Take(w) PROVE MutexInv'
  BY <1>19 DEF Take, Goto
<1>20. ASSUME NEW w \in Workers, Pop(w) PROVE MutexInv'
  BY <1>20 DEF Pop, Goto
<1>21. ASSUME NEW w \in Workers, Check(w) PROVE MutexInv'
  BY <1>21 DEF Check, Goto
<1>22. ASSUME NEW w \in Workers, Run(w) PROVE MutexInv'
  BY <1>22 DEF Run, Goto
<1>23. ASSUME NEW w \in Workers, Push(w) PROVE MutexInv'
  BY <1>23 DEF Push, Goto
<1>24. CASE UNCHANGED vars
  BY <1>24
<1>25. QED
  BY <1>1, <1>2, <1>3, <1>4, <1>5, <1>6, <1>7, <1>8, <1>9, <1>10,
     <1>11, <1>12, <1>13, <1>14, <1>15, <1>16, <1>17, <1>18, <1>19,
     <1>20, <1>21, <1>22, <1>23, <1>24
     DEF Next, Step, Ended, Main, Worker

(* The phases of the main thread.                                          *)
LEMMA MainStep ==
  ASSUME IInv, [Next]_vars
  PROVE  MainInv'
<1> USE PoolAssumption DEF IInv, TypeOK, MainInv, vars, mainVars, workerVars, Workers, Up, Ending
<1>1. CASE Spawn
  BY <1>1 DEF Spawn
<1>2. CASE StartFails
  BY <1>2 DEF StartFails
<1>3. CASE Ready
  BY <1>3 DEF Ready
<1>4. CASE Queue
  BY <1>4 DEF Queue
<1>5. CASE NotifyOne
  BY <1>5 DEF NotifyOne
<1>6. CASE PopResult
  BY <1>6 DEF PopResult
<1>7. CASE QueueReturns
  BY <1>7 DEF QueueReturns
<1>8. CASE NoMoreChunks
  BY <1>8 DEF NoMoreChunks
<1>9. CASE Finish
  BY <1>9 DEF Finish
<1>10. CASE NotifyAll
  BY <1>10 DEF NotifyAll
<1>11. CASE Join
  BY <1>11 DEF Join
<1>12. CASE FinishReturns
  BY <1>12 DEF FinishReturns
<1>13. ASSUME NEW w \in Workers, Loop(w) PROVE MainInv'
  BY <1>13 DEF Loop, Goto
<1>14. ASSUME NEW w \in Workers, Lock(w) PROVE MainInv'
  BY <1>14 DEF Lock, Goto
<1>15. ASSUME NEW w \in Workers, Predicate(w) PROVE MainInv'
  BY <1>15 DEF Predicate, Goto
<1>16. ASSUME NEW w \in Workers, Block(w) PROVE MainInv'
  BY <1>16 DEF Block, Goto
<1>17. ASSUME NEW w \in Workers, SpuriousWake(w) PROVE MainInv'
  BY <1>17 DEF SpuriousWake, Goto
<1>18. ASSUME NEW w \in Workers, Relock(w) PROVE MainInv'
  BY <1>18 DEF Relock, Goto
<1>19. ASSUME NEW w \in Workers, Take(w) PROVE MainInv'
  BY <1>19 DEF Take, Goto
<1>20. ASSUME NEW w \in Workers, Pop(w) PROVE MainInv'
  BY <1>20 DEF Pop, Goto
<1>21. ASSUME NEW w \in Workers, Check(w) PROVE MainInv'
  BY <1>21 DEF Check, Goto
<1>22. ASSUME NEW w \in Workers, Run(w) PROVE MainInv'
  BY <1>22 DEF Run, Goto
<1>23. ASSUME NEW w \in Workers, Push(w) PROVE MainInv'
  BY <1>23 DEF Push, Goto
<1>24. CASE UNCHANGED vars
  BY <1>24
<1>25. QED
  BY <1>1, <1>2, <1>3, <1>4, <1>5, <1>6, <1>7, <1>8, <1>9, <1>10,
     <1>11, <1>12, <1>13, <1>14, <1>15, <1>16, <1>17, <1>18, <1>19,
     <1>20, <1>21, <1>22, <1>23, <1>24
     DEF Next, Step, Ended, Main, Worker

(* Nobody empties the queue under a worker that owns workMutex, and once   *)
(* the flag is up an empty queue stays empty.                              *)
LEMMA WorkerStep ==
  ASSUME IInv, [Next]_vars
  PROVE  WorkerInv'
<1> USE PoolAssumption DEF IInv, TypeOK, WorkerInv, vars, mainVars, workerVars, NoChunk
<1>1. CASE Spawn
  BY <1>1 DEF Spawn
<1>2. CASE StartFails
  BY <1>2 DEF StartFails
<1>3. CASE Ready
  BY <1>3 DEF Ready
<1>4. CASE Queue
  <2>1. ~finished
    BY <1>4 DEF Queue, MainInv, Ending
  <2>2. work' # <<>>
    <3>1. queued + 1 \in Chunks
      BY <1>4 DEF Queue, Chunks
    <3>2. QED
      BY <1>4, <3>1, AppendProperties DEF Queue
  <2>3. QED
    BY <1>4, <2>1, <2>2 DEF Queue
<1>5. CASE NotifyOne
  BY <1>5 DEF NotifyOne
<1>6. CASE PopResult
  BY <1>6 DEF PopResult
<1>7. CASE QueueReturns
  BY <1>7 DEF QueueReturns
<1>8. CASE NoMoreChunks
  BY <1>8 DEF NoMoreChunks
<1>9. CASE Finish
  BY <1>9 DEF Finish
<1>10. CASE NotifyAll
  BY <1>10 DEF NotifyAll
<1>11. CASE Join
  BY <1>11 DEF Join
<1>12. CASE FinishReturns
  BY <1>12 DEF FinishReturns
<1>13. ASSUME NEW w \in Workers, Loop(w) PROVE WorkerInv'
  BY <1>13 DEF Loop, Goto, Drained
<1>14. ASSUME NEW w \in Workers, Lock(w) PROVE WorkerInv'
  BY <1>14 DEF Lock, Goto
<1>15. ASSUME NEW w \in Workers, Predicate(w) PROVE WorkerInv'
  BY <1>15 DEF Predicate, Goto
<1>16. ASSUME NEW w \in Workers, Block(w) PROVE WorkerInv'
  BY <1>16 DEF Block, Goto
<1>17. ASSUME NEW w \in Workers, SpuriousWake(w) PROVE WorkerInv'
  BY <1>17 DEF SpuriousWake, Goto
<1>18. ASSUME NEW w \in Workers, Relock(w) PROVE WorkerInv'
  BY <1>18 DEF Relock, Goto
<1>19. ASSUME NEW w \in Workers, Take(w) PROVE WorkerInv'
  BY <1>19 DEF Take, Goto
<1>20. ASSUME NEW w \in Workers, Pop(w) PROVE WorkerInv'
  <2>1. \A v \in Workers \ {w} : pc[v] \notin {"take", "pop"}
    BY <1>20 DEF Pop, MutexInv, Holding
  <2>2. job'[w] # NoChunk
    BY <1>20, HeadTailProperties DEF Pop, Chunks
  <2>3. QED
    BY <1>20, <2>1, <2>2 DEF Pop, Goto
<1>21. ASSUME NEW w \in Workers, Check(w) PROVE WorkerInv'
  BY <1>21 DEF Check, Goto
<1>22. ASSUME NEW w \in Workers, Run(w) PROVE WorkerInv'
  BY <1>22 DEF Run, Goto
<1>23. ASSUME NEW w \in Workers, Push(w) PROVE WorkerInv'
  BY <1>23 DEF Push, Goto
<1>24. CASE UNCHANGED vars
  BY <1>24
<1>25. QED
  BY <1>1, <1>2, <1>3, <1>4, <1>5, <1>6, <1>7, <1>8, <1>9, <1>10,
     <1>11, <1>12, <1>13, <1>14, <1>15, <1>16, <1>17, <1>18, <1>19,
     <1>20, <1>21, <1>22, <1>23, <1>24
     DEF Next, Step, Ended, Main, Worker

(* Before the first chunk no waiting worker gets past the predicate.        *)
LEMMA ReadyStep ==
  ASSUME IInv, [Next]_vars
  PROVE  ReadyInv'
<1> USE PoolAssumption DEF IInv, TypeOK, ReadyInv, vars, mainVars, workerVars
<1>1. CASE Spawn
  BY <1>1 DEF Spawn
<1>2. CASE StartFails
  BY <1>2 DEF StartFails
<1>3. CASE Ready
  <2>1. Waiting = Workers
    BY <1>3, WaitingFinite DEF Ready, ready, WaitInv
  <2>2. ~finished /\ (queued = 0 => work = <<>>)
    BY <1>3, EmptySeq DEF Ready, MainInv, Ending, ChunkInv
  <2>3. QED
    BY <1>3, <2>1, <2>2 DEF Ready, Waiting, WaitPcs, WorkerInv
<1>4. CASE Queue
  BY <1>4 DEF Queue
<1>5. CASE NotifyOne
  BY <1>5 DEF NotifyOne
<1>6. CASE PopResult
  BY <1>6 DEF PopResult
<1>7. CASE QueueReturns
  BY <1>7 DEF QueueReturns, MainInv
<1>8. CASE NoMoreChunks
  BY <1>8 DEF NoMoreChunks
<1>9. CASE Finish
  BY <1>9 DEF Finish
<1>10. CASE NotifyAll
  BY <1>10 DEF NotifyAll
<1>11. CASE Join
  BY <1>11 DEF Join
<1>12. CASE FinishReturns
  BY <1>12 DEF FinishReturns
<1>13. ASSUME NEW w \in Workers, Loop(w) PROVE ReadyInv'
  BY <1>13 DEF Loop, Goto
<1>14. ASSUME NEW w \in Workers, Lock(w) PROVE ReadyInv'
  BY <1>14 DEF Lock, Goto
<1>15. ASSUME NEW w \in Workers, Predicate(w) PROVE ReadyInv'
  <2>1. mainPc = "chunk" /\ queued = 0 => ~finished /\ work = <<>>
    BY EmptySeq DEF MainInv, Ending, ChunkInv
  <2>2. QED
    BY <1>15, <2>1 DEF Predicate, Goto
<1>16. ASSUME NEW w \in Workers, Block(w) PROVE ReadyInv'
  BY <1>16 DEF Block, Goto
<1>17. ASSUME NEW w \in Workers, SpuriousWake(w) PROVE ReadyInv'
  BY <1>17 DEF SpuriousWake, Goto
<1>18. ASSUME NEW w \in Workers, Relock(w) PROVE ReadyInv'
  BY <1>18 DEF Relock, Goto
<1>19. ASSUME NEW w \in Workers, Take(w) PROVE ReadyInv'
  BY <1>19 DEF Take, Goto
<1>20. ASSUME NEW w \in Workers, Pop(w) PROVE ReadyInv'
  BY <1>20 DEF Pop, Goto
<1>21. ASSUME NEW w \in Workers, Check(w) PROVE ReadyInv'
  BY <1>21 DEF Check, Goto
<1>22. ASSUME NEW w \in Workers, Run(w) PROVE ReadyInv'
  BY <1>22 DEF Run, Goto
<1>23. ASSUME NEW w \in Workers, Push(w) PROVE ReadyInv'
  BY <1>23 DEF Push, Goto
<1>24. CASE UNCHANGED vars
  BY <1>24
<1>25. QED
  BY <1>1, <1>2, <1>3, <1>4, <1>5, <1>6, <1>7, <1>8, <1>9, <1>10,
     <1>11, <1>12, <1>13, <1>14, <1>15, <1>16, <1>17, <1>18, <1>19,
     <1>20, <1>21, <1>22, <1>23, <1>24
     DEF Next, Step, Ended, Main, Worker

(* chunkedCopy() returns with both queues empty, unless it never had workers. *)
LEMMA DoneStep ==
  ASSUME IInv, [Next]_vars
  PROVE  DoneInv'
<1> USE PoolAssumption DEF IInv, TypeOK, DoneInv, vars, mainVars, workerVars
<1>1. CASE Spawn
  BY <1>1 DEF Spawn
<1>2. CASE StartFails
  BY <1>2 DEF StartFails, MainInv
<1>3. CASE Ready
  BY <1>3 DEF Ready
<1>4. CASE Queue
  BY <1>4 DEF Queue
<1>5. CASE NotifyOne
  BY <1>5 DEF NotifyOne
<1>6. CASE PopResult
  BY <1>6 DEF PopResult
<1>7. CASE QueueReturns
  BY <1>7 DEF QueueReturns
<1>8. CASE NoMoreChunks
  BY <1>8 DEF NoMoreChunks
<1>9. CASE Finish
  BY <1>9 DEF Finish, MainInv, Up
<1>10. CASE NotifyAll
  BY <1>10 DEF NotifyAll
<1>11. CASE Join
  BY <1>11 DEF Join
<1>12. CASE FinishReturns
  BY <1>12 DEF FinishReturns, MainInv, WorkerInv, Workers
<1>13. ASSUME NEW w \in Workers, Loop(w) PROVE DoneInv'
  BY <1>13 DEF Loop, Goto
<1>14. ASSUME NEW w \in Workers, Lock(w) PROVE DoneInv'
  BY <1>14 DEF Lock, Goto
<1>15. ASSUME NEW w \in Workers, Predicate(w) PROVE DoneInv'
  BY <1>15 DEF Predicate, Goto
<1>16. ASSUME NEW w \in Workers, Block(w) PROVE DoneInv'
  BY <1>16 DEF Block, Goto
<1>17. ASSUME NEW w \in Workers, SpuriousWake(w) PROVE DoneInv'
  BY <1>17 DEF SpuriousWake, Goto
<1>18. ASSUME NEW w \in Workers, Relock(w) PROVE DoneInv'
  BY <1>18 DEF Relock, Goto
<1>19. ASSUME NEW w \in Workers, Take(w) PROVE DoneInv'
  BY <1>19 DEF Take, Goto
<1>20. ASSUME NEW w \in Workers, Pop(w) PROVE DoneInv'
  BY <1>20 DEF Pop, Goto
<1>21. ASSUME NEW w \in Workers, Check(w) PROVE DoneInv'
  BY <1>21 DEF Check, Goto
<1>22. ASSUME NEW w \in Workers, Run(w) PROVE DoneInv'
  BY <1>22 DEF Run, Goto
<1>23. ASSUME NEW w \in Workers, Push(w) PROVE DoneInv'
  BY <1>23 DEF Push, Goto, MainInv
<1>24. CASE UNCHANGED vars
  BY <1>24
<1>25. QED
  BY <1>1, <1>2, <1>3, <1>4, <1>5, <1>6, <1>7, <1>8, <1>9, <1>10,
     <1>11, <1>12, <1>13, <1>14, <1>15, <1>16, <1>17, <1>18, <1>19,
     <1>20, <1>21, <1>22, <1>23, <1>24
     DEF Next, Step, Ended, Main, Worker

(* Every chunk stays accounted for.                                        *)
LEMMA ChunkStep ==
  ASSUME IInv, [Next]_vars
  PROVE  ChunkInv'
<1> USE PoolAssumption DEF IInv, TypeOK, ChunkInv, Taken, vars, mainVars, workerVars, NoChunk, NotRun, Busy
<1>1. CASE Spawn
  BY <1>1 DEF Spawn, MainInv, Workers
<1>2. CASE StartFails
  BY <1>2 DEF StartFails
<1>3. CASE Ready
  BY <1>3 DEF Ready
<1>4. CASE Queue
  <2>1. queued + 1 \in Chunks
    BY <1>4 DEF Queue, Chunks
  <2>2. /\ Len(work') = Len(work) + 1
        /\ \A i \in 1..Len(work) : work'[i] = work[i]
        /\ work'[Len(work) + 1] = queued + 1
    BY <1>4, <2>1, AppendProperties DEF Queue
  <2>3. queued' = queued + 1 /\ UNCHANGED <<job, outcome, pc>>
    BY <1>4 DEF Queue
  <2>4. Len(work) \in Nat /\ queued \in Nat
    BY LenProperties
  <2>5. Taken' = Taken
    BY <2>2, <2>3, <2>4
  <2>6. ASSUME NEW i \in 1..Len(work')
        PROVE  work'[i] = (queued' - Len(work')) + i
    <3>1. CASE i \in 1..Len(work)
      BY <2>2, <2>3, <2>4, <3>1
    <3>2. CASE i = Len(work) + 1
      BY <2>2, <2>3, <2>4, <3>2
    <3>3. QED
      BY <2>2, <2>4, <3>1, <3>2
  <2> HIDE DEF Taken
  <2>7. QED
    BY <2>2, <2>3, <2>4, <2>5, <2>6
<1>5. CASE NotifyOne
  BY <1>5 DEF NotifyOne, Asleep
<1>6. CASE PopResult
  BY <1>6 DEF PopResult
<1>7. CASE QueueReturns
  BY <1>7 DEF QueueReturns
<1>8. CASE NoMoreChunks
  BY <1>8 DEF NoMoreChunks
<1>9. CASE Finish
  BY <1>9 DEF Finish
<1>10. CASE NotifyAll
  BY <1>10 DEF NotifyAll
<1>11. CASE Join
  BY <1>11 DEF Join
<1>12. CASE FinishReturns
  BY <1>12 DEF FinishReturns
<1>13. ASSUME NEW w \in Workers, Loop(w) PROVE ChunkInv'
  BY <1>13 DEF Loop, Goto
<1>14. ASSUME NEW w \in Workers, Lock(w) PROVE ChunkInv'
  BY <1>14 DEF Lock, Goto
<1>15. ASSUME NEW w \in Workers, Predicate(w) PROVE ChunkInv'
  BY <1>15 DEF Predicate, Goto
<1>16. ASSUME NEW w \in Workers, Block(w) PROVE ChunkInv'
  BY <1>16 DEF Block, Goto
<1>17. ASSUME NEW w \in Workers, SpuriousWake(w) PROVE ChunkInv'
  BY <1>17 DEF SpuriousWake, Goto
<1>18. ASSUME NEW w \in Workers, Relock(w) PROVE ChunkInv'
  BY <1>18 DEF Relock, Goto
<1>19. ASSUME NEW w \in Workers, Take(w) PROVE ChunkInv'
  BY <1>19 DEF Take, Goto
<1>20. ASSUME NEW w \in Workers, Pop(w) PROVE ChunkInv'
  <2> DEFINE c == Head(work)
  <2>1. /\ c \in Chunks /\ c = work[1] /\ Len(work) \in Nat \ {0}
        /\ Len(work') = Len(work) - 1
        /\ \A i \in 1..Len(work') : work'[i] = work[i + 1]
    BY <1>20, HeadTailProperties, EmptySeq DEF Pop
  <2>2. c = (queued - Len(work)) + 1
    BY <2>1
  <2> HIDE DEF c
  <2>3. Taken' = Taken \cup {c} /\ c \notin Taken /\ NoChunk \notin Taken
    <3>1. queued' = queued /\ queued \in Nat
      BY <1>20 DEF Pop
    <3>2. QED
      BY <2>1, <2>2, <3>1
  <2>4. outcome[c] = NotRun /\ c # NoChunk
    BY <2>1, <2>3 DEF Chunks
  <2>5. \A v \in Workers : job[v] # c
    BY <2>3, <2>4
  <2>6. job[w] = NoChunk
    BY <1>20 DEF Pop
  <2>7. job' = [job EXCEPT ![w] = c] /\ pc' = [pc EXCEPT ![w] = "check"]
    BY <1>20 DEF Pop, Goto, c
  <2>8. UNCHANGED <<queued, outcome>>
    BY <1>20 DEF Pop
  <2>9. \A i \in 1..Len(work') : work'[i] = (queued' - Len(work')) + i
    <3> SUFFICES ASSUME NEW i \in 1..Len(work')
                 PROVE  work'[i] = (queued' - Len(work')) + i
      OBVIOUS
    <3>1. i + 1 \in 1..Len(work) /\ work'[i] = work[i + 1]
      BY <2>1
    <3>2. QED
      BY <2>1, <2>8, <3>1
  <2> HIDE DEF Taken
  <2>10. \A d \in Taken' : outcome'[d] = NotRun => \E v \in Workers : job'[v] = d
    BY <2>3, <2>6, <2>7, <2>8
  <2>11. \A v \in Workers :
           /\ job'[v] # NoChunk => job'[v] \in Taken' /\ pc'[v] \in Busy
           /\ pc'[v] \in {"run", "push"} => job'[v] # NoChunk
           /\ job'[v] # NoChunk => (outcome'[job'[v]] = NotRun <=> pc'[v] # "push")
           /\ \A u \in Workers : job'[v] # NoChunk /\ u # v => job'[u] # job'[v]
    BY <2>3, <2>4, <2>5, <2>7, <2>8
  <2>12. Len(work') <= queued' /\ \A d \in Chunks \ Taken' : outcome'[d] = NotRun
    BY <2>1, <2>3, <2>8
  <2>13. QED
    BY <2>9, <2>10, <2>11, <2>12
<1>21. ASSUME NEW w \in Workers, Check(w) PROVE ChunkInv'
  BY <1>21 DEF Check, Goto, WorkerInv
<1>22. ASSUME NEW w \in Workers, Run(w) PROVE ChunkInv'
  <2>1. job[w] \in Chunks /\ job[w] \in Taken /\ job[w] # NoChunk
    BY <1>22, HeldChunk DEF Run
  <2>2. PICK r \in Results : outcome' = [outcome EXCEPT ![job[w]] = r]
    BY <1>22 DEF Run
  <2>3. r # NotRun
    BY <2>2 DEF Results, Ok
  <2>4. UNCHANGED <<queued, work, job>> /\ pc' = [pc EXCEPT ![w] = "push"]
    BY <1>22 DEF Run, Goto
  <2> HIDE DEF Taken, NotRun, NoChunk
  <2>5. \A v \in Workers : job[v] # NoChunk =>
           (outcome'[job[v]] = NotRun <=> pc'[v] # "push")
    BY <2>1, <2>2, <2>3, <2>4
  <2>6. Taken' = Taken
    BY <2>4 DEF Taken
  <2>7. QED
    BY <2>1, <2>2, <2>3, <2>4, <2>5, <2>6
<1>23. ASSUME NEW w \in Workers, Push(w) PROVE ChunkInv'
  BY <1>23 DEF Push, Goto
<1>24. CASE UNCHANGED vars
  BY <1>24
<1>25. QED
  BY <1>1, <1>2, <1>3, <1>4, <1>5, <1>6, <1>7, <1>8, <1>9, <1>10,
     <1>11, <1>12, <1>13, <1>14, <1>15, <1>16, <1>17, <1>18, <1>19,
     <1>20, <1>21, <1>22, <1>23, <1>24
     DEF Next, Step, Ended, Main, Worker

(* No error gets lost.                                                     *)
LEMMA ErrorStep ==
  ASSUME IInv, [Next]_vars
  PROVE  ErrorInv'
<1> USE PoolAssumption DEF IInv, TypeOK, ErrorInv, Clearing, vars, mainVars, workerVars, Ok
<1>1. CASE Spawn
  BY <1>1 DEF Spawn, MainInv, Workers
<1>2. CASE StartFails
  BY <1>2 DEF StartFails
<1>3. CASE Ready
  BY <1>3 DEF Ready
<1>4. CASE Queue
  BY <1>4 DEF Queue
<1>5. CASE NotifyOne
  BY <1>5 DEF NotifyOne, Asleep
<1>6. CASE PopResult
  <2>1. /\ Head(results) = results[1]
        /\ Len(results') = Len(results) - 1
        /\ \A i \in 1..Len(results') : results'[i] = results[i + 1]
    BY <1>6, HeadTailProperties DEF PopResult
  <2>2. (\E i \in 1..Len(results) : results[i] # Ok)
           => result' # Ok \/ \E i \in 1..Len(results') : results'[i] # Ok
    <3> SUFFICES ASSUME NEW i \in 1..Len(results), results[i] # Ok, result' = Ok
                 PROVE  \E j \in 1..Len(results') : results'[j] # Ok
      OBVIOUS
    <3>1. i # 1
      BY <1>6, <2>1 DEF PopResult, Keep
    <3>2. i - 1 \in 1..Len(results') /\ results'[i - 1] # Ok
      BY <2>1, <3>1
    <3>3. QED
      BY <3>2
  <2>3. result # Ok => result' # Ok
    BY <1>6 DEF PopResult, Keep
  <2>4. QED
    BY <1>6, <2>2, <2>3 DEF PopResult
<1>7. CASE QueueReturns
  BY <1>7 DEF QueueReturns, OriginInv
<1>8. CASE NoMoreChunks
  BY <1>8 DEF NoMoreChunks
<1>9. CASE Finish
  BY <1>9 DEF Finish
<1>10. CASE NotifyAll
  BY <1>10 DEF NotifyAll
<1>11. CASE Join
  BY <1>11 DEF Join
<1>12. CASE FinishReturns
  BY <1>12 DEF FinishReturns, Keep
<1>13. ASSUME NEW w \in Workers, Loop(w) PROVE ErrorInv'
  BY <1>13 DEF Loop, Goto
<1>14. ASSUME NEW w \in Workers, Lock(w) PROVE ErrorInv'
  BY <1>14 DEF Lock, Goto
<1>15. ASSUME NEW w \in Workers, Predicate(w) PROVE ErrorInv'
  BY <1>15 DEF Predicate, Goto
<1>16. ASSUME NEW w \in Workers, Block(w) PROVE ErrorInv'
  BY <1>16 DEF Block, Goto
<1>17. ASSUME NEW w \in Workers, SpuriousWake(w) PROVE ErrorInv'
  BY <1>17 DEF SpuriousWake, Goto
<1>18. ASSUME NEW w \in Workers, Relock(w) PROVE ErrorInv'
  BY <1>18 DEF Relock, Goto
<1>19. ASSUME NEW w \in Workers, Take(w) PROVE ErrorInv'
  BY <1>19 DEF Take, Goto
<1>20. ASSUME NEW w \in Workers, Pop(w) PROVE ErrorInv'
  BY <1>20 DEF Pop, Goto
<1>21. ASSUME NEW w \in Workers, Check(w) PROVE ErrorInv'
  BY <1>21 DEF Check, Goto
<1>22. ASSUME NEW w \in Workers, Run(w) PROVE ErrorInv'
  BY <1>22 DEF Run, Goto
<1>23. ASSUME NEW w \in Workers, Push(w) PROVE ErrorInv'
  BY <1>23 DEF Push, Goto
<1>24. CASE UNCHANGED vars
  BY <1>24
<1>25. QED
  BY <1>1, <1>2, <1>3, <1>4, <1>5, <1>6, <1>7, <1>8, <1>9, <1>10,
     <1>11, <1>12, <1>13, <1>14, <1>15, <1>16, <1>17, <1>18, <1>19,
     <1>20, <1>21, <1>22, <1>23, <1>24
     DEF Next, Step, Ended, Main, Worker

(* No error is made up.                                                    *)
LEMMA OriginStep ==
  ASSUME IInv, [Next]_vars
  PROVE  OriginInv'
<1> USE PoolAssumption DEF IInv, TypeOK, OriginInv, Reported, Clearing, vars, mainVars, workerVars, Ok
<1>1. CASE Spawn
  BY <1>1 DEF Spawn
<1>2. CASE StartFails
  BY <1>2 DEF StartFails, MainInv
<1>3. CASE Ready
  BY <1>3 DEF Ready
<1>4. CASE Queue
  BY <1>4 DEF Queue
<1>5. CASE NotifyOne
  BY <1>5 DEF NotifyOne
<1>6. CASE PopResult
  BY <1>6 DEF PopResult, Keep
<1>7. CASE QueueReturns
  BY <1>7 DEF QueueReturns
<1>8. CASE NoMoreChunks
  BY <1>8 DEF NoMoreChunks
<1>9. CASE Finish
  BY <1>9 DEF Finish
<1>10. CASE NotifyAll
  BY <1>10 DEF NotifyAll
<1>11. CASE Join
  BY <1>11 DEF Join
<1>12. CASE FinishReturns
  BY <1>12 DEF FinishReturns, Keep
<1>13. ASSUME NEW w \in Workers, Loop(w) PROVE OriginInv'
  BY <1>13 DEF Loop, Goto
<1>14. ASSUME NEW w \in Workers, Lock(w) PROVE OriginInv'
  BY <1>14 DEF Lock, Goto
<1>15. ASSUME NEW w \in Workers, Predicate(w) PROVE OriginInv'
  BY <1>15 DEF Predicate, Goto
<1>16. ASSUME NEW w \in Workers, Block(w) PROVE OriginInv'
  BY <1>16 DEF Block, Goto
<1>17. ASSUME NEW w \in Workers, SpuriousWake(w) PROVE OriginInv'
  BY <1>17 DEF SpuriousWake, Goto
<1>18. ASSUME NEW w \in Workers, Relock(w) PROVE OriginInv'
  BY <1>18 DEF Relock, Goto
<1>19. ASSUME NEW w \in Workers, Take(w) PROVE OriginInv'
  BY <1>19 DEF Take, Goto
<1>20. ASSUME NEW w \in Workers, Pop(w) PROVE OriginInv'
  BY <1>20 DEF Pop, Goto
<1>21. ASSUME NEW w \in Workers, Check(w) PROVE OriginInv'
  BY <1>21 DEF Check, Goto
<1>22. ASSUME NEW w \in Workers, Run(w) PROVE OriginInv'
  <2>1. job[w] \in Chunks /\ outcome[job[w]] = NotRun
    BY <1>22, HeldChunk DEF Run, ChunkInv, NoChunk, Chunks
  <2>2. \A r : Reported(r) /\ r # NotRun => Reported(r)'
    BY <1>22, <2>1 DEF Run, Chunks
  <2>3. NotRun \notin Results \cup StartErrors
    BY DEF NotRun, Results
  <2>4. UNCHANGED <<results, result, ret, mainPc, queued>>
    BY <1>22 DEF Run
  <2> HIDE DEF Reported
  <2>5. \A i \in 1..Len(results) : results[i] # NotRun
    BY <2>3, ElementOfSeq
  <2>6. QED
    BY <2>2, <2>3, <2>4, <2>5
<1>23. ASSUME NEW w \in Workers, Push(w) PROVE OriginInv'
  <2>1. job[w] \in 1..queued /\ outcome[job[w]] \in Results
    BY <1>23, HeldChunk DEF Push, Taken
  <2>2. /\ Len(results') = Len(results) + 1
        /\ \A i \in 1..Len(results) : results'[i] = results[i]
        /\ results'[Len(results) + 1] = outcome[job[w]]
    BY <1>23, <2>1, AppendProperties DEF Push
  <2>3. UNCHANGED <<result, ret, mainPc, queued, outcome>>
    BY <1>23 DEF Push
  <2>4. ASSUME NEW i \in 1..Len(results'), results'[i] # Ok
        PROVE  \E c \in 1..queued : outcome[c] = results'[i]
    <3>1. CASE i \in 1..Len(results)
      BY <2>2, <2>4, <3>1
    <3>2. CASE i = Len(results) + 1
      BY <2>1, <2>2, <3>2
    <3>3. QED
      BY <2>2, <3>1, <3>2, LenProperties
  <2>5. QED
    BY <2>3, <2>4
<1>24. CASE UNCHANGED vars
  BY <1>24
<1>25. QED
  BY <1>1, <1>2, <1>3, <1>4, <1>5, <1>6, <1>7, <1>8, <1>9, <1>10,
     <1>11, <1>12, <1>13, <1>14, <1>15, <1>16, <1>17, <1>18, <1>19,
     <1>20, <1>21, <1>22, <1>23, <1>24
     DEF Next, Step, Ended, Main, Worker

-----------------------------------------------------------------------------
(* Theorems                                                                *)

(* The inductive invariant holds when the constructor starts.              *)
LEMMA InitIInv == Init => IInv
<1> SUFFICES ASSUME Init PROVE IInv
  OBVIOUS
<1> USE PoolAssumption DEF Init
<1>1. TypeOK
  <2>1. work \in Seq(Chunks) /\ results \in Seq(Results)
    BY EmptySeq
  <2>2. result \in Results /\ ret \in Results
    BY DEF Results
  <2>3. /\ threads \in 0..NumProcessors /\ queued \in 0..MaxChunks
        /\ waitingThreads \in 0..NumProcessors
    OBVIOUS
  <2>4. QED
    BY <2>1, <2>2, <2>3 DEF TypeOK, MainPcs, WorkerPcs
<1>2. WaitInv
  <2>1. Waiting = {}
    BY DEF Waiting, WaitPcs
  <2>2. QED
    BY <2>1, FS_EmptySet DEF WaitInv
<1>3. MutexInv /\ MainInv /\ WorkerInv /\ ReadyInv /\ DoneInv
  BY DEF MutexInv, Holding, Nobody, Workers, MainInv, Up, Ending, WorkerInv, ReadyInv, DoneInv
<1>4. ChunkInv
  BY EmptySeq DEF ChunkInv, Taken, Chunks, NoChunk, NotRun
<1>5. ErrorInv /\ OriginInv
  BY EmptySeq DEF ErrorInv, OriginInv, Clearing, NotRun, Ok
<1>6. QED
  BY <1>1, <1>2, <1>3, <1>4, <1>5 DEF IInv

(* Every step of the pool keeps the inductive invariant.                   *)
LEMMA StepIInv == IInv /\ [Next]_vars => IInv'
<1> SUFFICES ASSUME IInv, [Next]_vars PROVE IInv'
  OBVIOUS
<1>1. WaitInv' /\ TypeOK'
  BY WaitStep, TypeStep
<1>2. QED
  BY <1>1, MutexStep, MainStep, WorkerStep, ReadyStep, ChunkStep, ErrorStep,
     OriginStep, DoneStep DEF IInv

(* The inductive invariant always holds.                                   *)
LEMMA Invariance == Spec => []IInv
BY InitIInv, StepIInv, PTL DEF Spec

(* The variables of threadPool_t and of chunkedCopy() keep their types: in *)
(* particular waitingThreads, which threads change in and out of their     *)
(* wait, stays between zero and the number of workers.                     *)
THEOREM TypeCorrect == Spec => []TypeOK
<1>1. IInv => TypeOK
  BY DEF IInv
<1>2. QED
  BY <1>1, Invariance, PTL

(* waitWork() never pops from an empty queue, however many workers there   *)
(* are: it would block with workMutex held.                                *)
THEOREM PopNeverBlocks == Spec => []PopFindsWork
<1>1. IInv => PopFindsWork
  BY DEF IInv, WorkerInv, PopFindsWork
<1>2. QED
  BY <1>1, Invariance, PTL

(* workerThread() copies no chunk twice and never the empty tuple.         *)
THEOREM NoChunkTwice == Spec => []ChunkRunOnce
<1>1. IInv => ChunkRunOnce
  BY HeldChunk DEF IInv, ChunkInv, ChunkRunOnce, Taken, NoChunk, Chunks, TypeOK
<1>2. QED
  BY <1>1, Invariance, PTL

(* assert(copyThreads.ready()) in chunkedCopy() holds.                     *)
THEOREM AssertReady == Spec => []ReadyAfterConstruct
<1>1. IInv => ReadyAfterConstruct
  <2> SUFFICES ASSUME IInv, mainPc = "chunk", queued = 0 PROVE waitingThreads = NumProcessors
    BY DEF ReadyAfterConstruct
  <2>1. Waiting = Workers
    BY DEF IInv, ReadyInv, Waiting, WaitPcs
  <2>2. QED
    BY <2>1, WaitingFinite DEF IInv, WaitInv
<1>2. QED
  BY <1>1, Invariance, PTL

(* Before finish() returns every queued chunk has been popped and run.     *)
LEMMA DrainIdle ==
  ASSUME IInv, mainPc = "drain" \/ (mainPc = "done" /\ work = <<>>)
  PROVE  /\ \A w \in Workers : job[w] = NoChunk
         /\ mainPc = "drain" => work = <<>>
         /\ \A c \in 1..queued : outcome[c] # NotRun
<1>1. \A w \in Workers : pc[w] \notin Busy
  BY DEF IInv, MainInv, Busy
<1>2. \A w \in Workers : job[w] = NoChunk
  BY <1>1 DEF IInv, ChunkInv
<1>3. work = <<>>
  BY PoolAssumption DEF IInv, MainInv, WorkerInv, Workers
<1>4. Taken = 1..queued
  BY <1>3, EmptySeq DEF IInv, TypeOK, Taken
<1>5. NoChunk \notin Taken
  BY <1>4 DEF NoChunk
<1>6. QED
  BY <1>2, <1>3, <1>4, <1>5 DEF IInv, ChunkInv

(* finish() leaves no worker running and no chunk behind.                  *)
THEOREM FinishDrains == Spec => []PoolDestroyedIdle
<1>1. IInv => PoolDestroyedIdle
  BY DrainIdle DEF IInv, MainInv, PoolDestroyedIdle
<1>2. QED
  BY <1>1, Invariance, PTL

(* The value chunkedCopy() returns is truthful, provided the pool has a    *)
(* worker: zero exactly if every chunk was copied, otherwise an error that *)
(* a chunk gave.                                                           *)
THEOREM TruthfulResult ==
  ASSUME NumProcessors # 0
  PROVE  Spec => []ExitStatus
<1>1. IInv => ExitStatus
  <2> SUFFICES ASSUME IInv, mainPc = "done", ~(queued = 0 /\ ret \in StartErrors)
               PROVE  /\ ret = Ok <=> \A c \in 1..queued : outcome[c] = Ok
                      /\ ret # Ok => \E c \in 1..queued : outcome[c] = ret
    BY DEF ExitStatus
  <2>1. work = <<>> /\ results = <<>>
    BY DEF IInv, DoneInv
  <2>2. \A c \in 1..queued : outcome[c] # NotRun
    BY <2>1, DrainIdle
  <2>3. \A c \in 1..queued : c \in Chunks /\ outcome[c] \in {Ok} \cup Errors
    BY <2>2, PoolAssumption DEF IInv, TypeOK, Chunks, Results
  <2>4. \A w \in Workers : pc[w] # "push"
    BY DEF IInv, MainInv
  <2>5. ret = Ok => \A c \in 1..queued : outcome[c] \notin Errors
    BY <2>1, <2>3, <2>4, EmptySeq DEF IInv, ErrorInv, Clearing
  <2>6. ret # Ok => \E c \in 1..queued : outcome[c] = ret
    BY DEF IInv, OriginInv, Reported
  <2>7. QED
    BY <2>3, <2>5, <2>6
<1>2. QED
  BY <1>1, Invariance, PTL
(* With at least one worker, every step of the pool is a step of the       *)
(* service or leaves what the service shows unchanged.                     *)
LEMMA ServiceStep ==
  ASSUME NumProcessors # 0, IInv, [Next]_vars
  PROVE  [Service!Next]_(Service!vars)
<1> USE DEF Service!vars
<1>1. CASE Spawn
  BY <1>1 DEF Spawn, workerVars
<1>2. CASE StartFails
  <2>1. CASE threads = 0
    <3>1. queued = 0 /\ ret' \in StartErrors /\ mainPc' = "done" /\ mainPc = "construct"
      BY <1>2, <2>1 DEF StartFails, IInv, MainInv
    <3>2. UNCHANGED <<queued, outcome>>
      BY <1>2 DEF StartFails, workerVars
    <3>3. Service!Refuse
      BY <3>1, <3>2 DEF Service!Refuse, Service!Pending
    <3>4. QED
      BY <3>3 DEF Service!Next
  <2>2. CASE threads # 0
    BY <1>2, <2>2 DEF StartFails, workerVars
  <2>3. QED
    BY <2>1, <2>2
<1>3. CASE Ready
  BY <1>3 DEF Ready, workerVars
<1>4. CASE Queue
  <2>1. Service!Submit
    BY <1>4 DEF Queue, workerVars, Service!Submit, Service!Pending
  <2>2. QED
    BY <2>1 DEF Service!Next
<1>5. CASE NotifyOne
  BY <1>5 DEF NotifyOne, workerVars
<1>6. CASE PopResult
  BY <1>6 DEF PopResult, workerVars
<1>7. CASE QueueReturns
  BY <1>7 DEF QueueReturns, workerVars
<1>8. CASE NoMoreChunks
  BY <1>8 DEF NoMoreChunks, workerVars
<1>9. CASE Finish
  <2>1. threads # 0
    BY <1>9 DEF Finish, IInv, MainInv, Up
  <2>2. QED
    BY <1>9, <2>1 DEF Finish, workerVars
<1>10. CASE NotifyAll
  BY <1>10 DEF NotifyAll, workerVars
<1>11. CASE Join
  BY <1>11 DEF Join, workerVars
<1>12. CASE FinishReturns
  <2>1. /\ mainPc = "drain" /\ mainPc' = "done" /\ results = <<>>
        /\ ret' = Keep(ret, result) /\ UNCHANGED <<queued, outcome>>
    BY <1>12 DEF FinishReturns, workerVars
  <2>2. \A c \in 1..queued : outcome[c] # NotRun
    BY <2>1, DrainIdle
  <2>3. \A c \in 1..queued : c \in Chunks /\ outcome[c] \in {Ok} \cup Errors
    BY <2>2, PoolAssumption DEF IInv, TypeOK, Chunks, Results
  <2>4. \A w \in Workers : pc[w] # "push"
    BY <2>1 DEF IInv, MainInv
  <2>5. CASE ret' = Ok
    <3>1. ret = Ok /\ result = Ok
      BY <2>1, <2>5 DEF Keep
    <3>2. \A c \in 1..queued : outcome[c] = Ok
      BY <2>1, <2>3, <2>4, <3>1, EmptySeq DEF IInv, ErrorInv
    <3>3. Service!Conclude
      BY <2>1, <2>2, <2>5, <3>2
         DEF Service!Conclude, Service!Pending, Service!NotRun, Service!Ok, Ok, NotRun
    <3>4. QED
      BY <3>3 DEF Service!Next
  <2>6. CASE ret' # Ok
    <3>1. \E c \in 1..queued : outcome[c] = ret'
      BY <2>1, <2>6 DEF Keep, IInv, OriginInv, Reported, Clearing
    <3>2. Service!Conclude
      BY <2>1, <2>2, <2>6, <3>1
         DEF Service!Conclude, Service!Pending, Service!NotRun, Service!Ok, Ok, NotRun
    <3>3. QED
      BY <3>2 DEF Service!Next
  <2>7. QED
    BY <2>5, <2>6
<1>13. ASSUME NEW w \in Workers, Loop(w) PROVE [Service!Next]_(Service!vars)
  BY <1>13 DEF Loop, mainVars
<1>14. ASSUME NEW w \in Workers, Lock(w) PROVE [Service!Next]_(Service!vars)
  BY <1>14 DEF Lock, mainVars
<1>15. ASSUME NEW w \in Workers, Predicate(w) PROVE [Service!Next]_(Service!vars)
  BY <1>15 DEF Predicate, mainVars
<1>16. ASSUME NEW w \in Workers, Block(w) PROVE [Service!Next]_(Service!vars)
  BY <1>16 DEF Block, mainVars
<1>17. ASSUME NEW w \in Workers, SpuriousWake(w) PROVE [Service!Next]_(Service!vars)
  BY <1>17 DEF SpuriousWake, mainVars
<1>18. ASSUME NEW w \in Workers, Relock(w) PROVE [Service!Next]_(Service!vars)
  BY <1>18 DEF Relock, mainVars
<1>19. ASSUME NEW w \in Workers, Take(w) PROVE [Service!Next]_(Service!vars)
  BY <1>19 DEF Take, mainVars
<1>20. ASSUME NEW w \in Workers, Pop(w) PROVE [Service!Next]_(Service!vars)
  BY <1>20 DEF Pop, mainVars
<1>21. ASSUME NEW w \in Workers, Check(w) PROVE [Service!Next]_(Service!vars)
  BY <1>21 DEF Check, mainVars
<1>22. ASSUME NEW w \in Workers, Run(w) PROVE [Service!Next]_(Service!vars)
  <2>1. /\ job[w] \in 1..queued /\ outcome[job[w]] = NotRun /\ mainPc # "done"
    BY <1>22, HeldChunk DEF Run, IInv, ChunkInv, MainInv, Taken, NoChunk, Chunks, TypeOK
  <2>2. Service!Execute(job[w])
    BY <1>22, <2>1 DEF Run, mainVars, Service!Execute, Service!Pending, Service!NotRun,
                   Service!Ok, NotRun, Results, Ok
  <2>3. QED
    BY <2>1, <2>2 DEF Service!Next
<1>23. ASSUME NEW w \in Workers, Push(w) PROVE [Service!Next]_(Service!vars)
  BY <1>23 DEF Push, mainVars
<1>24. CASE UNCHANGED vars
  BY <1>24 DEF vars, mainVars, workerVars
<1>25. QED
  BY <1>1, <1>2, <1>3, <1>4, <1>5, <1>6, <1>7, <1>8, <1>9, <1>10,
     <1>11, <1>12, <1>13, <1>14, <1>15, <1>16, <1>17, <1>18, <1>19,
     <1>20, <1>21, <1>22, <1>23, <1>24
     DEF Next, Step, Ended, Main, Worker

(* The pool with all its threads, and for any number of chunks, implements *)
(* the service chunkedCopy() offers its caller, provided it has a worker.  *)
THEOREM PoolImplementsService ==
  ASSUME NumProcessors # 0
  PROVE  Spec => ImplementsService
<1>1. Init => Service!Init
  BY DEF Init, Service!Init, Service!Pending, Service!NotRun, NotRun, Chunks
<1>2. IInv /\ [Next]_vars => [Service!Next]_(Service!vars)
  BY ServiceStep
<1>3. QED
  BY <1>1, <1>2, Invariance, PTL DEF Spec, ImplementsService, Service!Spec
-----------------------------------------------------------------------------
(* When the pool stands still                                              *)

\* Worker w has a step to take.
Runnable(w) ==
    \/ pc[w] \in {"loop", "pred", "block", "take", "check", "run", "push"}
    \/ pc[w] \in {"lock", "woken"} /\ workMutex = Nobody
    \/ pc[w] = "pop" /\ work # <<>>

\* The main thread has a step to take.
MainRunnable ==
    \/ mainPc \in {"chunk", "notify", "clear", "finish", "notifyAll", "drain"}
    \/ mainPc = "construct" /\ (threads < NumProcessors \/ ready)
    \/ mainPc = "join" /\ \A w \in Workers : pc[w] = "exited"

Standstill == ~MainRunnable /\ \A w \in Workers : ~Runnable(w)

\* The threads started so far are running.
StartedInv ==
    mainPc \in Up \cup {"construct"} => \A w \in Workers : w <= threads => pc[w] # "new"

\* The one way for a pool to stand still before its end: finish() waits for
\* workers that sleep although the flag is up.
StandsInJoin ==
    Standstill =>
        \/ mainPc \in {"done", "terminated"}
        \/ /\ mainPc = "join" /\ finished
           /\ \A w \in Workers : pc[w] \in {"asleep", "exited"}
           /\ \E w \in Workers : pc[w] = "asleep"

(* A thread that was started does not become new again.                    *)
LEMMA StartedStep == ASSUME IInv, StartedInv, [Next]_vars PROVE StartedInv'
<1> USE DEF StartedInv, Up
<1>1. ASSUME NEW w \in Workers, pc' = [pc EXCEPT ![w] = pc'[w]], pc'[w] # "new",
             UNCHANGED mainVars
      PROVE  StartedInv'
  BY <1>1 DEF mainVars, IInv, TypeOK
<1>2. CASE Spawn
  BY <1>2, PoolAssumption DEF Spawn, IInv, TypeOK, Workers
<1>3. CASE NotifyOne
  BY <1>3 DEF NotifyOne, Asleep, IInv, TypeOK
<1>4. CASE NotifyAll
  BY <1>4 DEF NotifyAll
<1>5. CASE Main /\ ~Spawn /\ ~NotifyOne /\ ~NotifyAll
  BY <1>5 DEF Main, StartFails, Ready, Queue, PopResult, QueueReturns, NoMoreChunks, Finish,
              Join, FinishReturns, workerVars
<1>6. ASSUME NEW w \in Workers, Worker(w) \/ SpuriousWake(w) PROVE StartedInv'
  <2>1. pc' = [pc EXCEPT ![w] = pc'[w]] /\ pc'[w] # "new" /\ UNCHANGED mainVars
    BY <1>6 DEF IInv, TypeOK, Worker, SpuriousWake, Loop, Lock, Predicate, Block, Relock, Take,
                Pop, Check, Run, Push, Goto
  <2>2. QED
    BY <1>1, <2>1
<1>7. CASE UNCHANGED vars
  BY <1>7 DEF vars, mainVars, workerVars
<1>8. QED
  BY <1>2, <1>3, <1>4, <1>5, <1>6, <1>7 DEF Next, Step, Ended

(* Nobody runs: workMutex is free, and every worker sleeps or has left.    *)
LEMMA StandsStill == ASSUME IInv, StartedInv PROVE StandsInJoin
<1> SUFFICES ASSUME Standstill, mainPc \notin {"done", "terminated"}
             PROVE  /\ mainPc = "join" /\ finished
                    /\ \A w \in Workers : pc[w] \in {"asleep", "exited"}
                    /\ \E w \in Workers : pc[w] = "asleep"
  BY DEF StandsInJoin
<1>1. ASSUME NEW w \in Workers PROVE pc[w] \notin Holding
  BY <1>1 DEF Standstill, Runnable, Holding, IInv, WorkerInv
<1>2. workMutex = Nobody
  BY <1>1 DEF IInv, MutexInv, TypeOK
<1>3. ASSUME NEW w \in Workers PROVE pc[w] \in {"new", "asleep", "exited"}
  BY <1>1, <1>2, <1>3 DEF Standstill, Runnable, Holding, IInv, TypeOK, WorkerPcs, WaitPcs
<1>4. mainPc \in {"construct", "join"}
  BY DEF Standstill, MainRunnable, IInv, TypeOK, MainPcs
<1>5. threads = NumProcessors
  BY <1>4, PoolAssumption DEF Standstill, MainRunnable, IInv, MainInv, Up, TypeOK
<1>6. ASSUME NEW w \in Workers PROVE pc[w] # "new"
  BY <1>4, <1>5, PoolAssumption DEF StartedInv, Up, Workers
<1>7. mainPc # "construct"
  <2> SUFFICES ASSUME mainPc = "construct" PROVE FALSE
    OBVIOUS
  <2>1. ~finished
    BY DEF IInv, MainInv, Ending
  <2>2. \A w \in Workers : pc[w] = "asleep"
    BY <1>3, <1>6, <2>1 DEF IInv, WorkerInv
  <2>3. Waiting = Workers
    BY <2>2 DEF Waiting, WaitPcs
  <2>4. ready
    BY <2>3, WaitingFinite DEF IInv, WaitInv, ready
  <2>5. QED
    BY <2>4 DEF Standstill, MainRunnable
<1>8. mainPc = "join" /\ finished
  BY <1>4, <1>7 DEF IInv, MainInv
<1>9. \E w \in Workers : pc[w] # "exited"
  BY <1>8 DEF Standstill, MainRunnable
<1>10. QED
  BY <1>3, <1>6, <1>8, <1>9

(* Before its end the pool stands still only in join(), with a worker that *)
(* sleeps although the flag is up: no interleaving of queue(), the workers *)
(* and the constructor's polling stops anywhere else.                      *)
THEOREM StandsOnlyInJoin == Spec => []StandsInJoin
<1>1. Init => StartedInv
  BY PoolAssumption DEF Init, StartedInv, Workers
<1>2. IInv /\ StartedInv /\ [Next]_vars => StartedInv'
  BY StartedStep
<1>3. IInv /\ StartedInv => StandsInJoin
  BY StandsStill
<1>4. QED
  BY <1>1, <1>2, <1>3, Invariance, PTL DEF Spec

\* Worker w is beyond the window between its predicate and its sleep.
Awake(w) == pc[w] \notin {"block", "asleep"}

\* Once finish() has notified, no worker falls asleep any more.
NobodyFallsAsleep ==
    [][mainPc = "join" => \A w \in Workers : Awake(w) => pc'[w] \notin {"block", "asleep"}]_vars

(* With the flag up the predicate holds: a worker that notify_all() found  *)
(* awake, or woke, stays awake and leaves.                                 *)
THEOREM NobodySleepsInJoin == Spec => NobodyFallsAsleep
<1>1. ASSUME IInv, [Next]_vars, mainPc = "join", NEW w \in Workers, Awake(w)
      PROVE  pc'[w] \notin {"block", "asleep"}
  <2>1. finished
    BY <1>1 DEF IInv, MainInv
  <2>2. ASSUME NEW v \in Workers, Worker(v) \/ SpuriousWake(v)
        PROVE  pc'[w] \notin {"block", "asleep"}
    <3>1. CASE v # w
      <4>1. \E label : pc' = [pc EXCEPT ![v] = label]
        BY <2>2 DEF IInv, TypeOK, Worker, SpuriousWake, Loop, Lock, Predicate, Block, Relock,
                    Take, Pop, Check, Run, Push, Goto
      <4>2. PICK label : pc' = [pc EXCEPT ![v] = label]
        BY <4>1
      <4>3. pc'[w] = pc[w]
        BY <1>1, <3>1, <4>2 DEF IInv, TypeOK
      <4>4. QED
        BY <1>1, <4>3 DEF Awake
    <3>2. CASE v = w
      BY <1>1, <2>1, <2>2, <3>2 DEF Awake, IInv, TypeOK, Worker, SpuriousWake, Loop, Lock, Predicate,
                   Block, Relock, Take, Pop, Check, Run, Push, Goto
    <3>3. QED
      BY <3>1, <3>2
  <2>3. CASE Main
    BY <1>1, <2>3 DEF Awake, Main, Spawn, StartFails, Ready, Queue, NotifyOne, PopResult, QueueReturns,
                   NoMoreChunks, Finish, NotifyAll, Join, FinishReturns, workerVars
  <2>4. CASE UNCHANGED vars
    BY <1>1, <2>4 DEF Awake, vars, workerVars
  <2>5. QED
    BY <1>1, <2>2, <2>3, <2>4 DEF Next, Step, Ended
<1>2. IInv /\ [Next]_vars =>
        [mainPc = "join" => \A w \in Workers : Awake(w) => pc'[w] \notin {"block", "asleep"}]_vars
  BY <1>1
<1>3. QED
  BY <1>2, Invariance, PTL DEF Spec, NobodyFallsAsleep
=============================================================================
