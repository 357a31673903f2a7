----------------------------- MODULE ThreadPool -----------------------------
(***************************************************************************)
(* threadPool_t (src/threadPool.hxx) driven by the loop of chunkedCopy()   *)
(* (src/algorithm/*/chunking.cxx): the main thread starts one worker per   *)
(* processor, waits until all of them announce themselves, queues one      *)
(* chunk after the other, collects results as they come, and finishes by   *)
(* waking and joining every worker.                                        *)
(*                                                                         *)
(* A step is one operation on shared state.  haveWork.notify_one() and     *)
(* notify_all() run WITHOUT workMutex, so the step in which a waiter       *)
(* evaluates its predicate and the step in which it goes to sleep are      *)
(* separate.  The predicate reads `finished' and then work.empty(); as     *)
(* `finished' only becomes true and nobody else pops while workMutex is    *)
(* held, reading both at once has the same outcomes.  The two              *)
(* threadedQueue_t's are sequences: push, emplace and pop are atomic (they *)
(* hold queueMutex throughout), and pop on an empty queue blocks.          *)
(***************************************************************************)
EXTENDS Integers, Sequences, FiniteSets

CONSTANTS
    NumProcessors,  \* affinity.numProcessors(): the number of workers
    MaxChunks,      \* bound: the most chunks the file chunker yields
    Errors,         \* the non-zero results a worker function can return
    StartErrors     \* the error codes of a failed thread or affinity call

ASSUME PoolAssumption ==
    /\ NumProcessors \in Nat
    /\ MaxChunks \in Nat
    /\ Errors \subseteq Nat \ {0}
    /\ StartErrors \subseteq Nat \ {0}

Workers == 1..NumProcessors
Chunks  == 1..MaxChunks
Ok      == 0                    \* result_t{}: the result of a good copy
NotRun  == -1                   \* outcome of a chunk no worker has run
NoChunk == 0                    \* the empty tuple waitWork() returns
Nobody  == 0                    \* workMutex is free
Results == {Ok} \cup Errors

VARIABLES
    mainPc,          \* where the main thread is
    threads,         \* how many std::threads the constructor has started
    queued,          \* how many chunks have been queued
    work,            \* the work queue
    results,         \* the result queue
    result,          \* the local of clearResultQueue()
    ret,             \* what chunkedCopy() is going to return
    finished,        \* the flag finish() raises
    waitingThreads,  \* the counter behind ready()
    workMutex,       \* the worker holding workMutex, or Nobody
    pc,              \* where each worker is
    job,             \* the chunk each worker holds
    outcome          \* what the worker function returned for each chunk

mainVars   == <<mainPc, threads, queued, result, ret>>
workerVars == <<waitingThreads, workMutex, pc, job, outcome>>
vars == <<mainVars, workerVars, work, results, finished>>

MainPcs == {"construct", "chunk", "notify", "clear", "finish", "notifyAll",
            "join", "drain", "done", "terminated"}
WaitPcs == {"pred", "block", "asleep", "woken", "take"}
WorkerPcs == WaitPcs \cup {"new", "loop", "lock", "pop", "check", "run",
                           "push", "exited"}

TypeOK ==
    /\ mainPc \in MainPcs
    /\ threads \in 0..NumProcessors
    /\ queued \in 0..MaxChunks
    /\ work \in Seq(Chunks)
    /\ results \in Seq(Results)
    /\ result \in Results
    /\ ret \in Results \cup StartErrors
    /\ finished \in BOOLEAN
    /\ waitingThreads \in 0..NumProcessors
    /\ workMutex \in Workers \cup {Nobody}
    /\ pc \in [Workers -> WorkerPcs]
    /\ job \in [Workers -> Chunks \cup {NoChunk}]
    /\ outcome \in [Chunks -> Results \cup {NotRun}]

Init ==
    /\ mainPc = "construct"
    /\ threads = 0
    /\ queued = 0
    /\ work = <<>>
    /\ results = <<>>
    /\ result = Ok
    /\ ret = Ok
    /\ finished = FALSE
    /\ waitingThreads = 0
    /\ workMutex = Nobody
    /\ pc = [w \in Workers |-> "new"]
    /\ job = [w \in Workers |-> NoChunk]
    /\ outcome = [c \in Chunks |-> NotRun]

-----------------------------------------------------------------------------
(* The main thread                                                         *)

\* The constructor emplaces the next std::thread.
Spawn ==
    /\ mainPc = "construct"
    /\ threads < NumProcessors
    /\ threads' = threads + 1
    /\ pc' = [pc EXCEPT ![threads + 1] = "loop"]
    /\ UNCHANGED <<mainPc, queued, result, ret, work, results, finished,
                   waitingThreads, workMutex, job, outcome>>

\* Reading the affinity mask or starting a thread throws std::system_error.
\* With no thread started chunkedCopy() catches it and returns its code;
\* otherwise destroying the vector of joinable threads calls std::terminate.
StartFails ==
    /\ mainPc = "construct"
    /\ threads = 0 \/ threads < NumProcessors
    /\ IF threads = 0
       THEN mainPc' = "done" /\ ret' \in StartErrors
       ELSE mainPc' = "terminated" /\ UNCHANGED ret
    /\ UNCHANGED <<threads, queued, result, work, results, finished, workerVars>>

\* Mutant: the first waiting worker makes the pool ready.
ready_AnyWaiting == waitingThreads > 0

ready == waitingThreads = NumProcessors

\* The constructor's polling loop sees ready() and the pool is up.
Ready ==
    /\ mainPc = "construct"
    /\ threads = NumProcessors
    /\ ready
    /\ mainPc' = "chunk"
    /\ UNCHANGED <<threads, queued, result, ret, work, results, finished, workerVars>>

\* queue(): work.emplace() of the chunk the file chunker yields next.
Queue ==
    /\ mainPc = "chunk"
    /\ queued < MaxChunks
    /\ queued' = queued + 1
    /\ work' = Append(work, queued + 1)
    /\ mainPc' = "notify"
    /\ UNCHANGED <<threads, result, ret, results, finished, workerVars>>

Asleep == {w \in Workers : pc[w] = "asleep"}

\* queue(): haveWork.notify_one(), then clearResultQueue() starts.
NotifyOne ==
    /\ mainPc = "notify"
    /\ \/ Asleep = {} /\ UNCHANGED pc
       \/ \E w \in Asleep : pc' = [pc EXCEPT ![w] = "woken"]
    /\ mainPc' = "clear"
    /\ result' = Ok
    /\ UNCHANGED <<threads, queued, ret, work, results, finished,
                   waitingThreads, workMutex, job, outcome>>

\* Mutant: a later result replaces an earlier one.
Keep_Last(old, new) == new

\* Which result clearResultQueue() keeps: the first that is not zero.
Keep(old, new) == IF old = Ok THEN new ELSE old

\* clearResultQueue(): one turn of its loop.
PopResult ==
    /\ mainPc \in {"clear", "drain"}
    /\ results # <<>>
    /\ result' = Keep(result, Head(results))
    /\ results' = Tail(results)
    /\ UNCHANGED <<mainPc, threads, queued, ret, work, finished, workerVars>>

\* queue() returns: a failed chunk makes chunkedCopy() return at once, which
\* destroys the pool; otherwise the loop goes on to the next chunk.
QueueReturns ==
    /\ mainPc = "clear"
    /\ results = <<>>
    /\ ret' = result
    /\ mainPc' = IF result = Ok THEN "chunk" ELSE "finish"
    /\ UNCHANGED <<threads, queued, result, work, results, finished, workerVars>>

\* The chunker is at its end: chunkedCopy() calls finish().
NoMoreChunks ==
    /\ mainPc = "chunk"
    /\ mainPc' = "finish"
    /\ UNCHANGED <<threads, queued, result, ret, work, results, finished, workerVars>>

\* finish(): without threads it returns {} at once, else it raises the flag.
Finish ==
    /\ mainPc = "finish"
    /\ IF threads = 0
       THEN mainPc' = "done" /\ UNCHANGED finished
       ELSE mainPc' = "notifyAll" /\ finished' = TRUE
    /\ UNCHANGED <<threads, queued, result, ret, work, results, workerVars>>

\* finish(): haveWork.notify_all().
NotifyAll ==
    /\ mainPc = "notifyAll"
    /\ pc' = [w \in Workers |-> IF pc[w] = "asleep" THEN "woken" ELSE pc[w]]
    /\ mainPc' = "join"
    /\ UNCHANGED <<threads, queued, result, ret, work, results, finished,
                   waitingThreads, workMutex, job, outcome>>

\* finish(): every join() has returned, then threads.clear().
Join ==
    /\ mainPc = "join"
    /\ \A w \in Workers : pc[w] = "exited"
    /\ threads' = 0
    /\ result' = Ok
    /\ mainPc' = "drain"
    /\ UNCHANGED <<queued, ret, work, results, finished, workerVars>>

\* finish() returns the last clearResultQueue(); the destructor's call of
\* finish() on the error path throws that value away.
FinishReturns ==
    /\ mainPc = "drain"
    /\ results = <<>>
    /\ ret' = Keep(ret, result)
    /\ mainPc' = "done"
    /\ UNCHANGED <<threads, queued, result, work, results, finished, workerVars>>

Main ==
    \/ Spawn \/ StartFails \/ Ready \/ Queue \/ NotifyOne \/ PopResult
    \/ QueueReturns \/ NoMoreChunks \/ Finish \/ NotifyAll \/ Join \/ FinishReturns

-----------------------------------------------------------------------------
(* Worker w                                                                *)

Goto(w, label) == pc' = [pc EXCEPT ![w] = label]

\* Mutant: workers leave as soon as the flag is up.
Drained_IgnoresQueue == finished

\* workerThread(): the condition of the while loop.
Drained == finished /\ work = <<>>

Loop(w) ==
    /\ pc[w] = "loop"
    /\ Goto(w, IF Drained THEN "exited" ELSE "lock")
    /\ UNCHANGED <<mainVars, work, results, finished,
                   waitingThreads, workMutex, job, outcome>>

\* waitWork(): take workMutex and announce oneself as waiting.
Lock(w) ==
    /\ pc[w] = "lock"
    /\ workMutex = Nobody
    /\ workMutex' = w
    /\ waitingThreads' = waitingThreads + 1
    /\ Goto(w, "pred")
    /\ UNCHANGED <<mainVars, work, results, finished, job, outcome>>

\* Mutant: the predicate forgets the flag.
Predicate_OnlyWork(w) ==
    /\ pc[w] = "pred"
    /\ Goto(w, IF work # <<>> THEN "take" ELSE "block")
    /\ UNCHANGED <<mainVars, work, results, finished,
                   waitingThreads, workMutex, job, outcome>>

\* waitWork(): the predicate of haveWork.wait().
Predicate(w) ==
    /\ pc[w] = "pred"
    /\ Goto(w, IF finished \/ work # <<>> THEN "take" ELSE "block")
    /\ UNCHANGED <<mainVars, work, results, finished,
                   waitingThreads, workMutex, job, outcome>>

\* haveWork.wait(): release workMutex and go to sleep, in one step.
Block(w) ==
    /\ pc[w] = "block"
    /\ workMutex' = Nobody
    /\ Goto(w, "asleep")
    /\ UNCHANGED <<mainVars, work, results, finished, waitingThreads, job, outcome>>

\* A condition variable may wake a waiter that nobody notified.
SpuriousWake(w) ==
    /\ pc[w] = "asleep"
    /\ Goto(w, "woken")
    /\ UNCHANGED <<mainVars, work, results, finished,
                   waitingThreads, workMutex, job, outcome>>

\* Mutant: a worker counts itself again every time it wakes up.
Relock_Recounts(w) ==
    /\ pc[w] = "woken"
    /\ workMutex = Nobody
    /\ workMutex' = w
    /\ waitingThreads' = waitingThreads + 1
    /\ Goto(w, "pred")
    /\ UNCHANGED <<mainVars, work, results, finished, job, outcome>>

\* haveWork.wait(): a woken waiter takes workMutex back.
Relock(w) ==
    /\ pc[w] = "woken"
    /\ workMutex = Nobody
    /\ workMutex' = w
    /\ Goto(w, "pred")
    /\ UNCHANGED <<mainVars, work, results, finished, waitingThreads, job, outcome>>

\* Mutant: workMutex is released before the pop.
Take_UnlocksEarly(w) ==
    /\ pc[w] = "take"
    /\ waitingThreads' = waitingThreads - 1
    /\ Goto(w, IF work # <<>> THEN "pop" ELSE "check")
    /\ workMutex' = Nobody
    /\ UNCHANGED <<mainVars, work, results, finished, job, outcome>>

\* waitWork(): the wait is over; with no work it returns {false, {}}.
Take(w) ==
    /\ pc[w] = "take"
    /\ waitingThreads' = waitingThreads - 1
    /\ IF work # <<>>
       THEN Goto(w, "pop") /\ UNCHANGED workMutex
       ELSE Goto(w, "check") /\ workMutex' = Nobody
    /\ UNCHANGED <<mainVars, work, results, finished, job, outcome>>

\* Mutant: front() without the pop().
Pop_KeepsFront(w) ==
    /\ pc[w] = "pop"
    /\ work # <<>>
    /\ job' = [job EXCEPT ![w] = Head(work)]
    /\ workMutex' = Nobody
    /\ Goto(w, "check")
    /\ UNCHANGED <<mainVars, work, results, finished, waitingThreads, outcome>>

\* waitWork(): work.pop(), then workMutex is released on return.
Pop(w) ==
    /\ pc[w] = "pop"
    /\ work # <<>>
    /\ job' = [job EXCEPT ![w] = Head(work)]
    /\ work' = Tail(work)
    /\ workMutex' = Nobody
    /\ Goto(w, "check")
    /\ UNCHANGED <<mainVars, results, finished, waitingThreads, outcome>>

\* Mutant: a worker leaves although it holds a chunk.
Check_DropsChunk(w) ==
    /\ pc[w] = "check"
    /\ Goto(w, IF finished THEN "exited" ELSE "run")
    /\ UNCHANGED <<mainVars, work, results, finished,
                   waitingThreads, workMutex, job, outcome>>

\* workerThread(): leave the loop when there is nothing to do any more.
Check(w) ==
    /\ pc[w] = "check"
    /\ Goto(w, IF finished /\ job[w] = NoChunk THEN "exited" ELSE "run")
    /\ UNCHANGED <<mainVars, work, results, finished,
                   waitingThreads, workMutex, job, outcome>>

\* workerThread(): invoke() the worker function on the chunk.
Run(w) ==
    /\ pc[w] = "run"
    /\ \E r \in Results : outcome' = [outcome EXCEPT ![job[w]] = r]
    /\ Goto(w, "push")
    /\ UNCHANGED <<mainVars, work, results, finished, waitingThreads, workMutex, job>>

\* workerThread(): results.push().
Push(w) ==
    /\ pc[w] = "push"
    /\ results' = Append(results, outcome[job[w]])
    /\ job' = [job EXCEPT ![w] = NoChunk]
    /\ Goto(w, "loop")
    /\ UNCHANGED <<mainVars, work, finished, waitingThreads, workMutex, outcome>>

Worker(w) ==
    \/ Loop(w) \/ Lock(w) \/ Predicate(w) \/ Block(w) \/ Relock(w)
    \/ Take(w) \/ Pop(w) \/ Check(w) \/ Run(w) \/ Push(w)

-----------------------------------------------------------------------------

\* std::terminate ends the process with every thread in it.
Step ==
    /\ mainPc # "terminated"
    /\ Main \/ \E w \in Workers : Worker(w) \/ SpuriousWake(w)

\* The program has ended.
Ended == mainPc \in {"done", "terminated"} /\ UNCHANGED vars

Next == Step \/ Ended

\* Every runnable thread gets to run; nothing makes a spurious wakeup happen.
Fairness ==
    /\ WF_vars(mainPc # "terminated" /\ Main)
    /\ \A w \in Workers : WF_vars(mainPc # "terminated" /\ Worker(w))

Spec == Init /\ [][Next]_vars
FairSpec == Spec /\ Fairness

-----------------------------------------------------------------------------
(* Properties                                                              *)

\* waitWork() calls work.pop() only on a queue that still holds something.
\* Were another worker able to empty it after the check, pop() would wait on
\* haveData with workMutex held and every other worker would stop behind it.
PopFindsWork == \A w \in Workers : pc[w] = "pop" => work # <<>>

\* workerThread() invokes the worker function only on a chunk that was queued,
\* that no worker has run and that no other worker holds: no chunk is copied
\* twice and the empty tuple of waitWork() is never copied at all.
ChunkRunOnce ==
    \A w \in Workers : pc[w] = "run" =>
        /\ job[w] \in 1..queued
        /\ outcome[job[w]] = NotRun
        /\ \A v \in Workers \ {w} : job[v] # job[w]

\* assert(copyThreads.ready()) in chunkedCopy(): once the constructor is
\* through, ready() stays true until the first chunk is queued, spurious
\* wakeups or not.
ReadyAfterConstruct == mainPc = "chunk" /\ queued = 0 => waitingThreads = NumProcessors

\* What chunkedCopy() returns.  Zero means that every chunk the chunker gave
\* was copied; a failure of any chunk is reported whenever and wherever its
\* result arrives, and the code returned is one a chunk really gave.
ExitStatus ==
    mainPc = "done" /\ ~(queued = 0 /\ ret \in StartErrors) =>
        /\ ret = Ok <=> \A c \in 1..queued : outcome[c] = Ok
        /\ ret # Ok => \E c \in 1..queued : outcome[c] = ret

\* finish() hands the pool over for destruction only when every worker has
\* left its loop, no worker holds a chunk and no queued chunk is left behind.
\* Nor does chunkedCopy() return with a worker running on a pool that is gone
\* when starting the threads failed half way (it does not return at all then).
PoolDestroyedIdle ==
    /\ mainPc = "drain" =>
          /\ \A w \in Workers : pc[w] = "exited" /\ job[w] = NoChunk
          /\ work = <<>>
          /\ \A c \in 1..queued : outcome[c] # NotRun
    /\ mainPc = "done" => \A w \in Workers : pc[w] \in {"new", "exited"}

\* finish() joins every worker and returns, provided that notify_all() found
\* no worker between its predicate and its sleep: all of them run off the
\* remaining chunks and leave.
AwakeWorkersJoin ==
    (mainPc = "join" /\ \A w \in Workers : pc[w] \notin {"block", "asleep"})
        ~> mainPc = "done"

\* finish() always returns, as every test of the pool expects.
FinishAlwaysReturns == mainPc = "finish" ~> mainPc = "done"

\* The pool implements the copy service.
Service == INSTANCE CopyService WITH
    submitted <- queued,
    verdict   <- IF mainPc = "done" THEN ret ELSE -1

\* Seen from outside, queue() and finish() with all their threads behave like
\* one service that runs each chunk once and concludes once, truthfully.
ImplementsService == Service!Spec
=============================================================================
