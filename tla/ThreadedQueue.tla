---------------------------- MODULE ThreadedQueue ----------------------------
(***************************************************************************)
(* threadedQueue_t (src/threadedQueue.hxx) between threads that push and   *)
(* threads that pop.  queueLength is atomic and read without the mutex by  *)
(* empty(), so the steps of push() and pop() that change it and the        *)
(* std::queue are separate.  emplace() takes the same steps as push().     *)
(*                                                                         *)
(* A popping thread that is the only one may rely on empty(): having seen  *)
(* FALSE it knows that pop() returns at once.  That is how threadPool_t    *)
(* uses the class, for both of its queues.                                 *)
(***************************************************************************)
EXTENDS Integers, Sequences, FiniteSets

CONSTANTS
    Producers,     \* threads that push
    Consumers,     \* threads that pop
    PushCount,     \* bound: how many values each producer pushes
    PopCount,      \* bound: how many values each consumer pops
    Nobody         \* queueMutex is free

ASSUME QueueAssumption ==
    /\ IsFiniteSet(Producers) /\ IsFiniteSet(Consumers)
    /\ Producers \cap Consumers = {}
    /\ Nobody \notin Producers \cup Consumers
    /\ PushCount \in Nat /\ PopCount \in Nat

Threads == Producers \cup Consumers

VARIABLES
    queue,         \* the std::queue
    queueLength,   \* the atomic counter
    queueMutex,    \* the thread holding queueMutex, or Nobody
    pc,            \* where each thread is
    count,         \* how many operations each thread has completed
    popped         \* the values each consumer got, oldest first

vars == <<queue, queueLength, queueMutex, pc, count, popped>>

Values == Producers \X (1..PushCount)
PushPcs == {"idle", "emplace", "grow", "notify"}
PopPcs  == {"idle", "pop", "test", "asleep", "woken", "shrink", "front"}

TypeOK ==
    /\ queue \in Seq(Values)
    /\ queueLength \in Nat
    /\ queueMutex \in Threads \cup {Nobody}
    /\ pc \in [Threads -> PushPcs \cup PopPcs]
    /\ count \in [Threads -> Nat]
    /\ popped \in [Consumers -> Seq(Values)]

Init ==
    /\ queue = <<>>
    /\ queueLength = 0
    /\ queueMutex = Nobody
    /\ pc = [t \in Threads |-> "idle"]
    /\ count = [t \in Threads |-> 0]
    /\ popped = [c \in Consumers |-> <<>>]

Goto(t, label) == pc' = [pc EXCEPT ![t] = label]

Lock(t, from, to) ==
    /\ pc[t] = from
    /\ queueMutex = Nobody
    /\ queueMutex' = t
    /\ Goto(t, to)

-----------------------------------------------------------------------------
(* push() and emplace()                                                    *)

\* Mutant: push() forgets the mutex.
PushLock_NoMutex(p) ==
    /\ pc[p] = "idle"
    /\ count[p] < PushCount
    /\ Goto(p, "emplace")
    /\ UNCHANGED <<queue, queueLength, queueMutex, count, popped>>

PushLock(p) ==
    /\ count[p] < PushCount
    /\ Lock(p, "idle", "emplace")
    /\ UNCHANGED <<queue, queueLength, count, popped>>

PushValue(p) ==
    /\ pc[p] = "emplace"
    /\ queue' = Append(queue, <<p, count[p] + 1>>)
    /\ Goto(p, "grow")
    /\ UNCHANGED <<queueLength, queueMutex, count, popped>>

PushCounts(p) ==
    /\ pc[p] = "grow"
    /\ queueLength' = queueLength + 1
    /\ Goto(p, "notify")
    /\ UNCHANGED <<queue, queueMutex, count, popped>>

Asleep == {c \in Consumers : pc[c] = "asleep"}

\* Mutant: only the push that finds the queue empty notifies.
Notify_FirstOnly(p) ==
    /\ pc[p] = "notify"
    /\ IF Asleep = {} \/ queueLength > 1
       THEN Goto(p, "idle")
       ELSE \E c \in Asleep : pc' = [pc EXCEPT ![p] = "idle", ![c] = "woken"]
    /\ queueMutex' = Nobody
    /\ count' = [count EXCEPT ![p] = @ + 1]
    /\ UNCHANGED <<queue, queueLength, popped>>

\* haveData.notify_one(), then the lock_guard releases queueMutex.
Notify(p) ==
    /\ pc[p] = "notify"
    /\ IF Asleep = {}
       THEN Goto(p, "idle")
       ELSE \E c \in Asleep : pc' = [pc EXCEPT ![p] = "idle", ![c] = "woken"]
    /\ queueMutex' = Nobody
    /\ count' = [count EXCEPT ![p] = @ + 1]
    /\ UNCHANGED <<queue, queueLength, popped>>

-----------------------------------------------------------------------------
(* pop()                                                                   *)

\* Mutant: empty() asks the std::queue instead of the counter.
empty_OfQueue == queue = <<>>

empty == queueLength = 0

\* The caller asks empty() first and calls pop() only if there is something.
AskThenPop(c) ==
    /\ pc[c] = "idle"
    /\ count[c] < PopCount
    /\ ~empty
    /\ Goto(c, "pop")
    /\ UNCHANGED <<queue, queueLength, queueMutex, count, popped>>

\* The caller calls pop() without asking, prepared to wait.
PopLock(c) ==
    /\ count[c] < PopCount
    /\ Lock(c, "idle", "test")
    /\ UNCHANGED <<queue, queueLength, count, popped>>

PopAskedLock(c) ==
    /\ Lock(c, "pop", "test")
    /\ UNCHANGED <<queue, queueLength, count, popped>>

\* The test of queueLength before the wait and in its predicate: go to sleep,
\* releasing queueMutex, or go on.
Test(c) ==
    /\ pc[c] = "test"
    /\ IF queueLength = 0
       THEN Goto(c, "asleep") /\ queueMutex' = Nobody
       ELSE Goto(c, "shrink") /\ UNCHANGED queueMutex
    /\ UNCHANGED <<queue, queueLength, count, popped>>

SpuriousWake(c) ==
    /\ pc[c] = "asleep"
    /\ Goto(c, "woken")
    /\ UNCHANGED <<queue, queueLength, queueMutex, count, popped>>

\* Mutant: wait() without a predicate.
Relock_NoPredicate(c) ==
    /\ Lock(c, "woken", "shrink")
    /\ UNCHANGED <<queue, queueLength, count, popped>>

Relock(c) ==
    /\ Lock(c, "woken", "test")
    /\ UNCHANGED <<queue, queueLength, count, popped>>

Shrink(c) ==
    /\ pc[c] = "shrink"
    /\ queueLength' = queueLength - 1
    /\ Goto(c, "front")
    /\ UNCHANGED <<queue, queueMutex, count, popped>>

\* Mutant: the value is read at the wrong end of the queue.
Front_Back(c) ==
    /\ pc[c] = "front"
    /\ popped' = [popped EXCEPT ![c] = Append(@, queue[Len(queue)])]
    /\ queue' = Tail(queue)
    /\ queueMutex' = Nobody
    /\ count' = [count EXCEPT ![c] = @ + 1]
    /\ Goto(c, "idle")
    /\ UNCHANGED queueLength

\* front() and pop(); returning releases queueMutex.
Front(c) ==
    /\ pc[c] = "front"
    /\ popped' = [popped EXCEPT ![c] = Append(@, Head(queue))]
    /\ queue' = Tail(queue)
    /\ queueMutex' = Nobody
    /\ count' = [count EXCEPT ![c] = @ + 1]
    /\ Goto(c, "idle")
    /\ UNCHANGED queueLength

-----------------------------------------------------------------------------

Push(p) == PushLock(p) \/ PushValue(p) \/ PushCounts(p) \/ Notify(p)

PopStep(c) == \/ PopLock(c) \/ PopAskedLock(c) \/ Test(c) \/ Relock(c)
              \/ Shrink(c) \/ Front(c)

\* Every thread has completed its operations.
Completed ==
    /\ \A p \in Producers : pc[p] = "idle" /\ count[p] = PushCount
    /\ \A c \in Consumers : pc[c] = "idle" /\ count[c] = PopCount

Next ==
    \/ \E p \in Producers : Push(p)
    \/ \E c \in Consumers : PopStep(c) \/ AskThenPop(c) \/ SpuriousWake(c)
    \/ Completed /\ UNCHANGED vars

\* Every thread that can run does, and one that keeps trying to lock a mutex
\* that keeps becoming free gets it; spurious wakeups need not happen.
Fairness ==
    /\ \A p \in Producers : SF_vars(Push(p))
    /\ \A c \in Consumers : SF_vars(PopStep(c))

Spec == Init /\ [][Next]_vars
FairSpec == Spec /\ Fairness

-----------------------------------------------------------------------------
(* Properties                                                              *)

\* pop() calls front() only on a queue that holds a value, also after a
\* spurious wakeup or when another consumer was faster.
FrontHasValue == \A c \in Consumers : pc[c] = "front" => queue # <<>>

\* The counter that empty() and size() read without the mutex never promises
\* a value that is not there, and is exact while nobody holds the mutex.
LengthHonest ==
    /\ queueLength <= Len(queue)
    /\ queueMutex = Nobody => queueLength = Len(queue)

\* As long as a thread is the only one to pop, having seen empty() return FALSE
\* it does not wait in pop(): clearResultQueue() and waitWork() rely on it.
SoleConsumerNeverWaits ==
    \A c \in Consumers :
        /\ pc[c] = "pop"
        /\ \A d \in Consumers \ {c} : pc[d] = "idle" /\ count[d] = 0
        => queueLength > 0

\* The values each consumer got from one producer come in the order in which
\* that producer pushed them.
ProducerOrder ==
    \A c \in Consumers : \A i, j \in 1..Len(popped[c]) :
        i < j /\ popped[c][i][1] = popped[c][j][1]
            => popped[c][i][2] < popped[c][j][2]

\* No wakeup is lost: while a consumer sleeps, every value in the queue has a
\* consumer of its own on the way, or a producer about to notify.
NoLostWakeup ==
    Asleep # {} =>
        queueLength <= Cardinality({c \in Consumers :
                           pc[c] \in {"woken", "test", "shrink"}})
                       + Cardinality({p \in Producers : pc[p] = "notify"})

\* When as many values are pushed as are popped, every pop() returns.
EveryPopReturns == <>[]Completed
=============================================================================
