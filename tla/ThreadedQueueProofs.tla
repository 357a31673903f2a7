-------------------------- MODULE ThreadedQueueProofs --------------------------
(***************************************************************************)
(* Proofs about threadedQueue_t, for any number of producers and consumers *)
(* and any number of operations.                                           *)
(*                                                                         *)
(* QueueInv says who holds queueMutex and by how much queueLength may lag  *)
(* behind the std::queue; OrderInv says that what a producer pushed lies   *)
(* in order from the values popped first to the one about to be pushed.    *)
(* From them follow what becomes of each value and when nobody can go on.  *)
(***************************************************************************)
EXTENDS ThreadedQueue, FiniteSetTheorems, SequenceTheorems, TLAPS

-----------------------------------------------------------------------------
(* The mutex and the counter                                               *)

\* Where a thread holds queueMutex.
Inside == {"emplace", "grow", "notify", "test", "shrink", "front"}

\* Where queueLength is one behind the std::queue.
Between == {"grow", "front"}

\* Each thread runs its own operation, a producer only while it has values.
PcInv ==
    /\ \A p \in Producers : pc[p] \in PushPcs /\ (pc[p] # "idle" => count[p] < PushCount)
    /\ \A c \in Consumers : pc[c] \in PopPcs

MutexInv == \A t \in Threads : pc[t] \in Inside <=> queueMutex = t

LengthInv ==
    /\ (\A t \in Threads : pc[t] \notin Between) => Len(queue) = queueLength
    /\ \A t \in Threads : pc[t] \in Between => Len(queue) = queueLength + 1
    /\ \A t \in Threads : pc[t] = "shrink" => queueLength > 0

QueueInv == TypeOK /\ PcInv /\ MutexInv /\ LengthInv

(* A value put into a std::queue, or taken out of it.                      *)
LEMMA QueueSteps ==
  ASSUME NEW S, NEW q \in Seq(S), NEW e \in S
  PROVE  /\ Len(q) \in Nat
         /\ Append(q, e) \in Seq(S) /\ Len(Append(q, e)) = Len(q) + 1
         /\ \A i \in 1..Len(q) : Append(q, e)[i] = q[i] /\ q[i] \in S
         /\ Append(q, e)[Len(q) + 1] = e
         /\ Len(q) > 0 => /\ q # <<>> /\ Head(q) \in S /\ Head(q) = q[1]
                          /\ Tail(q) \in Seq(S) /\ Len(Tail(q)) = Len(q) - 1
                          /\ \A i \in 1..Len(Tail(q)) : Tail(q)[i] = q[i + 1]
<1>1. Len(q) \in Nat /\ \A i \in 1..Len(q) : q[i] \in S
  BY LenProperties, ElementOfSeq
<1>2. Len(q) > 0 => q # <<>>
  BY EmptySeq
<1>3. QED
  BY <1>1, <1>2, AppendProperties, HeadTailProperties

(* Two threads never hold queueMutex.                                      *)
LEMMA OneInside ==
  ASSUME QueueInv, NEW t \in Threads, pc[t] \in Inside
  PROVE  queueMutex = t /\ \A u \in Threads : u # t => pc[u] \notin Inside
BY DEF QueueInv, MutexInv

(* Nobody is a thread.                                                     *)
LEMMA NobodyIsNot == Nobody \notin Threads
BY QueueAssumption DEF Threads

(* A thread that is neither producer nor consumer does not exist, and none *)
(* is both.                                                                *)
LEMMA Kinds ==
  /\ \A t \in Threads : t \in Producers \/ t \in Consumers
  /\ \A p \in Producers : p \in Threads /\ p \notin Consumers
  /\ \A c \in Consumers : c \in Threads /\ c \notin Producers
BY QueueAssumption DEF Threads

LEMMA InitQueueInv == Init => QueueInv
<1> SUFFICES ASSUME Init PROVE QueueInv
  OBVIOUS
<1>1. /\ queue = <<>> /\ queueLength = 0 /\ queueMutex = Nobody
      /\ pc = [t \in Threads |-> "idle"] /\ count = [t \in Threads |-> 0]
      /\ popped = [c \in Consumers |-> <<>>]
  BY DEF Init
<1>2. Len(queue) = 0
  BY <1>1, EmptySeq
<1>3. TypeOK
  BY <1>1, EmptySeq DEF TypeOK, PushPcs
<1>4. \A t \in Threads : pc[t] = "idle"
  BY <1>1
<1>5. PcInv
  BY <1>4, Kinds DEF PcInv, PushPcs, PopPcs
<1>6. MutexInv
  BY <1>1, <1>4, NobodyIsNot DEF MutexInv, Inside
<1>7. LengthInv
  BY <1>1, <1>2, <1>4 DEF LengthInv, Between
<1>8. QED
  BY <1>3, <1>5, <1>6, <1>7 DEF QueueInv

(* A thread takes the mutex.                                               *)
LEMMA LockKeeps ==
  ASSUME QueueInv, NEW t \in Threads, NEW from, NEW to, Lock(t, from, to),
         to \in {"emplace", "test"}, from \notin Inside,
         t \in Producers => to = "emplace" /\ count[t] < PushCount,
         t \in Consumers => to = "test",
         UNCHANGED <<queue, queueLength, count, popped>>
  PROVE  QueueInv'
<1>1. pc \in [Threads -> PushPcs \cup PopPcs] /\ queueMutex = Nobody /\ queueMutex' = t
      /\ pc' = [pc EXCEPT ![t] = to] /\ pc[t] = from
  BY DEF QueueInv, TypeOK, Lock, Goto
<1>2. pc'[t] = to /\ \A u \in Threads : u # t => pc'[u] = pc[u]
  BY <1>1
<1>3. TypeOK'
  BY <1>1 DEF QueueInv, TypeOK, PushPcs, PopPcs
<1>4. PcInv'
  BY <1>2, Kinds DEF QueueInv, PcInv, PushPcs, PopPcs
<1>5. MutexInv'
  BY <1>1, <1>2, NobodyIsNot DEF QueueInv, MutexInv, Inside
<1>6. LengthInv'
  <2>1. to \notin Between /\ from \notin Between /\ to # "shrink"
    BY DEF Between, Inside
  <2>2. \A u \in Threads : pc'[u] \in Between <=> pc[u] \in Between
    BY <1>1, <1>2, <2>1
  <2>3. \A u \in Threads : pc'[u] = "shrink" => pc[u] = "shrink"
    BY <1>2, <2>1
  <2>4. QED
    BY <2>2, <2>3 DEF QueueInv, LengthInv
<1>7. QED
  BY <1>3, <1>4, <1>5, <1>6 DEF QueueInv
LEMMA PushValueKeeps ==
  ASSUME QueueInv, NEW p \in Producers, PushValue(p)
  PROVE  QueueInv'
<1>1. /\ pc[p] = "emplace" /\ queue' = Append(queue, <<p, count[p] + 1>>)
      /\ pc' = [pc EXCEPT ![p] = "grow"]
      /\ UNCHANGED <<queueLength, queueMutex, count, popped>>
  BY DEF PushValue, Goto
<1>2. /\ pc \in [Threads -> PushPcs \cup PopPcs] /\ queue \in Seq(Values) /\ queueLength \in Nat
      /\ p \in Threads /\ count[p] \in Nat /\ count[p] < PushCount
  BY <1>1, Kinds DEF QueueInv, TypeOK, PcInv
<1>3. pc'[p] = "grow" /\ \A u \in Threads : u # p => pc'[u] = pc[u]
  BY <1>1, <1>2
<1>4. <<p, count[p] + 1>> \in Values
  <2>1. count[p] + 1 \in 1..PushCount
    BY <1>2, QueueAssumption
  <2>2. QED
    BY <2>1 DEF Values
<1>5. queue' \in Seq(Values) /\ Len(queue') = Len(queue) + 1
  BY <1>1, <1>2, <1>4, QueueSteps
<1>6. TypeOK'
  BY <1>1, <1>2, <1>5 DEF QueueInv, TypeOK, PushPcs
<1>7. PcInv'
  BY <1>1, <1>2, <1>3, Kinds DEF QueueInv, PcInv, PushPcs, PopPcs
<1>8. MutexInv'
  BY <1>1, <1>3 DEF QueueInv, MutexInv, Inside
<1>9. LengthInv'
  <2>1. \A u \in Threads : u # p => pc'[u] \notin Inside
    BY <1>1, <1>2, <1>3, OneInside DEF Inside
  <2>2. \A u \in Threads : pc[u] \notin Between
    BY <1>1, <1>2, OneInside DEF Inside, Between
  <2>3. Len(queue) = queueLength
    BY <2>2 DEF QueueInv, LengthInv
  <2>4. QED
    BY <1>1, <1>2, <1>3, <1>5, <2>1, <2>3 DEF LengthInv, Between, Inside
<1>10. QED
  BY <1>6, <1>7, <1>8, <1>9 DEF QueueInv

LEMMA PushCountsKeeps ==
  ASSUME QueueInv, NEW p \in Producers, PushCounts(p)
  PROVE  QueueInv'
<1>1. /\ pc[p] = "grow" /\ queueLength' = queueLength + 1
      /\ pc' = [pc EXCEPT ![p] = "notify"]
      /\ UNCHANGED <<queue, queueMutex, count, popped>>
  BY DEF PushCounts, Goto
<1>2. /\ pc \in [Threads -> PushPcs \cup PopPcs] /\ queueLength \in Nat /\ p \in Threads
  BY Kinds DEF QueueInv, TypeOK
<1>3. pc'[p] = "notify" /\ \A u \in Threads : u # p => pc'[u] = pc[u]
  BY <1>1, <1>2
<1>4. TypeOK'
  BY <1>1, <1>2 DEF QueueInv, TypeOK, PushPcs
<1>5. PcInv'
  BY <1>1, <1>2, <1>3, Kinds DEF QueueInv, PcInv, PushPcs, PopPcs
<1>6. MutexInv'
  BY <1>1, <1>3 DEF QueueInv, MutexInv, Inside
<1>7. LengthInv'
  <2>1. \A u \in Threads : u # p => pc'[u] \notin Inside
    BY <1>1, <1>2, <1>3, OneInside DEF Inside
  <2>2. Len(queue) = queueLength + 1
    BY <1>1, <1>2 DEF QueueInv, LengthInv, Between
  <2>3. QED
    BY <1>1, <1>2, <1>3, <2>1, <2>2 DEF LengthInv, Between, Inside
<1>8. QED
  BY <1>4, <1>5, <1>6, <1>7 DEF QueueInv

(* notify_one() wakes a sleeping consumer, if there is one.                *)
LEMMA NotifyDoes ==
  ASSUME QueueInv, NEW p \in Producers, Notify(p)
  PROVE  /\ pc[p] = "notify" /\ pc'[p] = "idle" /\ pc' \in [Threads -> PushPcs \cup PopPcs]
         /\ \/ Asleep = {} /\ \A u \in Threads : u # p => pc'[u] = pc[u]
            \/ \E c \in Asleep : /\ pc'[c] = "woken"
                                 /\ \A u \in Threads : u # p /\ u # c => pc'[u] = pc[u]
<1>1. pc \in [Threads -> PushPcs \cup PopPcs] /\ p \in Threads /\ p \notin Consumers
  BY Kinds DEF QueueInv, TypeOK
<1>2. CASE Asleep = {}
  <2>1. pc[p] = "notify" /\ pc' = [pc EXCEPT ![p] = "idle"]
    BY <1>2 DEF Notify, Goto
  <2>2. QED
    BY <1>1, <1>2, <2>1 DEF PushPcs
<1>3. CASE Asleep # {}
  <2>1. PICK c \in Asleep : pc' = [pc EXCEPT ![p] = "idle", ![c] = "woken"]
    BY <1>3 DEF Notify
  <2>2. c \in Threads /\ c # p /\ pc[p] = "notify"
    BY <1>1, Kinds DEF Asleep, Notify
  <2>3. /\ pc'[p] = "idle" /\ pc'[c] = "woken"
        /\ \A u \in Threads : u # p /\ u # c => pc'[u] = pc[u]
    BY <1>1, <2>1, <2>2
  <2>4. pc' \in [Threads -> PushPcs \cup PopPcs]
    BY <1>1, <2>1, <2>2 DEF PushPcs, PopPcs
  <2>5. QED
    BY <2>2, <2>3, <2>4
<1>4. QED
  BY <1>2, <1>3

LEMMA NotifyKeeps ==
  ASSUME QueueInv, NEW p \in Producers, Notify(p)
  PROVE  QueueInv'
<1>1. /\ pc[p] = "notify" /\ queueMutex' = Nobody /\ count' = [count EXCEPT ![p] = @ + 1]
      /\ UNCHANGED <<queue, queueLength, popped>>
  BY DEF Notify
<1>2. /\ count \in [Threads -> Nat] /\ p \in Threads /\ p \notin Consumers /\ queueMutex = p
      /\ \A c \in Asleep : c \in Threads /\ c \in Consumers /\ pc[c] = "asleep"
  BY <1>1, Kinds, OneInside DEF QueueInv, TypeOK, Inside, Asleep
<1>3. /\ pc'[p] = "idle" /\ pc' \in [Threads -> PushPcs \cup PopPcs]
      /\ \A u \in Threads : \/ u = p
                            \/ pc'[u] = pc[u]
                            \/ pc[u] = "asleep" /\ pc'[u] = "woken" /\ u \in Consumers
  BY <1>2, NotifyDoes
<1>4. TypeOK'
  BY <1>1, <1>2, <1>3 DEF QueueInv, TypeOK
<1>5. PcInv'
  <2>1. \A u \in Threads : u # p => count'[u] = count[u]
    BY <1>1, <1>2
  <2>2. QED
    BY <1>3, <2>1, Kinds DEF QueueInv, PcInv, PushPcs, PopPcs
<1>6. MutexInv'
  BY <1>1, <1>2, <1>3, NobodyIsNot DEF QueueInv, MutexInv, Inside
<1>7. LengthInv'
  <2>1. \A u \in Threads : pc'[u] \in Between <=> pc[u] \in Between
    BY <1>1, <1>3 DEF Between
  <2>2. \A u \in Threads : pc'[u] = "shrink" => pc[u] = "shrink"
    BY <1>3
  <2>3. QED
    BY <1>1, <2>1, <2>2 DEF QueueInv, LengthInv
<1>8. QED
  BY <1>4, <1>5, <1>6, <1>7 DEF QueueInv

(* A thread outside the mutex moves on without it.                         *)
LEMMA OutsideKeeps ==
  ASSUME QueueInv, NEW c \in Consumers, pc[c] \notin Inside, NEW to \in {"pop", "woken"},
         pc' = [pc EXCEPT ![c] = to],
         UNCHANGED <<queue, queueLength, queueMutex, count, popped>>
  PROVE  QueueInv'
<1>1. pc \in [Threads -> PushPcs \cup PopPcs] /\ c \in Threads /\ to \in PopPcs
  BY Kinds DEF QueueInv, TypeOK, PopPcs
<1>2. pc'[c] = to /\ \A u \in Threads : u # c => pc'[u] = pc[u]
  BY <1>1
<1>3. TypeOK'
  BY <1>1 DEF QueueInv, TypeOK
<1>4. PcInv'
  BY <1>1, <1>2, Kinds DEF QueueInv, PcInv
<1>5. MutexInv'
  BY <1>2 DEF QueueInv, MutexInv, Inside
<1>6. LengthInv'
  <2>1. \A u \in Threads : pc'[u] \in Between <=> pc[u] \in Between
    BY <1>2 DEF Between, Inside
  <2>2. \A u \in Threads : pc'[u] = "shrink" => pc[u] = "shrink"
    BY <1>2
  <2>3. QED
    BY <2>1, <2>2 DEF QueueInv, LengthInv
<1>7. QED
  BY <1>3, <1>4, <1>5, <1>6 DEF QueueInv

LEMMA TestKeeps ==
  ASSUME QueueInv, NEW c \in Consumers, Test(c)
  PROVE  QueueInv'
<1>1. /\ pc[c] = "test" /\ UNCHANGED <<queue, queueLength, count, popped>>
      /\ \/ queueLength = 0 /\ pc' = [pc EXCEPT ![c] = "asleep"] /\ queueMutex' = Nobody
         \/ queueLength # 0 /\ pc' = [pc EXCEPT ![c] = "shrink"] /\ queueMutex' = queueMutex
  BY DEF Test, Goto
<1>2. /\ pc \in [Threads -> PushPcs \cup PopPcs] /\ c \in Threads /\ c \notin Producers
      /\ queueLength \in Nat /\ queueMutex = c
  BY <1>1, Kinds, OneInside DEF QueueInv, TypeOK, Inside
<1>3. /\ pc'[c] = IF queueLength = 0 THEN "asleep" ELSE "shrink"
      /\ \A u \in Threads : u # c => pc'[u] = pc[u]
  BY <1>1, <1>2
<1>4. TypeOK'
  BY <1>1, <1>2 DEF QueueInv, TypeOK, PopPcs
<1>5. PcInv'
  BY <1>1, <1>2, <1>3, Kinds DEF QueueInv, PcInv, PopPcs
<1>6. MutexInv'
  BY <1>1, <1>2, <1>3, NobodyIsNot DEF QueueInv, MutexInv, Inside
<1>7. LengthInv'
  <2>1. \A u \in Threads : pc'[u] \in Between <=> pc[u] \in Between
    BY <1>1, <1>3 DEF Between
  <2>2. \A u \in Threads : pc'[u] = "shrink" => pc[u] = "shrink" \/ queueLength > 0
    BY <1>2, <1>3
  <2>3. QED
    BY <1>1, <2>1, <2>2 DEF QueueInv, LengthInv
<1>8. QED
  BY <1>4, <1>5, <1>6, <1>7 DEF QueueInv

LEMMA ShrinkKeeps ==
  ASSUME QueueInv, NEW c \in Consumers, Shrink(c)
  PROVE  QueueInv'
<1>1. /\ pc[c] = "shrink" /\ queueLength' = queueLength - 1
      /\ pc' = [pc EXCEPT ![c] = "front"]
      /\ UNCHANGED <<queue, queueMutex, count, popped>>
  BY DEF Shrink, Goto
<1>2. /\ pc \in [Threads -> PushPcs \cup PopPcs] /\ c \in Threads
      /\ queueLength \in Nat /\ queueLength > 0
  BY <1>1, Kinds DEF QueueInv, TypeOK, LengthInv
<1>3. pc'[c] = "front" /\ \A u \in Threads : u # c => pc'[u] = pc[u]
  BY <1>1, <1>2
<1>4. TypeOK'
  BY <1>1, <1>2 DEF QueueInv, TypeOK, PopPcs
<1>5. PcInv'
  BY <1>1, <1>3, Kinds DEF QueueInv, PcInv, PopPcs
<1>6. MutexInv'
  BY <1>1, <1>3 DEF QueueInv, MutexInv, Inside
<1>7. LengthInv'
  <2>1. \A u \in Threads : u # c => pc[u] \notin Inside /\ pc'[u] \notin Inside
    BY <1>1, <1>2, <1>3, OneInside DEF Inside
  <2>2. Len(queue) = queueLength
    BY <1>1, <2>1 DEF QueueInv, LengthInv, Between, Inside
  <2>3. QED
    BY <1>1, <1>2, <1>3, <2>1, <2>2 DEF LengthInv, Between, Inside
<1>8. QED
  BY <1>4, <1>5, <1>6, <1>7 DEF QueueInv

(* front() finds a value.                                                  *)
LEMMA FrontFinds ==
  ASSUME QueueInv, NEW c \in Consumers, pc[c] = "front"
  PROVE  /\ queue \in Seq(Values) /\ popped[c] \in Seq(Values)
         /\ Len(queue) = queueLength + 1 /\ Len(queue) > 0
         /\ queue # <<>> /\ Head(queue) \in Values /\ Head(queue) = queue[1]
         /\ Tail(queue) \in Seq(Values) /\ Len(Tail(queue)) = Len(queue) - 1
         /\ \A i \in 1..Len(Tail(queue)) : Tail(queue)[i] = queue[i + 1]
<1>1. queue \in Seq(Values) /\ popped[c] \in Seq(Values) /\ queueLength \in Nat /\ c \in Threads
  BY Kinds DEF QueueInv, TypeOK
<1>2. Len(queue) = queueLength + 1
  BY <1>1 DEF QueueInv, LengthInv, Between
<1>3. Len(queue) > 0
  BY <1>1, <1>2
<1>4. queue # <<>>
  BY <1>3, EmptySeq
<1>5. Head(queue) \in Values /\ Head(queue) = queue[1]
  BY <1>1, <1>4, HeadTailProperties
<1>6. QED
  BY <1>1, <1>2, <1>3, <1>4, <1>5, HeadTailProperties

LEMMA FrontKeeps ==
  ASSUME QueueInv, NEW c \in Consumers, Front(c)
  PROVE  QueueInv'
<1>1. /\ pc[c] = "front" /\ queueLength' = queueLength /\ queue' = Tail(queue)
      /\ pc' = [pc EXCEPT ![c] = "idle"] /\ queueMutex' = Nobody
      /\ popped' = [popped EXCEPT ![c] = Append(@, Head(queue))]
      /\ count' = [count EXCEPT ![c] = @ + 1]
  BY DEF Front, Goto
<1>2. /\ pc \in [Threads -> PushPcs \cup PopPcs] /\ c \in Threads /\ c \notin Producers
      /\ count \in [Threads -> Nat] /\ popped \in [Consumers -> Seq(Values)]
      /\ queueMutex = c /\ queueLength \in Nat
  BY <1>1, Kinds, OneInside DEF QueueInv, TypeOK, Inside
<1>3. pc'[c] = "idle" /\ \A u \in Threads : u # c => pc'[u] = pc[u] /\ count'[u] = count[u]
  BY <1>1, <1>2
<1>4. /\ queue' \in Seq(Values) /\ Len(queue') = queueLength
      /\ Append(popped[c], Head(queue)) \in Seq(Values)
  <2>1. /\ Head(queue) \in Values /\ Tail(queue) \in Seq(Values) /\ popped[c] \in Seq(Values)
        /\ Len(Tail(queue)) = Len(queue) - 1 /\ Len(queue) = queueLength + 1
    BY <1>1, FrontFinds
  <2>2. QED
    BY <1>1, <1>2, <2>1, AppendProperties
<1>5. TypeOK'
  BY <1>1, <1>2, <1>4 DEF QueueInv, TypeOK, PopPcs
<1>6. PcInv'
  BY <1>2, <1>3, Kinds DEF QueueInv, PcInv, PopPcs
<1>7. MutexInv'
  BY <1>1, <1>2, <1>3, NobodyIsNot DEF QueueInv, MutexInv, Inside
<1>8. LengthInv'
  <2>1. \A u \in Threads : u # c => pc'[u] \notin Inside
    BY <1>1, <1>2, <1>3, OneInside DEF Inside
  <2>2. QED
    BY <1>1, <1>3, <1>4, <2>1 DEF LengthInv, Between, Inside
<1>9. QED
  BY <1>5, <1>6, <1>7, <1>8 DEF QueueInv

(* QueueInv is inductive.                                                  *)
LEMMA QueueInvKept == QueueInv /\ [Next]_vars => QueueInv'
<1> SUFFICES ASSUME QueueInv, [Next]_vars PROVE QueueInv'
  OBVIOUS
<1>1. ASSUME NEW p \in Producers, Push(p) PROVE QueueInv'
  <2>1. CASE PushLock(p)
    BY <2>1, LockKeeps, Kinds DEF PushLock, Inside
  <2>2. QED
    BY <1>1, <2>1, PushValueKeeps, PushCountsKeeps, NotifyKeeps DEF Push
<1>2. ASSUME NEW c \in Consumers, PopStep(c) \/ AskThenPop(c) \/ SpuriousWake(c)
      PROVE  QueueInv'
  <2>1. CASE PopLock(c) \/ PopAskedLock(c) \/ Relock(c)
    BY <2>1, LockKeeps, Kinds DEF PopLock, PopAskedLock, Relock, Inside
  <2>2. CASE AskThenPop(c) \/ SpuriousWake(c)
    BY <2>2, OutsideKeeps DEF AskThenPop, SpuriousWake, Goto, Inside
  <2>3. QED
    BY <1>2, <2>1, <2>2, TestKeeps, ShrinkKeeps, FrontKeeps DEF PopStep
<1>3. CASE UNCHANGED vars
  BY <1>3 DEF vars, QueueInv, TypeOK, PcInv, MutexInv, LengthInv
<1>4. QED
  BY <1>1, <1>2, <1>3 DEF Next

LEMMA QueueInvariance == Spec => []QueueInv
BY InitQueueInv, QueueInvKept, PTL DEF Spec

(* Every variable of the queue keeps its type; in particular queueLength   *)
(* never goes below zero (Shrink).                                         *)
THEOREM QueueTypes == Spec => []TypeOK
<1>1. QueueInv => TypeOK
  BY DEF QueueInv
<1>2. QED
  BY <1>1, QueueInvariance, PTL

(* pop() never calls front() of an empty std::queue.                       *)
THEOREM FrontIsThere == Spec => []FrontHasValue
<1>1. QueueInv => FrontHasValue
  BY FrontFinds DEF FrontHasValue
<1>2. QED
  BY <1>1, QueueInvariance, PTL

(* empty() and size() never promise a value that is not there, and tell    *)
(* the truth while queueMutex is free.                                     *)
THEOREM LengthTells == Spec => []LengthHonest
<1>1. ASSUME QueueInv PROVE LengthHonest
  <2>1. queueLength \in Nat /\ Len(queue) \in Nat
    BY <1>1, LenProperties DEF QueueInv, TypeOK
  <2>2. Len(queue) = queueLength \/ Len(queue) = queueLength + 1
    BY <1>1 DEF QueueInv, LengthInv
  <2>3. ASSUME queueMutex = Nobody PROVE Len(queue) = queueLength
    <3>1. \A t \in Threads : pc[t] \notin Between
      BY <1>1, <2>3, NobodyIsNot DEF QueueInv, MutexInv, Inside, Between
    <3>2. QED
      BY <1>1, <3>1 DEF QueueInv, LengthInv
  <2>4. QED
    BY <2>1, <2>2, <2>3 DEF LengthHonest
<1>2. QueueInv => LengthHonest
  BY <1>1
<1>3. QED
  BY <1>2, QueueInvariance, PTL

-----------------------------------------------------------------------------
(* Waiting                                                                 *)

(* What a step can do to queueLength and to where consumers are.           *)
LEMMA ConsumersMove ==
  ASSUME QueueInv, Next
  PROVE  \/ UNCHANGED vars
         \/ \E p \in Producers :
               /\ Push(p)
               /\ queueLength' = queueLength \/ queueLength' = queueLength + 1
               /\ \A c \in Consumers : /\ count'[c] = count[c]
                                       /\ \/ pc'[c] = pc[c]
                                          \/ pc[c] = "asleep" /\ pc'[c] = "woken"
         \/ \E c \in Consumers :
               /\ PopStep(c) \/ AskThenPop(c) \/ SpuriousWake(c)
               /\ \A u \in Threads : u # c => pc'[u] = pc[u] /\ count'[u] = count[u]
<1>1. pc \in [Threads -> PushPcs \cup PopPcs] /\ count \in [Threads -> Nat]
  BY DEF QueueInv, TypeOK
<1>2. ASSUME NEW p \in Producers, Push(p)
      PROVE  /\ queueLength' = queueLength \/ queueLength' = queueLength + 1
             /\ \A c \in Consumers : /\ count'[c] = count[c]
                                     /\ \/ pc'[c] = pc[c]
                                        \/ pc[c] = "asleep" /\ pc'[c] = "woken"
  <2>1. CASE Notify(p)
    <3>1. queueLength' = queueLength /\ count' = [count EXCEPT ![p] = @ + 1]
      BY <2>1 DEF Notify
    <3>2. \A c \in Consumers : pc'[c] = pc[c] \/ (pc[c] = "asleep" /\ pc'[c] = "woken")
      BY <2>1, NotifyDoes, Kinds DEF Asleep
    <3>3. QED
      BY <1>1, <3>1, <3>2, Kinds
  <2>2. CASE PushLock(p) \/ PushValue(p) \/ PushCounts(p)
    <3>1. /\ count' = count /\ (queueLength' = queueLength \/ queueLength' = queueLength + 1)
          /\ \E to : pc' = [pc EXCEPT ![p] = to]
      BY <2>2 DEF PushLock, PushValue, PushCounts, Lock, Goto
    <3>2. QED
      BY <1>1, <3>1, Kinds
  <2>3. QED
    BY <1>2, <2>1, <2>2 DEF Push
<1>3. ASSUME NEW c \in Consumers, PopStep(c) \/ AskThenPop(c) \/ SpuriousWake(c)
      PROVE  \A u \in Threads : u # c => pc'[u] = pc[u] /\ count'[u] = count[u]
  <2>1. /\ \E to : pc' = [pc EXCEPT ![c] = to]
        /\ count' = count \/ count' = [count EXCEPT ![c] = @ + 1]
    BY <1>3 DEF PopStep, PopLock, PopAskedLock, Test, Relock, Shrink, Front, AskThenPop,
                SpuriousWake, Lock, Goto
  <2>2. QED
    BY <1>1, <2>1, Kinds
<1>4. QED
  BY <1>2, <1>3 DEF Next

(* A consumer that asked empty() first does not wait as long as no other   *)
(* has ever called pop(): only pop() takes values away.                    *)
THEOREM AskedDoesNotWait == Spec => []SoleConsumerNeverWaits
<1> DEFINE Alone(c) == \A d \in Consumers \ {c} : pc[d] = "idle" /\ count[d] = 0
<1>1. Init => SoleConsumerNeverWaits
  BY Kinds DEF Init, SoleConsumerNeverWaits
<1>2. ASSUME QueueInv, SoleConsumerNeverWaits, [Next]_vars PROVE SoleConsumerNeverWaits'
  <2>1. SUFFICES ASSUME NEW c \in Consumers, pc'[c] = "pop", Alone(c)'
                 PROVE  queueLength' > 0
    BY DEF SoleConsumerNeverWaits
  <2>2. /\ queueLength \in Nat /\ count \in [Threads -> Nat] /\ c \in Threads
        /\ pc \in [Threads -> PushPcs \cup PopPcs]
    BY <1>2, Kinds DEF QueueInv, TypeOK
  <2>3. pc[c] = "pop" /\ Alone(c) => queueLength > 0
    BY <1>2 DEF SoleConsumerNeverWaits
  <2>4. CASE UNCHANGED vars
    BY <2>1, <2>3, <2>4 DEF vars
  <2>5. ASSUME NEW p \in Producers,
               queueLength' = queueLength \/ queueLength' = queueLength + 1,
               \A d \in Consumers : /\ count'[d] = count[d]
                                    /\ \/ pc'[d] = pc[d]
                                       \/ pc[d] = "asleep" /\ pc'[d] = "woken"
        PROVE  queueLength' > 0
    <3>1. pc[c] = "pop" /\ Alone(c)
      BY <2>1, <2>5
    <3>2. QED
      BY <2>2, <2>3, <2>5, <3>1
  <2>6. ASSUME NEW d \in Consumers, PopStep(d) \/ AskThenPop(d) \/ SpuriousWake(d),
               \A u \in Threads : u # d => pc'[u] = pc[u] /\ count'[u] = count[u]
        PROVE  queueLength' > 0
    <3>1. CASE d = c
      <4>1. AskThenPop(c)
        <5>1. PopStep(c) \/ SpuriousWake(c) => \E to \in PopPcs \ {"pop"} : pc' = [pc EXCEPT ![c] = to]
          BY DEF PopStep, PopLock, PopAskedLock, Test, Relock, Shrink, Front,
                 SpuriousWake, Lock, Goto, PopPcs
        <5>2. QED
          BY <2>1, <2>2, <2>6, <3>1, <5>1
      <4>2. QED
        BY <2>2, <4>1 DEF AskThenPop, empty
    <3>2. CASE d # c
      <4>1. pc'[d] = "idle" /\ count'[d] = 0 /\ d \in Threads
        BY <2>1, <3>2, Kinds
      <4>2. PopStep(d) /\ Front(d)
        <5>1. AskThenPop(d) \/ PopLock(d) \/ PopAskedLock(d) \/ Test(d) \/ Relock(d)
                \/ Shrink(d) \/ SpuriousWake(d)
              => \E to \in PopPcs \ {"idle"} : pc' = [pc EXCEPT ![d] = to]
          BY DEF AskThenPop, PopLock, PopAskedLock, Test, Relock, Shrink,
                 SpuriousWake, Lock, Goto, PopPcs
        <5>2. QED
          BY <2>2, <2>6, <4>1, <5>1 DEF PopStep
      <4>3. count'[d] = count[d] + 1
        BY <2>2, <4>1, <4>2 DEF Front
      <4>4. QED
        BY <2>2, <4>1, <4>3
    <3>3. QED
      BY <3>1, <3>2
  <2>7. QED
    BY <1>2, <2>4, <2>5, <2>6, ConsumersMove
<1>3. QueueInv /\ SoleConsumerNeverWaits /\ [Next]_vars => SoleConsumerNeverWaits'
  BY <1>2
<1>4. QED
  BY <1>1, <1>3, QueueInvariance, PTL DEF Spec

\* Consumers on their way to a value, and producers about to notify.
Coming    == {c \in Consumers : pc[c] \in {"woken", "test", "shrink"}}
Notifying == {p \in Producers : pc[p] = "notify"}

(* How many of a finite set there are, with one more or one less.          *)
LEMMA OneMoreOrLess ==
  ASSUME NEW S, IsFiniteSet(S), NEW x
  PROVE  /\ Cardinality(S) \in Nat
         /\ x \notin S => Cardinality(S \cup {x}) = Cardinality(S) + 1
         /\ x \in S => Cardinality(S \ {x}) = Cardinality(S) - 1
BY FS_CardinalityType, FS_AddElement, FS_RemoveElement

(* No wakeup is lost: a value is counted together with a promise to notify *)
(* (push()), the promise is kept by waking a consumer, and a consumer goes *)
(* to sleep only if it finds no value.                                     *)
THEOREM WakeupsKept == Spec => []NoLostWakeup
<1>1. Init => NoLostWakeup
  BY Kinds DEF Init, NoLostWakeup, Asleep
<1>2. ASSUME QueueInv, NoLostWakeup, [Next]_vars PROVE NoLostWakeup'
  <2>1. SUFFICES ASSUME Asleep' # {}
                 PROVE  queueLength' <= Cardinality(Coming') + Cardinality(Notifying')
    BY DEF NoLostWakeup, Coming, Notifying
  <2>2. Asleep # {} => queueLength <= Cardinality(Coming) + Cardinality(Notifying)
    BY <1>2 DEF NoLostWakeup, Coming, Notifying
  <2>3. /\ queueLength \in Nat /\ pc \in [Threads -> PushPcs \cup PopPcs]
    BY <1>2 DEF QueueInv, TypeOK
  <2>4. IsFiniteSet(Coming) /\ IsFiniteSet(Notifying) /\ IsFiniteSet(Coming') /\ IsFiniteSet(Notifying')
    <3>1. /\ Coming \in SUBSET Consumers /\ Coming' \in SUBSET Consumers
          /\ Notifying \in SUBSET Producers /\ Notifying' \in SUBSET Producers
      BY DEF Coming, Notifying
    <3>2. QED
      BY <3>1, QueueAssumption, FS_Subset
  <2>5. /\ Cardinality(Coming) \in Nat /\ Cardinality(Notifying) \in Nat
        /\ Cardinality(Coming') \in Nat /\ Cardinality(Notifying') \in Nat
    BY <2>4, OneMoreOrLess
  <2>6. CASE UNCHANGED vars
    BY <2>1, <2>2, <2>6 DEF vars, Asleep, Coming, Notifying
  <2>7. ASSUME NEW p \in Producers, PushLock(p) \/ PushValue(p)
        PROVE  queueLength' <= Cardinality(Coming') + Cardinality(Notifying')
    <3>1. /\ pc[p] \in {"idle", "emplace"} /\ queueLength' = queueLength
          /\ \E to \in {"emplace", "grow"} : pc' = [pc EXCEPT ![p] = to]
      BY <2>7 DEF PushLock, PushValue, Lock, Goto
    <3>2. Coming' = Coming /\ Notifying' = Notifying /\ Asleep' = Asleep
      BY <2>3, <3>1, Kinds DEF Coming, Notifying, Asleep
    <3>3. QED
      BY <2>1, <2>2, <3>1, <3>2
  <2>8. ASSUME NEW p \in Producers, PushCounts(p)
        PROVE  queueLength' <= Cardinality(Coming') + Cardinality(Notifying')
    <3>1. pc[p] = "grow" /\ queueLength' = queueLength + 1 /\ pc' = [pc EXCEPT ![p] = "notify"]
      BY <2>8 DEF PushCounts, Goto
    <3>2. /\ Coming' = Coming /\ Asleep' = Asleep
          /\ Notifying' = Notifying \cup {p} /\ p \notin Notifying
      BY <2>3, <3>1, Kinds DEF Coming, Notifying, Asleep
    <3>3. Cardinality(Notifying') = Cardinality(Notifying) + 1
      BY <2>4, <3>2, OneMoreOrLess
    <3>4. QED
      BY <2>1, <2>2, <2>3, <2>5, <3>1, <3>2, <3>3
  <2>9. ASSUME NEW p \in Producers, Notify(p)
        PROVE  queueLength' <= Cardinality(Coming') + Cardinality(Notifying')
    <3>1. pc[p] = "notify" /\ pc'[p] = "idle" /\ queueLength' = queueLength
      BY <1>2, <2>9, NotifyDoes DEF Notify
    <3>2. ~(Asleep = {} /\ \A u \in Threads : u # p => pc'[u] = pc[u])
      BY <2>1, Kinds DEF Asleep
    <3>3. PICK c \in Asleep : /\ pc'[c] = "woken"
                              /\ \A u \in Threads : u # p /\ u # c => pc'[u] = pc[u]
      BY <1>2, <2>9, <3>2, NotifyDoes
    <3>4. /\ Coming' = Coming \cup {c} /\ c \notin Coming
          /\ Notifying' = Notifying \ {p} /\ p \in Notifying
      BY <3>1, <3>3, Kinds DEF Coming, Notifying, Asleep
    <3>5. /\ Cardinality(Coming') = Cardinality(Coming) + 1
          /\ Cardinality(Notifying') = Cardinality(Notifying) - 1
      BY <2>4, <3>4, OneMoreOrLess
    <3>6. QED
      BY <2>2, <2>3, <2>5, <3>1, <3>3, <3>5
  <2>10. ASSUME NEW c \in Consumers, PopLock(c) \/ PopAskedLock(c) \/ SpuriousWake(c)
         PROVE  queueLength' <= Cardinality(Coming') + Cardinality(Notifying')
    <3>1. /\ pc[c] \in {"idle", "pop", "asleep"} /\ queueLength' = queueLength
          /\ \E to \in {"test", "woken"} : pc' = [pc EXCEPT ![c] = to]
      BY <2>10 DEF PopLock, PopAskedLock, SpuriousWake, Lock, Goto
    <3>2. /\ Coming' = Coming \cup {c} /\ c \notin Coming /\ Notifying' = Notifying
          /\ Asleep' \subseteq Asleep
      BY <2>3, <3>1, Kinds DEF Coming, Notifying, Asleep
    <3>3. Cardinality(Coming') = Cardinality(Coming) + 1
      BY <2>4, <3>2, OneMoreOrLess
    <3>4. QED
      BY <2>1, <2>2, <2>3, <2>5, <3>1, <3>2, <3>3
  <2>11. ASSUME NEW c \in Consumers, AskThenPop(c) \/ Relock(c) \/ Front(c)
         PROVE  queueLength' <= Cardinality(Coming') + Cardinality(Notifying')
    <3>1. /\ queueLength' = queueLength
          /\ \/ pc[c] = "idle" /\ pc' = [pc EXCEPT ![c] = "pop"]
             \/ pc[c] = "woken" /\ pc' = [pc EXCEPT ![c] = "test"]
             \/ pc[c] = "front" /\ pc' = [pc EXCEPT ![c] = "idle"]
      BY <2>11 DEF AskThenPop, Relock, Front, Lock, Goto
    <3>2. Coming' = Coming /\ Notifying' = Notifying /\ Asleep' = Asleep
      BY <2>3, <3>1, Kinds DEF Coming, Notifying, Asleep
    <3>3. QED
      BY <2>1, <2>2, <3>1, <3>2
  <2>12. ASSUME NEW c \in Consumers, Test(c)
         PROVE  queueLength' <= Cardinality(Coming') + Cardinality(Notifying')
    <3>1. CASE queueLength = 0
      BY <2>5, <2>12, <3>1 DEF Test
    <3>2. CASE queueLength # 0
      <4>1. pc[c] = "test" /\ pc' = [pc EXCEPT ![c] = "shrink"] /\ queueLength' = queueLength
        BY <2>12, <3>2 DEF Test, Goto
      <4>2. Coming' = Coming /\ Notifying' = Notifying /\ Asleep' = Asleep
        BY <2>3, <4>1, Kinds DEF Coming, Notifying, Asleep
      <4>3. QED
        BY <2>1, <2>2, <4>1, <4>2
    <3>3. QED
      BY <3>1, <3>2
  <2>13. ASSUME NEW c \in Consumers, Shrink(c)
         PROVE  queueLength' <= Cardinality(Coming') + Cardinality(Notifying')
    <3>1. /\ pc[c] = "shrink" /\ queueLength' = queueLength - 1
          /\ pc' = [pc EXCEPT ![c] = "front"]
      BY <2>13 DEF Shrink, Goto
    <3>2. /\ Coming' = Coming \ {c} /\ c \in Coming
          /\ Notifying' = Notifying /\ Asleep' = Asleep
      BY <2>3, <3>1, Kinds DEF Coming, Notifying, Asleep
    <3>3. Cardinality(Coming') = Cardinality(Coming) - 1
      BY <2>4, <3>2, OneMoreOrLess
    <3>4. QED
      BY <2>1, <2>2, <2>3, <2>5, <3>1, <3>2, <3>3
  <2>14. QED
    BY <1>2, <2>6, <2>7, <2>8, <2>9, <2>10, <2>11, <2>12, <2>13 DEF Next, Push, PopStep
<1>3. QueueInv /\ NoLostWakeup /\ [Next]_vars => NoLostWakeup'
  BY <1>2
<1>4. QED
  BY <1>1, <1>3, QueueInvariance, PTL DEF Spec

-----------------------------------------------------------------------------
(* The order of values                                                     *)

InOrder(v, w) == v[1] = w[1] => v[2] < w[2]

\* How many values p has put into the std::queue.
Pushed ==
    [p \in Producers |-> IF pc[p] \in {"grow", "notify"} THEN count[p] + 1 ELSE count[p]]

QueueOrder == \A i, j \in 1..Len(queue) : i < j => InOrder(queue[i], queue[j])

PoppedFirst ==
    \A c \in Consumers : \A i \in 1..Len(popped[c]), j \in 1..Len(queue) :
        InOrder(popped[c][i], queue[j])

PushedBefore(s) == \A i \in 1..Len(s) : s[i][2] <= Pushed[s[i][1]]

OrderInv ==
    /\ QueueOrder
    /\ PoppedFirst
    /\ ProducerOrder
    /\ PushedBefore(queue)
    /\ \A c \in Consumers : PushedBefore(popped[c])

(* What the values of a queue are.                                         *)
LEMMA ValuesIn ==
  ASSUME NEW s \in Seq(Values)
  PROVE  /\ Len(s) \in Nat
         /\ \A i \in 1..Len(s) : s[i] \in Values /\ s[i][1] \in Producers /\ s[i][2] \in Nat
<1>1. Len(s) \in Nat
  BY LenProperties
<1>2. ASSUME NEW i \in 1..Len(s)
      PROVE  s[i] \in Values /\ s[i][1] \in Producers /\ s[i][2] \in Nat
  <2>1. s[i] \in Values
    BY ElementOfSeq
  <2>2. QED
    BY <2>1, QueueAssumption DEF Values
<1>3. QED
  BY <1>1, <1>2

(* A step that neither pushes nor pops a value leaves the order alone.     *)
LEMMA OrderStays ==
  ASSUME QueueInv, OrderInv, queue' = queue, popped' = popped,
         \A p \in Producers : Pushed'[p] = Pushed[p]
  PROVE  OrderInv'
<1>1. ASSUME NEW s \in Seq(Values), PushedBefore(s) PROVE PushedBefore(s)'
  BY <1>1, ValuesIn DEF PushedBefore
<1>2. queue \in Seq(Values) /\ \A c \in Consumers : popped[c] \in Seq(Values)
  BY DEF QueueInv, TypeOK
<1>3. QueueOrder' /\ PoppedFirst' /\ ProducerOrder'
  BY DEF OrderInv, QueueOrder, PoppedFirst, ProducerOrder
<1>4. PushedBefore(queue)'
  BY <1>1, <1>2 DEF OrderInv, PushedBefore
<1>5. \A c \in Consumers : PushedBefore(popped[c])'
  BY <1>1, <1>2 DEF OrderInv, PushedBefore
<1>6. QED
  BY <1>3, <1>4, <1>5 DEF OrderInv

(* What emplace() of the std::queue changes.                               *)
LEMMA PushMoves ==
  ASSUME QueueInv, NEW p \in Producers, PushValue(p), NEW v, v = <<p, count[p] + 1>>
  PROVE  /\ v \in Values /\ v[1] = p /\ v[2] = count[p] + 1 /\ count[p] \in Nat
         /\ queue \in Seq(Values) /\ queue' \in Seq(Values)
         /\ Len(queue) \in Nat /\ Len(queue') = Len(queue) + 1
         /\ \A i \in 1..Len(queue) : queue'[i] = queue[i]
         /\ queue'[Len(queue) + 1] = v
         /\ popped \in [Consumers -> Seq(Values)] /\ popped' = popped
         /\ Pushed[p] = count[p] /\ Pushed'[p] = count[p] + 1
         /\ \A q \in Producers : q # p => Pushed'[q] = Pushed[q]
         /\ \A q \in Producers : Pushed[q] \in Nat
<1>1. /\ pc[p] = "emplace" /\ queue' = Append(queue, v) /\ pc' = [pc EXCEPT ![p] = "grow"]
      /\ UNCHANGED <<count, popped>>
  BY DEF PushValue, Goto
<1>2. /\ queue \in Seq(Values) /\ popped \in [Consumers -> Seq(Values)]
      /\ pc \in [Threads -> PushPcs \cup PopPcs] /\ p \in Threads
      /\ count \in [Threads -> Nat] /\ count[p] < PushCount
  BY <1>1, Kinds DEF QueueInv, TypeOK, PcInv
<1>3. v \in Values /\ v[1] = p /\ v[2] = count[p] + 1
  <2>1. count[p] + 1 \in 1..PushCount
    BY <1>2, QueueAssumption
  <2>2. QED
    BY <2>1 DEF Values
<1>4. /\ Len(queue) \in Nat /\ Len(queue') = Len(queue) + 1 /\ queue' \in Seq(Values)
      /\ \A i \in 1..Len(queue) : queue'[i] = queue[i]
      /\ queue'[Len(queue) + 1] = v
  BY <1>1, <1>2, <1>3, QueueSteps
<1>5. /\ Pushed[p] = count[p] /\ Pushed'[p] = count[p] + 1
      /\ \A q \in Producers : q # p => Pushed'[q] = Pushed[q]
      /\ \A q \in Producers : Pushed[q] \in Nat
  BY <1>1, <1>2, Kinds DEF Pushed
<1>6. QED
  BY <1>1, <1>2, <1>3, <1>4, <1>5

(* push() puts the value of a producer behind those it pushed before.      *)
LEMMA PushValueOrder ==
  ASSUME QueueInv, OrderInv, NEW p \in Producers, PushValue(p)
  PROVE  OrderInv'
<1> DEFINE v == <<p, count[p] + 1>>
<1>1. popped' = popped
  BY DEF PushValue
<1>2. /\ queue \in Seq(Values) /\ popped \in [Consumers -> Seq(Values)]
      /\ count[p] \in Nat
  BY PushMoves
<1>3. v \in Values /\ v[1] = p /\ v[2] = count[p] + 1
  BY PushMoves
<1>4. /\ Len(queue) \in Nat /\ Len(queue') = Len(queue) + 1 /\ queue' \in Seq(Values)
      /\ \A i \in 1..Len(queue) : queue'[i] = queue[i]
      /\ queue'[Len(queue) + 1] = v
  BY PushMoves
<1>5. /\ Pushed[p] = count[p] /\ Pushed'[p] = count[p] + 1
      /\ \A q \in Producers : q # p => Pushed'[q] = Pushed[q]
      /\ \A q \in Producers : Pushed[q] \in Nat
  BY PushMoves
<1> HIDE DEF v
<1>6. ASSUME NEW w \in Values, w[2] <= Pushed[w[1]]
      PROVE  InOrder(w, v) /\ w[2] <= Pushed'[w[1]]
  <2>1. w[1] \in Producers /\ w[2] \in Nat
    BY QueueAssumption DEF Values
  <2>2. QED
    BY <1>2, <1>3, <1>5, <1>6, <2>1 DEF InOrder
<1>7. \A i \in 1..Len(queue) : InOrder(queue[i], v) /\ queue[i][2] <= Pushed'[queue[i][1]]
  BY <1>2, <1>6, ValuesIn DEF OrderInv, PushedBefore
<1>8. \A c \in Consumers : \A i \in 1..Len(popped[c]) :
          InOrder(popped[c][i], v) /\ popped[c][i][2] <= Pushed'[popped[c][i][1]]
  <2>1. SUFFICES ASSUME NEW c \in Consumers, NEW i \in 1..Len(popped[c])
                 PROVE  InOrder(popped[c][i], v) /\ popped[c][i][2] <= Pushed'[popped[c][i][1]]
    OBVIOUS
  <2>2. popped[c][i] \in Values
    BY <1>2, ValuesIn
  <2>3. popped[c][i][2] <= Pushed[popped[c][i][1]]
    BY DEF OrderInv, PushedBefore
  <2>4. QED
    BY <1>6, <2>2, <2>3
<1>9. \A i \in 1..Len(queue') : i \in 1..Len(queue) \/ (i = Len(queue) + 1 /\ queue'[i] = v)
  BY <1>4
<1>10. QueueOrder'
  <2>1. SUFFICES ASSUME NEW i \in 1..Len(queue'), NEW j \in 1..Len(queue'), i < j
                 PROVE  InOrder(queue'[i], queue'[j])
    BY DEF QueueOrder, InOrder
  <2>2. i \in 1..Len(queue)
    BY <1>4, <2>1
  <2>3. CASE j \in 1..Len(queue)
    BY <1>4, <2>1, <2>2, <2>3 DEF OrderInv, QueueOrder
  <2>4. CASE queue'[j] = v
    BY <1>4, <1>7, <2>2, <2>4
  <2>5. QED
    BY <1>9, <2>3, <2>4
<1>11. PoppedFirst'
  <2>1. SUFFICES ASSUME NEW c \in Consumers, NEW i \in 1..Len(popped[c]),
                        NEW j \in 1..Len(queue')
                 PROVE  InOrder(popped[c][i], queue'[j])
    BY <1>1 DEF PoppedFirst, InOrder
  <2>2. CASE j \in 1..Len(queue)
    BY <1>4, <2>2 DEF OrderInv, PoppedFirst
  <2>3. CASE queue'[j] = v
    BY <1>8, <2>3
  <2>4. QED
    BY <1>9, <2>2, <2>3
<1>12. ProducerOrder'
  BY <1>1 DEF OrderInv, ProducerOrder
<1>13. PushedBefore(queue)'
  <2>1. SUFFICES ASSUME NEW i \in 1..Len(queue') PROVE queue'[i][2] <= Pushed'[queue'[i][1]]
    BY DEF PushedBefore, Pushed
  <2>2. CASE i \in 1..Len(queue)
    BY <1>4, <1>7, <2>2
  <2>3. CASE queue'[i] = v
    <3>1. v[2] <= Pushed'[v[1]]
      BY <1>2, <1>3, <1>5
    <3>2. QED
      BY <2>3, <3>1
  <2>4. QED
    BY <1>9, <2>2, <2>3
<1>14. \A c \in Consumers : PushedBefore(popped[c])'
  BY <1>1, <1>8 DEF PushedBefore
<1>15. QED
  BY <1>10, <1>11, <1>12, <1>13, <1>14 DEF OrderInv

(* What front() and pop() of the std::queue change.                        *)
LEMMA FrontMoves ==
  ASSUME QueueInv, NEW c \in Consumers, Front(c), NEW v, v = queue[1]
  PROVE  /\ queue \in Seq(Values) /\ queue' \in Seq(Values) /\ v \in Values
         /\ Len(queue) \in Nat /\ Len(queue) > 0 /\ Len(queue') = Len(queue) - 1
         /\ \A i \in 1..Len(queue') : queue'[i] = queue[i + 1] /\ i + 1 \in 1..Len(queue)
         /\ \A p \in Producers : Pushed'[p] = Pushed[p]
         /\ popped \in [Consumers -> Seq(Values)]
         /\ Len(popped'[c]) = Len(popped[c]) + 1 /\ Len(popped[c]) \in Nat
         /\ \A i \in 1..Len(popped[c]) : popped'[c][i] = popped[c][i]
         /\ popped'[c][Len(popped[c]) + 1] = v
         /\ \A d \in Consumers : d # c => popped'[d] = popped[d]
<1>1. /\ pc[c] = "front" /\ queue' = Tail(queue)
      /\ pc' = [pc EXCEPT ![c] = "idle"]
      /\ popped' = [popped EXCEPT ![c] = Append(@, Head(queue))]
      /\ count' = [count EXCEPT ![c] = @ + 1]
  BY DEF Front, Goto
<1>2. /\ pc \in [Threads -> PushPcs \cup PopPcs] /\ c \in Threads
      /\ count \in [Threads -> Nat] /\ popped \in [Consumers -> Seq(Values)]
      /\ queue \in Seq(Values) /\ Len(queue) \in Nat
  BY <1>1, Kinds, LenProperties DEF QueueInv, TypeOK
<1>3. /\ Len(queue) > 0 /\ Head(queue) = v /\ v \in Values
      /\ Len(queue') = Len(queue) - 1 /\ queue' \in Seq(Values)
      /\ \A i \in 1..Len(queue') : queue'[i] = queue[i + 1] /\ i + 1 \in 1..Len(queue)
  BY <1>1, <1>2, FrontFinds
<1>4. \A p \in Producers : Pushed'[p] = Pushed[p]
  BY <1>1, <1>2, Kinds DEF Pushed
<1>5. /\ Len(popped'[c]) = Len(popped[c]) + 1 /\ Len(popped[c]) \in Nat
      /\ \A i \in 1..Len(popped[c]) : popped'[c][i] = popped[c][i]
      /\ popped'[c][Len(popped[c]) + 1] = v
      /\ \A d \in Consumers : d # c => popped'[d] = popped[d]
  <2>1. popped'[c] = Append(popped[c], v) /\ popped[c] \in Seq(Values)
    BY <1>1, <1>2, <1>3
  <2>2. \A d \in Consumers : d # c => popped'[d] = popped[d]
    BY <1>1, <1>2
  <2>3. QED
    BY <1>3, <2>1, <2>2, AppendProperties, LenProperties
<1>6. QED
  BY <1>1, <1>2, <1>3, <1>4, <1>5

(* pop() moves the oldest value over.                                      *)
LEMMA FrontOrder ==
  ASSUME QueueInv, OrderInv, NEW c \in Consumers, Front(c)
  PROVE  OrderInv'
<1>1. PICK v : v = queue[1]
  OBVIOUS
<1>2. queue \in Seq(Values) /\ Len(queue) \in Nat /\ popped \in [Consumers -> Seq(Values)]
  BY FrontMoves
<1>3. v = queue[1]
  BY <1>1
<1>4. /\ Len(queue) > 0 /\ v \in Values
      /\ Len(queue') = Len(queue) - 1 /\ queue' \in Seq(Values)
      /\ \A i \in 1..Len(queue') : queue'[i] = queue[i + 1] /\ i + 1 \in 1..Len(queue)
  BY <1>1, FrontMoves
<1>5. \A p \in Producers : Pushed'[p] = Pushed[p]
  BY <1>1, FrontMoves
<1>6. /\ Len(popped'[c]) = Len(popped[c]) + 1 /\ Len(popped[c]) \in Nat
      /\ \A i \in 1..Len(popped[c]) : popped'[c][i] = popped[c][i]
      /\ popped'[c][Len(popped[c]) + 1] = v
      /\ \A d \in Consumers : d # c => popped'[d] = popped[d]
  BY <1>1, FrontMoves
<1>7. \A d \in Consumers : \A i \in 1..Len(popped'[d]) :
          \/ i \in 1..Len(popped[d]) /\ popped'[d][i] = popped[d][i]
          \/ d = c /\ i = Len(popped[c]) + 1 /\ popped'[d][i] = v
  BY <1>6
<1>8. /\ \A j \in 1..Len(queue') : InOrder(v, queue'[j])
      /\ \A d \in Consumers : \A i \in 1..Len(popped[d]) : InOrder(popped[d][i], v)
      /\ v[2] <= Pushed[v[1]]
  <2>1. 1 \in 1..Len(queue)
    BY <1>2, <1>4
  <2>2. \A j \in 1..Len(queue') : 1 < j + 1
    BY <1>2, <1>4
  <2>3. QED
    BY <1>3, <1>4, <2>1, <2>2 DEF OrderInv, QueueOrder, PoppedFirst, PushedBefore
<1>9. QueueOrder'
  <2>1. SUFFICES ASSUME NEW i \in 1..Len(queue'), NEW j \in 1..Len(queue'), i < j
                 PROVE  InOrder(queue'[i], queue'[j])
    BY DEF QueueOrder, InOrder
  <2>2. i + 1 < j + 1
    BY <1>2, <1>4, <2>1
  <2>3. QED
    BY <1>4, <2>2 DEF OrderInv, QueueOrder
<1>10. PoppedFirst'
  <2>1. SUFFICES ASSUME NEW d \in Consumers, NEW i \in 1..Len(popped'[d]),
                        NEW j \in 1..Len(queue')
                 PROVE  InOrder(popped'[d][i], queue'[j])
    BY DEF PoppedFirst, InOrder
  <2>2. CASE i \in 1..Len(popped[d]) /\ popped'[d][i] = popped[d][i]
    BY <1>4, <2>2 DEF OrderInv, PoppedFirst
  <2>3. CASE popped'[d][i] = v
    BY <1>8, <2>3
  <2>4. QED
    BY <1>7, <2>2, <2>3
<1>11. ProducerOrder'
  <2>1. SUFFICES ASSUME NEW d \in Consumers, NEW i \in 1..Len(popped'[d]),
                        NEW j \in 1..Len(popped'[d]), i < j
                 PROVE  InOrder(popped'[d][i], popped'[d][j])
    BY DEF ProducerOrder, InOrder
  <2>2. i \in 1..Len(popped[d]) /\ popped'[d][i] = popped[d][i]
    BY <1>6, <1>7, <2>1
  <2>3. CASE j \in 1..Len(popped[d]) /\ popped'[d][j] = popped[d][j]
    BY <2>1, <2>2, <2>3 DEF OrderInv, ProducerOrder, InOrder
  <2>4. CASE popped'[d][j] = v
    BY <1>8, <2>2, <2>4
  <2>5. QED
    BY <1>7, <2>3, <2>4
<1>12. PushedBefore(queue)'
  <2>1. SUFFICES ASSUME NEW i \in 1..Len(queue') PROVE queue'[i][2] <= Pushed'[queue'[i][1]]
    BY DEF PushedBefore, Pushed
  <2>2. queue'[i][1] \in Producers
    BY <1>4, ValuesIn
  <2>3. queue'[i][2] <= Pushed[queue'[i][1]]
    BY <1>4 DEF OrderInv, PushedBefore
  <2>4. QED
    BY <1>5, <2>2, <2>3
<1>13. \A d \in Consumers : PushedBefore(popped[d])'
  <2>1. SUFFICES ASSUME NEW d \in Consumers, NEW i \in 1..Len(popped'[d])
                 PROVE  popped'[d][i][2] <= Pushed'[popped'[d][i][1]]
    BY DEF PushedBefore, Pushed
  <2>2. popped'[d][i][2] <= Pushed[popped'[d][i][1]] /\ popped'[d][i][1] \in Producers
    <3>1. CASE i \in 1..Len(popped[d]) /\ popped'[d][i] = popped[d][i]
      BY <1>2, <3>1, ValuesIn DEF OrderInv, PushedBefore
    <3>2. CASE popped'[d][i] = v
      BY <1>4, <1>8, <3>2 DEF Values
    <3>3. QED
      BY <1>7, <3>1, <3>2
  <2>3. QED
    BY <1>5, <2>2
<1>14. QED
  BY <1>9, <1>10, <1>11, <1>12, <1>13 DEF OrderInv

\* A step that neither puts a value into the std::queue nor takes one out.
ValuesStay ==
    /\ queue' = queue /\ popped' = popped
    /\ \A p \in Producers : Pushed'[p] = Pushed[p]

(* Only emplace() and front() with pop() of the std::queue move values.    *)
LEMMA ValueSteps ==
  ASSUME QueueInv, [Next]_vars
  PROVE  \/ ValuesStay
         \/ \E p \in Producers : PushValue(p)
         \/ \E c \in Consumers : Front(c)
<1>1. pc \in [Threads -> PushPcs \cup PopPcs] /\ count \in [Threads -> Nat]
  BY DEF QueueInv, TypeOK
<1>2. CASE UNCHANGED vars
  <2>1. queue' = queue /\ popped' = popped /\ pc' = pc /\ count' = count
    BY <1>2 DEF vars
  <2>2. QED
    BY <2>1 DEF ValuesStay, Pushed
<1>3. ASSUME NEW p \in Producers, PushLock(p) \/ PushCounts(p) \/ Notify(p) PROVE ValuesStay
  <2>1. queue' = queue /\ popped' = popped
    BY <1>3 DEF PushLock, PushCounts, Notify
  <2>2. ASSUME NEW q \in Producers, q # p PROVE Pushed'[q] = Pushed[q]
    <3>1. CASE PushLock(p) \/ PushCounts(p)
      <4>1. count' = count /\ \E to : pc' = [pc EXCEPT ![p] = to]
        BY <3>1 DEF PushLock, PushCounts, Lock, Goto
      <4>2. QED
        BY <1>1, <2>2, <4>1, Kinds DEF Pushed
    <3>2. CASE Notify(p)
      <4>1. count'[q] = count[q]
        BY <1>1, <2>2, <3>2, Kinds DEF Notify
      <4>2. pc'[q] = pc[q]
        BY <2>2, <3>2, NotifyDoes, Kinds DEF Asleep
      <4>3. QED
        BY <4>1, <4>2 DEF Pushed
    <3>3. QED
      BY <1>3, <3>1, <3>2
  <2>3. Pushed'[p] = Pushed[p]
    <3>1. CASE PushLock(p) \/ PushCounts(p)
      <4>1. count' = count /\ \/ pc[p] = "idle" /\ pc' = [pc EXCEPT ![p] = "emplace"]
                              \/ pc[p] = "grow" /\ pc' = [pc EXCEPT ![p] = "notify"]
        BY <3>1 DEF PushLock, PushCounts, Lock, Goto
      <4>2. QED
        BY <1>1, <4>1, Kinds DEF Pushed
    <3>2. CASE Notify(p)
      <4>1. count'[p] = count[p] + 1 /\ pc[p] = "notify" /\ pc'[p] = "idle"
        BY <1>1, <3>2, NotifyDoes, Kinds DEF Notify
      <4>2. QED
        BY <4>1 DEF Pushed
    <3>3. QED
      BY <1>3, <3>1, <3>2
  <2>4. QED
    BY <2>1, <2>2, <2>3 DEF ValuesStay
<1>4. ASSUME NEW c \in Consumers,
             \/ PopLock(c) \/ PopAskedLock(c) \/ Test(c) \/ Relock(c) \/ Shrink(c)
             \/ AskThenPop(c) \/ SpuriousWake(c)
      PROVE  ValuesStay
  <2>1. queue' = queue /\ popped' = popped /\ count' = count
        /\ \E to : pc' = [pc EXCEPT ![c] = to]
    BY <1>4 DEF PopLock, PopAskedLock, Test, Relock, Shrink, AskThenPop, SpuriousWake,
                Lock, Goto
  <2>2. \A p \in Producers : Pushed'[p] = Pushed[p]
    BY <1>1, <2>1, Kinds DEF Pushed
  <2>3. QED
    BY <2>1, <2>2 DEF ValuesStay
<1>5. QED
  BY <1>2, <1>3, <1>4 DEF Next, Push, PopStep

(* The order of the values is kept by every step.                          *)
LEMMA OrderInvariance == Spec => []OrderInv
<1>1. ASSUME Init PROVE OrderInv
  <2>1. Len(queue) = 0 /\ \A c \in Consumers : Len(popped[c]) = 0
    BY <1>1, EmptySeq DEF Init
  <2>2. QED
    BY <2>1 DEF OrderInv, QueueOrder, PoppedFirst, ProducerOrder, PushedBefore
<1>2. ASSUME QueueInv, OrderInv, [Next]_vars PROVE OrderInv'
  <2>1. ASSUME ValuesStay PROVE OrderInv'
    BY <1>2, <2>1, OrderStays DEF ValuesStay
  <2>2. QED
    BY <1>2, <2>1, ValueSteps, PushValueOrder, FrontOrder
<1>3. (Init => OrderInv) /\ (QueueInv /\ OrderInv /\ [Next]_vars => OrderInv')
  BY <1>1, <1>2
<1>4. QED
  BY <1>3, QueueInvariance, PTL DEF Spec

(* The values a consumer got from one producer come in the order of the    *)
(* push() calls, whoever else pushes and pops.                             *)
THEOREM InPushOrder == Spec => []ProducerOrder
<1>1. OrderInv => ProducerOrder
  BY DEF OrderInv
<1>2. QED
  BY <1>1, OrderInvariance, PTL

-----------------------------------------------------------------------------
(* Every value once                                                        *)

Queued(v) == \E j \in 1..Len(queue) : queue[j] = v
PoppedBy(c, v) == \E i \in 1..Len(popped[c]) : popped[c][i] = v

\* Whatever push() has put into the std::queue is there, or somebody got it.
NothingLost ==
    \A p \in Producers : \A n \in 1..Pushed[p] :
        Queued(<<p, n>>) \/ \E c \in Consumers : PoppedBy(c, <<p, n>>)

\* No value is in two places of the queue, or in the queue and with a consumer,
\* or with two consumers, or twice with one.
NothingTwice ==
    /\ \A i, j \in 1..Len(queue) : queue[i] = queue[j] => i = j
    /\ \A c \in Consumers : \A i \in 1..Len(popped[c]) : ~Queued(popped[c][i])
    /\ \A c, d \in Consumers : \A i \in 1..Len(popped[c]), j \in 1..Len(popped[d]) :
           popped[c][i] = popped[d][j] => c = d /\ i = j

\* Nothing comes out that was not pushed.
NothingInvented == PushedBefore(queue) /\ \A c \in Consumers : PushedBefore(popped[c])

EachValueOnce == NothingLost /\ NothingTwice /\ NothingInvented

\* Two consumers have no value in common.
PoppedApart ==
    \A c, d \in Consumers : c # d =>
        \A i \in 1..Len(popped[c]), j \in 1..Len(popped[d]) : popped[c][i] # popped[d][j]

(* push() adds its value and loses none.                                   *)
LEMMA PushLosesNothing ==
  ASSUME QueueInv, NothingLost, NEW p \in Producers, PushValue(p)
  PROVE  NothingLost'
<1> DEFINE v == <<p, count[p] + 1>>
<1>1. /\ Len(queue) \in Nat /\ Len(queue') = Len(queue) + 1
      /\ \A i \in 1..Len(queue) : queue'[i] = queue[i]
      /\ queue'[Len(queue) + 1] = v
      /\ popped' = popped /\ count[p] \in Nat
      /\ Pushed[p] = count[p] /\ Pushed'[p] = count[p] + 1
      /\ \A q \in Producers : q # p => Pushed'[q] = Pushed[q]
  BY PushMoves
<1>2. SUFFICES ASSUME NEW q \in Producers, NEW n \in 1..Pushed'[q]
               PROVE  Queued(<<q, n>>)' \/ \E c \in Consumers : PoppedBy(c, <<q, n>>)'
  BY DEF NothingLost, Pushed, Queued, PoppedBy
<1>3. CASE q = p /\ n = count[p] + 1
  <2>1. Len(queue) + 1 \in 1..Len(queue')
    BY <1>1
  <2>2. QED
    BY <1>1, <1>3, <2>1 DEF Queued
<1>4. CASE n \in 1..Pushed[q]
  <2>1. CASE Queued(<<q, n>>)
    <3>1. PICK j \in 1..Len(queue) : queue[j] = <<q, n>>
      BY <2>1 DEF Queued
    <3>2. j \in 1..Len(queue') /\ queue'[j] = <<q, n>>
      BY <1>1, <3>1
    <3>3. QED
      BY <3>2 DEF Queued
  <2>2. CASE \E c \in Consumers : PoppedBy(c, <<q, n>>)
    BY <1>1, <2>2 DEF PoppedBy
  <2>3. QED
    BY <1>4, <2>1, <2>2 DEF NothingLost
<1>5. (q = p /\ n = count[p] + 1) \/ n \in 1..Pushed[q]
  <2>1. CASE q = p
    BY <1>1, <2>1
  <2>2. CASE q # p
    BY <1>1, <2>2
  <2>3. QED
    BY <2>1, <2>2
<1>6. QED
  BY <1>3, <1>4, <1>5

(* pop() hands its value over and loses none.                              *)
LEMMA FrontLosesNothing ==
  ASSUME QueueInv, NothingLost, NEW c \in Consumers, Front(c)
  PROVE  NothingLost'
<1>1. PICK v : v = queue[1]
  OBVIOUS
<1>2. /\ Len(queue) \in Nat /\ Len(queue) > 0 /\ Len(queue') = Len(queue) - 1
      /\ \A i \in 1..Len(queue') : queue'[i] = queue[i + 1]
      /\ \A p \in Producers : Pushed'[p] = Pushed[p]
  BY <1>1, FrontMoves
<1>3. /\ Len(popped'[c]) = Len(popped[c]) + 1 /\ Len(popped[c]) \in Nat
      /\ \A i \in 1..Len(popped[c]) : popped'[c][i] = popped[c][i]
      /\ popped'[c][Len(popped[c]) + 1] = v
      /\ \A d \in Consumers : d # c => popped'[d] = popped[d]
  BY <1>1, FrontMoves
<1>4. SUFFICES ASSUME NEW q \in Producers, NEW n \in 1..Pushed[q]
               PROVE  Queued(<<q, n>>)' \/ \E d \in Consumers : PoppedBy(d, <<q, n>>)'
  BY <1>2 DEF NothingLost, Pushed, Queued, PoppedBy
<1>5. ASSUME NEW d \in Consumers, PoppedBy(d, <<q, n>>) PROVE PoppedBy(d, <<q, n>>)'
  <2>1. PICK i \in 1..Len(popped[d]) : popped[d][i] = <<q, n>>
    BY <1>5 DEF PoppedBy
  <2>2. i \in 1..Len(popped'[d]) /\ popped'[d][i] = <<q, n>>
    <3>1. CASE d = c
      BY <1>3, <2>1, <3>1
    <3>2. CASE d # c
      BY <1>3, <2>1, <3>2
    <3>3. QED
      BY <3>1, <3>2
  <2>3. QED
    BY <2>2 DEF PoppedBy
<1>6. ASSUME Queued(<<q, n>>) PROVE Queued(<<q, n>>)' \/ PoppedBy(c, <<q, n>>)'
  <2>1. PICK j \in 1..Len(queue) : queue[j] = <<q, n>>
    BY <1>6 DEF Queued
  <2>2. CASE j = 1
    <3>1. Len(popped[c]) + 1 \in 1..Len(popped'[c])
          /\ popped'[c][Len(popped[c]) + 1] = <<q, n>>
      BY <1>1, <1>3, <2>1, <2>2
    <3>2. QED
      BY <3>1 DEF PoppedBy
  <2>3. CASE j # 1
    <3>1. j - 1 \in 1..Len(queue') /\ (j - 1) + 1 = j
      BY <1>2, <2>3
    <3>2. queue'[j - 1] = <<q, n>>
      BY <1>2, <2>1, <3>1
    <3>3. QED
      BY <3>1, <3>2 DEF Queued
  <2>4. QED
    BY <2>2, <2>3
<1>7. QED
  BY <1>5, <1>6 DEF NothingLost

(* The value a consumer gets is one that nobody has.                       *)
LEMMA FrontIsNew ==
  ASSUME QueueInv, OrderInv, PoppedApart, NEW c \in Consumers, Front(c)
  PROVE  PoppedApart'
<1>1. PICK v : v = queue[1]
  OBVIOUS
<1>2. /\ v \in Values /\ Len(queue) \in Nat /\ Len(queue) > 0
      /\ Len(popped'[c]) = Len(popped[c]) + 1 /\ Len(popped[c]) \in Nat
      /\ \A i \in 1..Len(popped[c]) : popped'[c][i] = popped[c][i]
      /\ popped'[c][Len(popped[c]) + 1] = v
      /\ \A d \in Consumers : d # c => popped'[d] = popped[d]
  BY <1>1, FrontMoves
<1>3. v[2] \in Nat
  BY <1>2, QueueAssumption DEF Values
<1>4. ASSUME NEW d \in Consumers, NEW i \in 1..Len(popped[d]) PROVE popped[d][i] # v
  <2>1. 1 \in 1..Len(queue)
    BY <1>2
  <2>2. InOrder(popped[d][i], v)
    BY <1>1, <2>1 DEF OrderInv, PoppedFirst
  <2>3. QED
    BY <1>3, <2>2 DEF InOrder
<1>5. ASSUME NEW d \in Consumers, d # c, NEW i \in 1..Len(popped'[c]),
             NEW j \in 1..Len(popped'[d])
      PROVE  popped'[c][i] # popped'[d][j]
  <2>1. popped'[d] = popped[d]
    BY <1>2, <1>5
  <2>2. CASE i \in 1..Len(popped[c])
    BY <1>2, <1>5, <2>1, <2>2 DEF PoppedApart
  <2>3. CASE i = Len(popped[c]) + 1
    BY <1>2, <1>4, <1>5, <2>1, <2>3
  <2>4. QED
    BY <1>2, <2>2, <2>3
<1>6. ASSUME NEW d \in Consumers, NEW e \in Consumers, d # e,
             NEW i \in 1..Len(popped'[d]), NEW j \in 1..Len(popped'[e])
      PROVE  popped'[d][i] # popped'[e][j]
  <2>1. CASE d = c
    BY <1>5, <1>6, <2>1
  <2>2. CASE e = c
    BY <1>5, <1>6, <2>2
  <2>3. CASE d # c /\ e # c
    BY <1>2, <1>6, <2>3 DEF PoppedApart
  <2>4. QED
    BY <2>1, <2>2, <2>3
<1>7. QED
  BY <1>6 DEF PoppedApart

(* Values of one producer that are in order are different.                 *)
LEMMA OrderedDiffer ==
  ASSUME QueueInv, OrderInv, PoppedApart
  PROVE  NothingTwice
<1>1. queue \in Seq(Values) /\ \A c \in Consumers : popped[c] \in Seq(Values)
  BY DEF QueueInv, TypeOK
<1>2. ASSUME NEW v \in Values, NEW w, InOrder(v, w) PROVE v # w
  BY <1>2, QueueAssumption DEF InOrder, Values
<1>3. ASSUME NEW i \in 1..Len(queue), NEW j \in 1..Len(queue), queue[i] = queue[j] PROVE i = j
  <2>1. queue[i] \in Values /\ queue[j] \in Values /\ Len(queue) \in Nat
    BY <1>1, ValuesIn
  <2>2. ~(i < j) /\ ~(j < i)
    BY <1>2, <1>3, <2>1 DEF OrderInv, QueueOrder
  <2>3. QED
    BY <2>1, <2>2
<1>4. ASSUME NEW c \in Consumers, NEW i \in 1..Len(popped[c]), NEW j \in 1..Len(queue)
      PROVE  queue[j] # popped[c][i]
  <2>1. popped[c][i] \in Values
    BY <1>1, ValuesIn
  <2>2. QED
    BY <1>2, <2>1 DEF OrderInv, PoppedFirst
<1>5. ASSUME NEW c \in Consumers, NEW d \in Consumers, NEW i \in 1..Len(popped[c]),
             NEW j \in 1..Len(popped[d]), popped[c][i] = popped[d][j]
      PROVE  c = d /\ i = j
  <2>1. c = d
    BY <1>5 DEF PoppedApart
  <2>2. popped[c][i] \in Values /\ Len(popped[c]) \in Nat /\ popped[c][i][2] \in Nat
    BY <1>1, ValuesIn
  <2>3. ~(i < j) /\ ~(j < i)
    BY <1>5, <2>1, <2>2 DEF OrderInv, ProducerOrder
  <2>4. QED
    BY <2>1, <2>2, <2>3
<1>6. QED
  BY <1>3, <1>4, <1>5 DEF NothingTwice, Queued

(* Every value that was pushed is in the queue or with exactly one of the  *)
(* consumers, once, and nothing else ever comes out: no race of push() and *)
(* pop() loses or doubles a value, whoever sleeps, wakes or is overtaken.  *)
THEOREM ValuesOnce == Spec => []EachValueOnce
<1>1. ASSUME Init PROVE NothingLost /\ PoppedApart
  <2>1. /\ \A p \in Producers : pc[p] = "idle" /\ count[p] = 0
        /\ \A c \in Consumers : Len(popped[c]) = 0
    BY <1>1, EmptySeq, Kinds DEF Init
  <2>2. QED
    BY <2>1 DEF NothingLost, PoppedApart, Pushed
<1>2. ASSUME QueueInv, OrderInv, NothingLost, PoppedApart, [Next]_vars
      PROVE  NothingLost' /\ PoppedApart'
  <2>1. CASE ValuesStay
    <3>1. queue' = queue /\ popped' = popped /\ \A p \in Producers : Pushed'[p] = Pushed[p]
      BY <2>1 DEF ValuesStay
    <3>2. PoppedApart'
      BY <1>2, <3>1 DEF PoppedApart
    <3>3. NothingLost'
      <4>1. SUFFICES ASSUME NEW p \in Producers, NEW n \in 1..Pushed[p]
                     PROVE  Queued(<<p, n>>)' \/ \E c \in Consumers : PoppedBy(c, <<p, n>>)'
        BY <3>1 DEF NothingLost, Pushed, Queued, PoppedBy
      <4>2. Queued(<<p, n>>) \/ \E c \in Consumers : PoppedBy(c, <<p, n>>)
        BY <1>2 DEF NothingLost
      <4>3. QED
        BY <3>1, <4>2 DEF Queued, PoppedBy
    <3>4. QED
      BY <3>2, <3>3
  <2>2. ASSUME NEW p \in Producers, PushValue(p) PROVE NothingLost' /\ PoppedApart'
    <3>1. popped' = popped
      BY <2>2 DEF PushValue
    <3>2. QED
      BY <1>2, <2>2, <3>1, PushLosesNothing DEF PoppedApart
  <2>3. ASSUME NEW c \in Consumers, Front(c) PROVE NothingLost' /\ PoppedApart'
    BY <1>2, <2>3, FrontLosesNothing, FrontIsNew
  <2>4. QED
    BY <1>2, <2>1, <2>2, <2>3, ValueSteps
<1>3. QueueInv /\ OrderInv /\ NothingLost /\ PoppedApart => EachValueOnce
  BY OrderedDiffer DEF EachValueOnce, NothingInvented, OrderInv
<1>4. /\ Init => NothingLost /\ PoppedApart
      /\ QueueInv /\ OrderInv /\ NothingLost /\ PoppedApart /\ [Next]_vars
           => NothingLost' /\ PoppedApart'
  BY <1>1, <1>2
<1>5. QED
  BY <1>3, <1>4, QueueInvariance, OrderInvariance, PTL DEF Spec

-----------------------------------------------------------------------------
(* When the queue stands still                                             *)

\* Thread t has a step to take.
Runnable(t) ==
    \/ pc[t] \in Inside
    \/ pc[t] \in {"pop", "woken"} /\ queueMutex = Nobody
    \/ /\ pc[t] = "idle" /\ queueMutex = Nobody
       /\ count[t] < (IF t \in Producers THEN PushCount ELSE PopCount)

\* The one way for the threads to stand still: all values are pushed, and who
\* has not got as many as it wants sleeps in pop() of an empty queue.
StandsEmpty ==
    (\A t \in Threads : ~Runnable(t)) =>
        /\ \A p \in Producers : pc[p] = "idle" /\ count[p] >= PushCount
        /\ \A c \in Consumers : \/ pc[c] = "idle" /\ count[c] >= PopCount
                                \/ pc[c] = "asleep"
        /\ (\E c \in Consumers : pc[c] = "asleep") => queue = <<>>

(* No order of push() and pop() ends in a deadlock: the threads only stand *)
(* still when every push() is done and whoever still waits in pop() waits  *)
(* for a value that nobody has pushed.                                     *)
THEOREM StandsStillEmpty == Spec => []StandsEmpty
<1>1. ASSUME QueueInv, NoLostWakeup, \A t \in Threads : ~Runnable(t)
      PROVE  /\ \A p \in Producers : pc[p] = "idle" /\ count[p] >= PushCount
             /\ \A c \in Consumers : \/ pc[c] = "idle" /\ count[c] >= PopCount
                                     \/ pc[c] = "asleep"
             /\ (\E c \in Consumers : pc[c] = "asleep") => queue = <<>>
  <2>1. \A t \in Threads : pc[t] \notin Inside
    BY <1>1 DEF Runnable
  <2>2. queueMutex = Nobody
    BY <1>1, <2>1 DEF QueueInv, MutexInv, TypeOK
  <2>3. ASSUME NEW p \in Producers PROVE pc[p] = "idle" /\ count[p] >= PushCount
    <3>1. pc[p] \in PushPcs /\ p \in Threads /\ count[p] \in Nat
      BY <1>1, Kinds DEF QueueInv, PcInv, TypeOK
    <3>2. pc[p] = "idle"
      BY <2>1, <3>1 DEF PushPcs, Inside
    <3>3. QED
      BY <1>1, <2>2, <3>1, <3>2, QueueAssumption DEF Runnable
  <2>4. ASSUME NEW c \in Consumers
        PROVE  \/ pc[c] = "idle" /\ count[c] >= PopCount
               \/ pc[c] = "asleep"
    <3>1. pc[c] \in PopPcs /\ c \in Threads /\ c \notin Producers /\ count[c] \in Nat
      BY <1>1, Kinds DEF QueueInv, PcInv, TypeOK
    <3>2. pc[c] \in {"idle", "asleep"}
      BY <1>1, <2>1, <2>2, <3>1 DEF PopPcs, Inside, Runnable
    <3>3. QED
      BY <1>1, <2>2, <3>1, <3>2, QueueAssumption DEF Runnable
  <2>5. ASSUME NEW c \in Consumers, pc[c] = "asleep" PROVE queue = <<>>
    <3>1. {d \in Consumers : pc[d] \in {"woken", "test", "shrink"}} = {}
      BY <2>4
    <3>2. {p \in Producers : pc[p] = "notify"} = {}
      BY <2>3
    <3>3. Asleep # {}
      BY <2>5 DEF Asleep
    <3>4. queueLength <= Cardinality({}) + Cardinality({})
      BY <1>1, <3>1, <3>2, <3>3 DEF NoLostWakeup
    <3>5. queueLength = 0
      BY <1>1, <3>4, FS_EmptySet DEF QueueInv, TypeOK
    <3>6. \A t \in Threads : pc[t] \notin Between
      BY <2>1 DEF Between, Inside
    <3>7. Len(queue) = 0 /\ queue \in Seq(Values)
      BY <1>1, <3>5, <3>6 DEF QueueInv, LengthInv, TypeOK
    <3>8. QED
      BY <3>7, EmptySeq
  <2>6. QED
    BY <2>3, <2>4, <2>5
<1>2. QueueInv /\ NoLostWakeup => StandsEmpty
  BY <1>1 DEF StandsEmpty
<1>3. QED
  BY <1>2, QueueInvariance, WakeupsKept, PTL
=============================================================================
