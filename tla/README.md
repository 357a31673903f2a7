# pcat: a verification development

pcat is a parallel `cat`: it concatenates input files into one output file by
mapping both into memory and letting a pool of worker threads copy chunks of the
output. This directory holds TLA+ models of its core, the TLC runs that check
them on small instances, and TLAPS proofs that carry the safety results about
the thread pool, its queues, both copy algorithms, the program and the pinning of
workers to every number of threads, chunks and processes, every page and block
size, all files, every command line and every machine.

Paths below are relative to the repository; line numbers are in `PROJECT.json`.

## 1. Inventory

| Component | State | Operations | Modelled in |
|---|---|---|---|
| thread pool, `src/threadPool.hxx` | work and result queue, `finished`, `waitingThreads`, `workMutex`, `haveWork`, the threads | constructor, `queue()`, `finish()`, destructor, worker loop | `ThreadPool` |
| threaded queue, `src/threadedQueue.hxx` | `std::queue`, counter, mutex, condition variable | `push`, `emplace`, `pop`, `empty`, `size` | `ThreadedQueue` |
| blockLinear, `src/algorithm/blockLinear` | `chunking_t` and `chunkState_t` iterators | `chunkedCopy()`, `++`, `==`, `end()` | `BlockLinear`, `ChunkedCopy` |
| chunkSpans, `src/algorithm/chunkSpans` | the same, plus the span length | the same, plus the short form | `ChunkSpans`, `ChunkedCopy` |
| chunk copy, `src/copyChunk.hxx` | mapping of the output range, position in it | map, copy block by block, synchronise | `CopyChunk` |
| memory maps, `src/mmap.hxx` | address and length | map, `index()`, `copyTo()`, `sync()`, `advise()` | `CopyChunk` |
| mapping offsets, `src/mappingOffset.hxx` | aligned offset, adjustment, length | constructors, `+=`, accessors | `MappingOffset` |
| program, `src/pcat.cxx` | input and output descriptors, locks | `main()`, gather, lock, size, open, close | `Pcat` |
| affinity, `src/linux/affinity.hxx`, `src/windows/affinity.hxx` | masks of the machine, list of processors | constructor, `retrieveProcessorInfo()`, `pinThreadTo()` | `Affinity` |
| argument parser, `src/args*`, `src/args/` | token stream, argument tree | tokenise, parse, find | `Args` |
| `src/utils`, `src/help.hxx`, `src/version.hxx.in` | none | template plumbing, text | not modelled |

How they interact: `main()` parses the command line into the global tree
`::args`, which the affinity object and the choice of the algorithm read. It gathers and locks the files, sizes the output and
calls the `chunkedCopy()` of the chosen algorithm. That builds a thread pool
(one worker per processor the affinity object lists), walks the output with a
`chunking_t` iterator and queues one `chunkState_t` per turn. Workers run
`copyChunk()` on a private copy of the chunk state and push its result; the main
thread collects results after each `queue()` and at the end in `finish()`.

What is hard here: two kinds of threads that share two queues, a flag, a counter
and a condition variable that is notified *without* its mutex; errors that may
arrive at any time and must not be lost; chunks copied out of order straight
into one file; and iterator arithmetic at file ends, block ends, page ends and
where they coincide. In front of that, a parser that keeps in step with the words
only by calling `next()` the right number of times, and loops over processor
masks with gaps, caps and pins. The list of hazards, each at its line, is in `PROJECT.json`.

What makes each component correct:
- pool: each queued chunk is run exactly once, an error of any chunk is returned
  and none is made up, `finish()` leaves nothing behind and returns;
- queue: `pop()` never touches an empty `std::queue`, no wakeup is lost, and the
  unlocked counter can be trusted by a single consumer;
- algorithms: chunks tile the output, blocks stay inside one input file, what is
  written is the byte of the inputs that belongs there, and a zero result means
  that all of it has been written; the loop ends;
- parser: both notations of an option mean the same, every word is used once, and
  no limit in the tree is zero, empty or less than what was written;
- affinity: the processors are those asked for, each once, and no two workers
  share one.

## 2. The modules

```
CopyService  <--implements--  ThreadPool  <--  MCThreadPool
                                   ^----------  ThreadPoolProofs
ThreadedQueue                                <--  MCThreadedQueue, ThreadedQueueProofs
Pcat                                         <--  MCPcat, PcatProofs
Args  <-  Affinity                           <--  MCFrontEnd, FrontEndProofs
MappingOffset <- CopyChunk <- ChunkedCopy <- BlockLinear <- MCBlockLinear, BlockLinearProofs
                                          <- ChunkSpans  <- MCChunkSpans, ChunkSpansProofs
SequenceFacts <- CopyProofs <- BlockLinearProofs, ChunkSpansProofs
              <- PcatProofs
```

`SequenceFacts` holds what the library of theorems does not: that a set of natural
numbers has a least element, and what `FlattenSeq` of the community modules gives.
`CopyProofs` holds what the proofs of the two algorithms share.

**ThreadPool** is `threadPool_t` together with the loop of `chunkedCopy()` that
drives it. A step is one operation on shared state. The predicate of
`haveWork.wait()` and the going to sleep are separate steps because notifiers
hold no mutex. `mainPc` and `pc[w]` name the places in the code: `construct`
(the constructor), `chunk`/`notify`/`clear` (`queue()`), `finish`/`notifyAll`/
`join`/`drain` (`finish()`, called by the loop's end or by the destructor);
`loop`, `lock`, `pred`, `block`, `asleep`, `woken`, `take`, `pop` (`waitWork()`),
`check`, `run`, `push` (the worker loop). A chunk is its number, a result a
number with 0 for success; what a chunk's copy returns is arbitrary. Both queues
are sequences with atomic operations, which `ThreadedQueue` justifies.

**CopyService** states what `chunkedCopy()` promises: chunks are submitted, each
runs at most once, and one verdict is given after all of them ran, zero exactly
if all succeeded. `ThreadPool` implements it under the mapping `submitted <-
queued`, `verdict <- ret` once `mainPc = "done"`.

**ThreadedQueue** splits `push()` and `pop()` at every point another thread can
observe: lock, change of the `std::queue`, change of the counter, notification.

**MappingOffset** is `mappingOffset_t` as operators on records. **CopyChunk** is
`copyChunk()` on the set of chunks in flight. Data is abstracted to its origin:
byte `p` of file `f` is its place in the concatenation, so the output is right
where `output[o] = o`. mmap is modelled by what it does: a block may read zeros
between the end of a file and the end of its last page (`Filler`), beyond that
page the process dies; an empty or negative block is refused; any system call
may fail. When a block leaves the output mapping, or an iterator is read past
`inputFiles.end()` by a walk, nothing can be said any more and the run ends
(`killed`). **ChunkedCopy** is the loop both algorithms share; **BlockLinear**
and **ChunkSpans** add their own `chunkState_t` and `chunking_t`. The set of
tasks has no bound on how many run at once, which includes every number of
workers, and any order of execution, which is what `CopyService` allows.

**Pcat** is `main()`, executed by several pcat processes on one file system. `pc`
names the function a process is in: `parse`, `gather` and `lock` (`checkFile()`,
where the length is read before the lock is taken), `output`, `size`, `resize`
(`openOutputFile()`), `begin` and `copy` (`chunkedCopy()`), `close`
(`closeFiles()`), `exit`. A lock is the process that holds it; as with `fcntl()`
it is advisory, never waited for, and dropped with any close of the file by its
holder, at exit and when the process is killed. `chunkedCopy()` is reduced to
copying bytes in any order and possibly failing.

**Args** is the tokenizer and `parseArguments()`. A word of the command line is a
sequence of texts split at its equals signs, because that is all the tokenizer
looks at; a `std::string_view` is what its `data()` gives up to the NUL, so its
own text is the first element and the name passed to `open()` the whole rest of
the word. `next()` is the tokenizer's `readToken()`, and each call of
`parseArgument()` is one action, chosen by what it makes of the argument: `Flag`,
`ValuedOption`, `Unrecognised`, `InvalidToken`, `OutOfMemory`. The conversions of
numbers and of core lists are tables from texts to values (`Numbers`, `Lists`),
in which a bad piece and a comma at the end are values of their own, as the code
treats them differently from numbers.

**Affinity** continues when `main()` has a tree to copy with. `Construct` picks a
machine, Linux or Windows, and its masks. On Linux `GetAffinity` and `ScanMask`
(one bit a step; the bits passed are cleared, and the loop ends with the last
one), on Windows `RetrieveProcessorInfo`, which is retried with a larger buffer
while the machine may grow (`GroupAdded`), and `ScanGroups`, which counts
processors across groups for `-c`. Then the workers call `PinThreadTo` in any
order; a refused pin goes unnoticed, as in the code. The length of `processors`
is the `NumProcessors` of `ThreadPool` and the number of workers of `ChunkSpans`;
an empty list, possible when no pin names a processor of the machine, is the
instance of the run `pool_no_workers`.

The models follow the release build: asserts are compiled out
(`b_ndebug=if-release`) and stated as properties instead (`ReadyAfterConstruct`,
`OffsetWithinLength`, `BlocksInBounds`, `StepStaysInFiles`).

Lines starting with `\* Mutant:` introduce altered copies of a definition. They
are used to show that each property can fail: with the altered definition in
place TLC finds the property violated.

## 3. The runs

| Run | Instance | Result |
|---|---|---|
| `pool` | 2 workers, 3 chunks, 2 error codes | all properties hold, 127 thousand states |
| `pool_hang` | 1 worker, 1 chunk | `finish()` may never return |
| `pool_no_workers` | 0 workers | success reported, nothing copied |
| `queue` | 2 producers, 2 consumers, 3 operations each | all properties hold |
| `block_linear` | up to 3 files of 1, 4 or 5 bytes, block 4, page 2 | all properties hold |
| `block_linear_overrun` | the same | the code's own assert fails |
| `chunk_spans` | up to 3 files of 1 to 4 bytes, block 2, page 2, 0 to 2 workers | all properties hold |
| `chunk_spans_past_end` | the same, 2 workers | bytes from behind a file's end reach the output |
| `chunk_spans_short_form` | the same, 2 workers | success reported, nothing copied |
| `pcat` | 2 processes, 9 command lines, 3 files of up to 1 byte | all properties hold, 336 thousand states |
| `pcat_changed` | the same | a locked input is changed by another process |
| `front_end` | up to 3 words out of 25, Linux and Windows, 1 or 2 groups of 3 bits | all properties hold, 700 thousand states |

Why the bounds are enough to be interesting. Two workers are needed for a race
for a chunk, three chunks so that one can be queued, one held and one failed at
the same time, two error codes so that first and later errors differ. Four
threads at the queue give barging: a woken consumer finds its value gone. File
lengths below, at and above a block produce blocks that share, fill and cross
files, blocks made of three files, file ends that coincide with block ends, and
adjustments other than zero as the page is larger than a byte. `PastEndLengths`
are two of the values a read behind `inputFiles.end()` can produce (the outcome
does not depend on them). `SizeModulus` stands for 2^64 and is larger than any
length, so that the unsigned subtraction wraps round as it does in the code.
For `Pcat` the command lines name the same inputs in either order, one input twice,
no input, and outputs that are an input of the same or of the other process;
files may be missing, empty or present, and the old output longer than the new.
`InPlaceKeepsContent` is about the case of an output that is also an input: a
file keeps its bytes as far as it is long enough, since it is resized and never
truncated on opening.
(With files of up to two bytes, 3.5 million states, the properties hold too.)
For the front end the 25 words are options with and without value in both
notations, flags, names, numbers in range and out of it, core lists that are
unordered, repeated or malformed, empty words and words with equals signs at the
start, at the end and twice. Three words are enough for every parse function to
meet every neighbour on both sides; masks with a gap, a full and a single bit
make the two ways the loop over a mask ends and a rank that differs from the bit.
`MaxGroups` bounds the groups, and with it how often the machine grows.
The number of chunks is bounded by `MaxChunks`, the number of queue operations by
`PushCount` and `PopCount`.

Fairness. `ThreadPool!FairSpec`: weak fairness of the main thread and of each
worker, that is, a thread that can run does run. Spurious wakeups may happen and
need not. `ThreadedQueue!FairSpec` is strong, as a thread that tries to lock a
mutex that keeps becoming free must get it at some time. `BlockLinear` and
`ChunkSpans` assume that the main thread and some worker go on, and that the
pool's `finish()` returns once all chunks have run, which the run `pool_hang`
shows the pool does not guarantee.
`Pcat!FairSpec` is weak fairness of what a process does if no call fails, with
`chunkedCopy()` returning for the same reason; failures and kills need not happen. `Affinity!Spec`: the program goes on parsing
and constructing; the machine need not grow, no call need fail and no worker need
start, and nothing is asked of them.

### What the violations show

1. **finish() can hang** (`pool_hang`). `finish()` sets the flag and notifies
   without `workMutex`. A worker that has found the predicate false and is about
   to sleep misses both and sleeps for ever; `join()` waits for it. The property
   `AwakeWorkersJoin` shows that this window is the only cause. The same window
   exists in `queue()`, where it only delays a chunk.
2. **No workers, no copy, no error** (`pool_no_workers`). If the processor list is
   empty `chunkedCopy()` of blockLinear returns 0. chunkSpans divides by zero
   instead (`DiesForAReason`).
3. **blockLinear runs past its files** (`block_linear_overrun`). If the last block
   of the output spans several input files, `operator ++` moves the iterator on
   from `inputFiles.end()`. Debug builds abort; release builds then queue empty
   chunks for ever, or report EINVAL if the total length is a multiple of the
   page. All data is written correctly (`NoWrongByte`), and
   `OverrunNeedsSharedTail` shows it happens in no other case.
4. **chunkSpans reads past file ends** (`chunk_spans_past_end`). The length of the
   next block ignores the position reached in the file. Files are safe if all but
   the last are at most one block, or whole blocks (`Tame`).
5. **chunkSpans' short form copies nothing** (`chunk_spans_short_form`).
6. **Locked inputs can be changed** (`pcat_changed`). `checkFile()` takes locks "so
   it can't be removed or changed from under us", but `openOutputFile()` asks for
   no lock on the output and the locks are advisory: another pcat process may
   resize and overwrite an input that is being read. `ZeroMeansCopied` shows that
   no other step of `main()` makes exit status 0 wrong: where no output is shared, it
   means the concatenation provided that `chunkedCopy()` keeps its contract, which
   findings 2, 4 and 5 show it does not always do.

Seen while modelling and not checked by a run. The manual page and the help text
require `-c` to name as many cores as `-t` (`man/pcat.1.md:45-47`); neither parser nor
affinity object compares the two, and `-t=1 -c=2,0,2` runs one worker on core 0
(`ProcessorsAsAsked` says what comes of any two). The manual page lets the value of an
option be separated by a space or an equals sign and forbids no character in it
(lines 76-78), but `-o a=b` is refused, as an equals sign may not start an argument.
`ParsesItsGrammar` is about the parser's own grammar, which has both peculiarities.
A `length()` that fails in `totalSize()` is added up unchecked: were it -1, the output
would be cut short with exit status 0. chunkSpans may produce more chunks than
threads (6 blocks and 4 threads give 6 chunks of one block), although the comment
says "up to threads chunks". The manual page lists `-v`, which the option table does
not have. The parser takes the token behind an option and its separator whatever it
is, so `-o =x` opens `=` and takes `x` for an input, `--output=` followed by `file`
gives an output without a name; `a==b` gives two nodes. `-o a a b` leaves `a` followed by zeros
instead of `b` and exits with 0: the length of the input `a` is read again after
the output, the same file, has been resized to the total.

## 4. What is proved

`ThreadPoolProofs` proves, for every `NumProcessors`, `MaxChunks`, `Errors` and
`StartErrors` that satisfy `PoolAssumption` (naturals, and error codes other than
zero):

| Theorem | States |
|---|---|
| `TypeCorrect` | `Spec => []TypeOK` |
| `PopNeverBlocks` | `Spec => []PopFindsWork` |
| `NoChunkTwice` | `Spec => []ChunkRunOnce` |
| `AssertReady` | `Spec => []ReadyAfterConstruct` |
| `FinishDrains` | `Spec => []PoolDestroyedIdle` |
| `TruthfulResult` | `Spec => []ExitStatus`, if there is a worker |
| `PoolImplementsService` | `Spec => ImplementsService`, if there is a worker |
| `StandsOnlyInJoin` | `Spec => []StandsInJoin`: the pool stands still only in the hang of finding 1 |
| `NobodySleepsInJoin` | `Spec => NobodyFallsAsleep`: after `notify_all()` no worker falls asleep |

`TruthfulResult` and `PoolImplementsService` need `NumProcessors # 0`; the run `pool_no_workers` shows that they
fail without it.

The argument. None of the properties is inductive. `IInv` adds who owns what:
- `MutexInv`: a worker between the predicate and the pop owns `workMutex`, so the
  queue it has seen non-empty stays non-empty (`WorkerInv`);
- `WaitInv`: `waitingThreads` is the number of workers inside the wait, which
  bounds it and, when it equals the number of workers, says that all of them
  wait (`ReadyInv`);
- `MainInv`: which phase of the main thread implies what about threads and flag;
- `ChunkInv`: the work queue holds the last chunks queued, in order; a chunk
  popped from it is held by exactly one worker or has an outcome;
- `ErrorInv`, `OriginInv`: an error is about to be pushed, in the result queue, in
  the local of `clearResultQueue()` or in the value to be returned, and each of
  these was returned by a chunk;
- `DoneInv`: both queues are empty when `chunkedCopy()` returns.

Each part has a lemma with one step per action; `Invariance` joins them. `IInv`
was checked with TLC on the instance of run `pool` before it was proved.
`PoolDestroyedIdle` includes that no thread is left running when the pool is gone,
also if the constructor could start only some of them. For the
refinement every action maps to a step of the service (`Queue` to `Submit`, `Run`
to `Execute`, `FinishReturns` to `Conclude`, `StartFails` to `Refuse`) or changes
nothing the service shows.

`StandsOnlyInJoin` is the absence of every deadlock but one. `Runnable` and
`MainRunnable` say from the guards of the actions who has a step to take (`ENABLED`
is out of the prover's reach). Where nobody has one, nobody is between predicate and
pop, so `workMutex` is free; then every worker sleeps or has left, and if the main
thread is not at its end it is in `join()` with the flag up. `NobodySleepsInJoin`
adds that by then the window has closed: the workers that sleep in a hang went to
sleep, or into the window, before `notify_all()`. The two are what remains of
`AwakeWorkersJoin` without fairness.

`ThreadedQueueProofs` proves, for any finite sets of producers and consumers and any
number of operations (`QueueAssumption`):

| Theorem | States |
|---|---|
| `QueueTypes` | `Spec => []TypeOK` |
| `FrontIsThere` | `Spec => []FrontHasValue` |
| `LengthTells` | `Spec => []LengthHonest` |
| `AskedDoesNotWait` | `Spec => []SoleConsumerNeverWaits` |
| `WakeupsKept` | `Spec => []NoLostWakeup` |
| `InPushOrder` | `Spec => []ProducerOrder` |
| `ValuesOnce` | `Spec => []EachValueOnce`: each value pushed is in the queue or with one consumer, once |
| `StandsStillEmpty` | `Spec => []StandsEmpty`: threads stand still only when all is pushed and nothing is left for who waits |

`QueueInv` says where a thread holds `queueMutex` (`MutexInv`) and that the counter
is one behind the `std::queue` exactly while a thread is between the two changes
(`LengthInv`). `NoLostWakeup` counts: a push adds one value and one producer about
to notify, a notification turns that producer into a woken consumer, and a consumer
that gives up having found nothing does so only when the counter is zero. The order
of one producer's values is inductive only for all places at once (`OrderInv`): the
values popped come before those queued (`PoppedFirst`), those are in order among
themselves (`QueueOrder`), and all of them come before the one that is about to be
pushed (`PushedBefore`).

`ValuesOnce` is what the pool model takes for granted of its two queues: nothing lost,
nothing twice, nothing invented. That no two consumers share a value is inductive
with `OrderInv`, as a value that is still queued comes after everything popped.
`StandsStillEmpty` is the safety half of `EveryPopReturns`: where no thread is
`Runnable` the mutex is free, no producer is about to notify and no consumer is
awake, so that `NoLostWakeup` leaves room for no value. `Runnable` was compared with
the `ENABLED` of the actions of each thread by TLC, on all states of a small
instance.

`CopyProofs`, `BlockLinearProofs` and `ChunkSpansProofs` prove, for every page size,
every block size that is a multiple of it, and every collection of files
(`PageSizeAssumption`, `CopyAssumption`, `SpanAssumption`):

| Theorem | States |
|---|---|
| `OffsetAlgebra` | `+=` and `length()` of `mappingOffset_t` move and set what they name and nothing else |
| `OutputRight` | blockLinear: `Spec => []NoWrongByte` |
| `BlocksRight` | blockLinear: `Spec => []BlocksInBounds` |
| `OffsetAssert` | blockLinear: `Spec => []OffsetWithinLength` |
| `ChunksDisjoint` | blockLinear: `Spec => []TasksDisjoint` |
| `ZeroIsConcatenation` | blockLinear: `Spec => []SuccessIsConcatenation` |
| `OverrunOnlyAtSharedTail` | blockLinear: `Spec => []OverrunNeedsSharedTail` |
| `NeverKilled` | blockLinear: no worker and no walk is ended by a signal |
| `LoopsRunOut` | blockLinear: `Spec => []EveryTurnShortens` |
| `ExactSpans` | chunkSpans: `Spec => []SpansExact` |
| `LongFormRight` | chunkSpans: `Spec => []LongFormConcatenates` |
| `DeathHasAReason` | chunkSpans: `Spec => []DiesForAReason` |
| `IteratorStays` | chunkSpans: `Spec => []IteratorInFiles` |
| `LoopsRunOut` | chunkSpans: `Spec => [](Tame => EveryTurnShortens)` |

The argument. A chunk is `Located` if its input side (file and position in it) and
its output side denote the same place of the concatenation. That is what every
operation of the iterators has to keep; it does so only together with how long the
next block is (`Snug` for a worker's chunk, `AtBlock` or `AtSpan` for the iterator of
the loop). `CopyInv` then carries the workers: `CopyStepKeeps` shows that
`copyChunk()` writes right bytes and stays in its mapping as long as `operator ++`
hands it chunks that fit their files, whichever algorithm it belongs to. That the
result can be trusted needs `FrontierInv`: everything the loop has handed out is
written, still in the chunk of some worker, or an error is on its way, and no chunk
reaches beyond the frontier, which makes the chunks disjoint. In blockLinear the
iterator may overrun `inputFiles` (finding 3); `Past` says that this happens at the
end of the output only, where nothing is left to write, and `SharedTail` when. In
chunkSpans the length of a block ignores the position in the file (finding 4), and
`Ready` says why this does no harm on `Tame` files: short of the last file, a file is
at most one block, or whole blocks of which the chunk is at the beginning of one. Its
properties but `IteratorInFiles` are about tame files; the invariant is
`Spec => [](Tame => Inv)`, and `IteratorStays` has an invariant of its own
(`FilesInv`) that holds for all files. Both invariants were checked with TLC on the
instances of the runs before they were proved (155 and 123 thousand states).
`LoopsRunOut` is the part of `ReturnsUnlessOverrun` and `SpansReturn` that needs no
fairness: each turn of the range-for loop, of the walk of `end()` and of the loop of
`copyChunk()` leaves strictly less of the output, of the block and of the chunk, and
never less than nothing; with nothing left the range-for loop stops, in blockLinear
unless its iterator has overrun.
Where files lie in the concatenation is given to the model as a table (`start`), each
file beginning where the one before it ends; facts about it follow from its least
counterexample (`LeastElement`).

The proof corrected one definition. `ChunkedCopy!Advance` chose with a CASE whose
arms overlap: TLC takes the first, but TLA+ leaves the choice open, and the proof
failed on the other one. The arms are now the nested conditions of the code.

`PcatProofs` proves, for any processes, files, lengths and command lines that
satisfy `PcatAssumption`:

| Theorem | States |
|---|---|
| `PcatTypes` | `Spec => []TypeOK` |
| `InputsExclusive` | `Spec => []ExclusiveInputs` |
| `WritesUnderLock` | `Spec => TouchesOnlyWhenLocked` |
| `InPlaceKept` | `Spec => InPlaceKeepsContent` |
| `ZeroIsCopied` | `Spec => []ZeroMeansCopied` |
| `NoLockLeft` | `Spec => []LocksOfTheLiving`: an ended process holds no lock, however it ended |
| `EndInSight` | `Spec => OnlyFurther`: each step brings its process nearer to its end |

The invariant `IInv` says that until `closeFiles()` the files a process has gathered
are a prefix of its arguments, all of them once it copies (`PrefixInv`), and that it
holds the lock of each (`HeldInv`). `OthersKeep` shows that a step of one process
takes no lock from another, `OwnPrefix` that a process keeps its own up to
`closeFiles()`. `StoreInv` adds that the files whose length or bytes are used exist
(`PresentInv`): `checkFile()` saw them, `openOutputFile()` made the output, and no
step removes a file (`StoreStays`). `Writes` lists the only three ways in which a
file changes. For an output in place, `RoomInv` says that what `totalSize()` returned
is at least the length of the output, which holds because the concatenation begins
with its first input (`FlattenBegins`), and for the same reason `CopyByte` copies
each byte of it onto itself. For exit status 0, `OnItsWay` says at each place of
`main()` how far the output is: total and length are those of the concatenation, and
the bytes that are not left to do are right; the concatenation itself does not
change as nobody writes to an input (`UnsharedStays`).

`NoLockLeft` and `EndInSight` are the parts of `AllExit` that need no fairness. A
process that returns from the middle of `gatherFiles()` does not call
`closeFiles()`, so that its locks are gone only because its descriptors are closed at
its end. `Further` orders the places of `main()`: a step, whether its calls succeed
or fail, leads to a later place, or to the next argument, or leaves fewer of finitely
many bytes or fewer files to unlock, and a step of another process changes none of
these (`TodoMoves`, `StepFurther`). As no lock is waited for, two processes that want
each other's files give up or go on, and cannot hold each other up for ever.

`FrontEndProofs` proves, for every option table, command line and machine that
satisfy `ArgsAssumption` and `AffinityAssumption`:

| Theorem | States |
|---|---|
| `FrontEndTypes` | `Spec => []TypeOK` |
| `FilesAreWords` | `Spec => []InputsAreWords` |
| `GrammarFollowed` | `Spec => []ParsesItsGrammar` |
| `OnlyUsableLimits` | `Spec => []LimitsUsable` |
| `WorkersOnOwnProcessors` | `Spec => []WorkersApart` |
| `AsAsked` | `Spec => []ProcessorsAsAsked` |
| `FrontEndGetsOn` | `Spec => GetsOn`: every turn of the parser and of the loops over the masks gets on |

`ParserInv` says that the tokenizer is inside the words (`LexerOK`, kept by every
`next()`: `NextOK`) and that the tree is usable (`UsableIsGood`: what the parse
functions ask of the result of a conversion holds exactly if the text itself is good,
so that no piece of a list is dropped); `AddKeeps` and `RefuseKeeps` reduce
every outcome of `parseArgument()` to two cases.

Both properties of what the parser makes of the words rest on where the tokenizer is
when `parseArguments()` looks at its token. `WordsInv`: it is where a word begins, or
at the equals sign behind a word's text, and the files so far are words ahead of that
place, in order; so the next one is behind them. `GrammarInv`: the words ahead of the
tokenizer have been read as the grammar says, and the tokenizer is at a name. The
alternation of names and values is the recursive function `IsValue`;
`GrammarInv` speaks instead of every set that has the property of being the names
(`NamesTo`), of which there is one (`NamesExist`, by the least counterexample), and
`GrammarFollowed` puts the complement of `IsValue` in for it. The case to get right
is the value of an option: it is the token behind the separator, space or equals sign,
and `next()` has to be called once more behind it, while a flag takes one call.
What a command line is
assumed to be (`ArgsAssumption`) is a list of words that are split at their equals
signs: of two neighbouring texts of a word one is `=`.

For the workers the list must be
known to be strictly ascending (`ListInv`), which is inductive only together with
where the scan is: all processors found are before `<<group, bit>>`, the Linux mask
being cleared is part of the machine's, the Windows copy is the machine's
(`ScanInv`). Both loops are instances of one lemma, `ScanTurn`. A worker that could
not be pinned may run anywhere; that it is not thereby on another's processor
alone follows because a machine with two listed processors has more than one.

`AsAsked` needs more than the order: `AskedInv` says that the list is the lowest of
the allowed processors passed so far, cut at the cap (`Lowest`), that on Linux the
bits from the position on are those not yet cleared, and that on Windows `seen` is
the number of processors passed, which is what `-c` numbers them by. `PassOne` shows
that a turn of either loop passes one processor or none, also when it skips the rest
of a mask because no bit is left.

`FrontEndGetsOn` is the part of `FrontEndEnds` that needs no fairness: a call of
`parseArgument()` that does not end the parse leaves the tokenizer strictly further on
and inside the words, `retrieveProcessorInfo()` asks again only with a larger buffer,
of at most `MaxGroups` records, and a turn of `ScanMask` or `ScanGroups` moves the
scan ahead within the masks.

Only model-checked: the liveness properties `AwakeWorkersJoin`, `EveryPopReturns`,
`ReturnsUnlessOverrun`, `SpansReturn`, `AllExit` and `FrontEndEnds`. Fairness is
defined by `ENABLED`, which the prover does not expand, so that nothing follows from
it. Their safety halves (nobody is stuck, everything gets on) are the theorems named
above; what TLC adds is that threads which can run do. Every other property of the
passing runs is stated by a theorem. `IsValue`, `NodeOf` and
`Acceptable` state the parser's own grammar word by word; where it departs from the
manual page is told in section 3.

## 5. What is not modelled

- Windows: its mappings and the missing file locks. A mapping that fails there
  does not set `errno`, which `copyChunk()` returns.
- Programs other than pcat that change or remove the input files. An output file
  that is one of the inputs is modelled in `Pcat` only; the algorithms are modelled
  on files of fixed length.
- The records behind the group record in what Windows returns: the loop over them
  reads the tail of that one record, in which nothing looks like another.
- `pageSize` is taken to be the page size of the host.
- A `length()` of an open descriptor that fails after `checkFile()`: in `totalSize()`
  and in the iterators it is taken to return the length.
- `madvise()` other than its failure, console output, the texts of help and version.
- The templates of `src/utils` (spans, iterators, casts): they have no state of
  their own, and what they compute is part of the definitions that use them.
- The two 32-bit and 64-bit widths, except where `std::size_t` arithmetic wraps.

## 6. Plan

Every part of the plan that the tools can reach is done. What would come next:
1. the Windows half of `mmap_t` and of `main()`, with its error codes, beside
   `CopyChunk` and `Pcat`;
2. an implementation of the two queues of `ThreadPool` by `ThreadedQueue`, which is
   now two results that fit together (`ValuesOnce` and `InPushOrder` there, the
   atomic queues here) and not a refinement;
3. the liveness properties, once a prover handles `ENABLED`.
