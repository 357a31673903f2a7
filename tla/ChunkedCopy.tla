----------------------------- MODULE ChunkedCopy -----------------------------
(***************************************************************************)
(* The loop of chunkedCopy() that both algorithms have in common: a        *)
(* range-for over the output file with a chunking_t iterator, queueing one *)
(* chunk per turn and giving up at the first failure it hears of.  Each    *)
(* algorithm brings its own chunkState_t and chunking_t operators.         *)
(*                                                                         *)
(* The asserts are compiled out, as in the release build: where one would  *)
(* fail the code simply goes on.  They are stated as properties instead.   *)
(***************************************************************************)
EXTENDS CopyChunk

VARIABLES
    mainPc,    \* where chunkedCopy() is
    iter,      \* the chunking_t of the range-for loop
    walk,      \* the local of chunkState_t::end()
    status     \* "error" once chunkedCopy() is bound to fail

loopVars == <<mainPc, iter, walk, status>>

\* chunking_t at the start of the files, with an output range of len bytes.
Begin(len) ==
    ChunkState(1, FileLength(1), MappingOffset(0, blockLength(FileLength(1))),
               MappingOffset(0, len))

\* Mutant: the loop stops at the last file instead of past it.
AtLoopEnd_LastFile == iter.file >= End - 1

\* chunking_t::operator == against fileChunker_t::end()
AtLoopEnd ==
    /\ iter.file = End
    /\ offset(iter.inputOffset) = 0
    /\ offset(iter.outputOffset) = outputLength

\* The range-for loop ends: finish() follows.
LoopEnds ==
    /\ mainPc = "test"
    /\ AtLoopEnd
    /\ mainPc' = "finish"
    /\ UNCHANGED <<copyVars, iter, walk, status>>

\* The loop queues the chunk below the iterator.
QueueChunk ==
    /\ mainPc = "test"
    /\ ~AtLoopEnd
    /\ tasks' = tasks \cup {NewTask(iter)}
    /\ mainPc' = "collect"
    /\ UNCHANGED <<files, output, failed, killed, iter, walk, status>>

\* queue() returns what the result queue holds; a failure ends the loop.
Collect ==
    /\ mainPc = "collect"
    /\ failed' = FALSE
    /\ status' = IF failed THEN "error" ELSE status
    /\ mainPc' = IF failed THEN "finish" ELSE "advance"
    /\ UNCHANGED <<files, output, tasks, killed, iter, walk>>

\* Mutant: a chunk inside one file is walked to its end too.
Advance_AlwaysWalks ==
    /\ mainPc = "advance"
    /\ walk' = iter
    /\ mainPc' = IF offset(iter.outputOffset) = outputLength THEN "test" ELSE "walk"
    /\ UNCHANGED <<copyVars, iter, status>>

\* chunking_t::operator ++: nothing to do at the end of the output; a chunk
\* that reaches beyond its first input block is walked to its end.
Advance ==
    /\ mainPc = "advance"
    /\ walk' = iter
    /\ mainPc' = IF offset(iter.outputOffset) = outputLength THEN "test"
                 ELSE IF length(iter.outputOffset) # length(iter.inputOffset) THEN "walk"
                 ELSE "step"
    /\ UNCHANGED <<copyVars, iter, status>>

\* chunkState_t::end(): one turn of its loop, to what ++ gives.  Once the walk leaves inputFiles
\* it reads memory that holds no descriptor, and the run is over.
Walk(next) ==
    /\ mainPc = "walk"
    /\ ~atEnd(walk)
    /\ walk' = next
    /\ killed' = (next.file > End)
    /\ UNCHANGED <<files, output, tasks, failed, mainPc, iter, status>>

\* chunking_t::operator ++: the input side takes over where end() stopped.
WalkEnds ==
    /\ mainPc = "walk"
    /\ atEnd(walk)
    /\ iter' = [walk EXCEPT !.outputOffset = iter.outputOffset]
    /\ mainPc' = "step"
    /\ UNCHANGED <<copyVars, walk, status>>

\* finish() or the pool's destructor: every chunk has been run.
Finish ==
    /\ mainPc = "finish"
    /\ tasks = {}
    /\ status' = IF failed THEN "error" ELSE status
    /\ mainPc' = "done"
    /\ UNCHANGED <<copyVars, iter, walk>>

Loop == LoopEnds \/ QueueChunk \/ Collect \/ Advance \/ WalkEnds \/ Finish

Ended == mainPc = "done" \/ killed

-----------------------------------------------------------------------------
(* Properties of both algorithms                                           *)

\* A zero result of chunkedCopy() means that the output file is the
\* concatenation of the input files, byte for byte.
SuccessIsConcatenation ==
    mainPc = "done" /\ status = "ok" => \A o \in DOMAIN output : output[o] = o
=============================================================================
