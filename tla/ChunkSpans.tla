----------------------------- MODULE ChunkSpans -----------------------------
(***************************************************************************)
(* The chunkSpans algorithm (src/algorithm/chunkSpans): the output file is *)
(* cut into spans of whole transfer blocks, meant to be one per worker,    *)
(* and each chunkState_t walks the input files below its span block by     *)
(* block.                                                                  *)
(***************************************************************************)
EXTENDS ChunkedCopy

CONSTANTS
    ProcessorCounts,   \* what affinity.numProcessors() can be
    SizeModulus        \* one more than the largest std::size_t

ASSUME SpanAssumption ==
    /\ ProcessorCounts \subseteq Nat
    /\ SizeModulus \in Nat \ {0}

VARIABLES
    numProcessors,     \* copyThreads.numProcessors()
    spanLength         \* chunking_t::spanLength

spanVars == <<numProcessors, spanLength>>
vars == <<copyVars, loopVars, spanVars>>

-----------------------------------------------------------------------------
(* chunkState_t                                                            *)

\* Mutant: a block is not limited by what is left of the span.
BlockAfter_PastSpan(remainder, len) == Minimum(TransferBlockSize, len)

\* chunkState_t::nextInputBlock(): the length of the next block.
BlockAfter(remainder, len) == Minimum(TransferBlockSize, Minimum(remainder, len))

\* chunkState_t::nextInputBlock()
NextInputBlock(chunk, remainder) ==
    LET in   == Plus(chunk.inputOffset, length(chunk.inputOffset))
        over == offset(in) = chunk.inputLength
        file == IF over THEN chunk.file + 1 ELSE chunk.file
        len  == IF over THEN FileLength(file) ELSE chunk.inputLength
    IN ChunkState(file, len,
           WithLength(IF over THEN NoOffset ELSE in, BlockAfter(remainder, len)),
           chunk.outputOffset)

\* chunkState_t::operator ++
Increment(chunk) ==
    LET used      == length(chunk.inputOffset)
        remainder == length(chunk.outputOffset) - used
        out       == WithLength(Plus(chunk.outputOffset, used), remainder)
    IN IF atEnd(chunk) THEN chunk
       ELSE NextInputBlock([chunk EXCEPT !.outputOffset = out], remainder)

-----------------------------------------------------------------------------
(* chunking_t and chunkedCopy()                                            *)

spanOf(len) == Minimum(spanLength, len)

Init ==
    /\ CopyInit
    /\ mainPc = "start"
    /\ iter = Begin(0)
    /\ walk = iter
    /\ status = "ok"
    /\ numProcessors \in ProcessorCounts
    /\ spanLength = 0

\* chunkedCopy(): at most one block per worker, and it returns 0 at once.
ShortForm == TransferBlockSize * numProcessors >= outputLength

\* chunkedCopy() up to its loop.  Without workers it divides by zero (SIGFPE).
Start ==
    /\ mainPc = "start"
    /\ \/ /\ ShortForm
          /\ mainPc' = "finish"
          /\ UNCHANGED <<copyVars, iter, walk, status, spanVars>>
       \/ /\ ~ShortForm /\ numProcessors = 0
          /\ killed' = TRUE
          /\ UNCHANGED <<files, output, tasks, failed, loopVars, spanVars>>
       \/ /\ ~ShortForm /\ numProcessors > 0
          /\ LET perSpan == outputLength \div (TransferBlockSize * numProcessors)
             IN spanLength' = perSpan * TransferBlockSize
          /\ iter' = Begin(Minimum(spanLength', outputLength))
          /\ mainPc' = "test"
          /\ UNCHANGED <<copyVars, walk, status, numProcessors>>

\* Mutant: the tail shorter than two spans is cut after one.
SpanAt_NoTail(position) == IF position = outputLength THEN 0 ELSE spanLength

\* chunking_t::operator ++: the length of the span at a position.  The middle
\* test is made in std::size_t and wraps round below one span.
SpanAt(position) ==
    IF position = outputLength THEN 0
    ELSE IF (outputLength - position - spanLength) % SizeModulus < spanLength
         THEN outputLength - position
         ELSE spanOf(outputLength - position)

\* chunking_t::operator ++: the output side moves on by one span.
NextOutput ==
    LET out == Plus(iter.outputOffset, length(iter.outputOffset)) IN
    WithLength(out, SpanAt(offset(out)))

\* chunking_t::nextInputBlock()
InputAfter ==
    LET in   == Plus(iter.inputOffset, length(iter.inputOffset))
        over == offset(in) = iter.inputLength
        file == IF over THEN iter.file + 1 ELSE iter.file
        len  == IF over THEN FileLength(file) ELSE iter.inputLength
        pos  == IF over THEN NoOffset ELSE in
    IN ChunkState(file, len, WithLength(pos, blockLength(len - offset(pos))), iter.outputOffset)

\* Mutant: the input side moves on even past the end of inputFiles.
Step_Unguarded ==
    /\ mainPc = "step"
    /\ iter' = [InputAfter EXCEPT !.outputOffset = NextOutput]
    /\ mainPc' = "test"
    /\ UNCHANGED <<copyVars, walk, status, spanVars>>

\* chunking_t::operator ++: both sides move on, the input side only inside
\* inputFiles.
Step ==
    /\ mainPc = "step"
    /\ iter' = [(IF iter.file # End THEN InputAfter ELSE iter)
                    EXCEPT !.outputOffset = NextOutput]
    /\ mainPc' = "test"
    /\ UNCHANGED <<copyVars, walk, status, spanVars>>

Main ==
    \/ Start \/ Step
    \/ (Loop \/ Walk(Increment(walk))) /\ UNCHANGED spanVars

Workers ==
    /\ \E t \in tasks : CopyStep(t, Increment(t.chunk))
    /\ UNCHANGED <<loopVars, spanVars>>

Next == \/ ~killed /\ (Main \/ Workers)
        \/ Ended /\ UNCHANGED vars

\* The main thread and the workers keep running.
Fairness == WF_vars(~killed /\ Main) /\ WF_vars(~killed /\ Workers)

Spec == Init /\ [][Next]_vars
FairSpec == Spec /\ Fairness

-----------------------------------------------------------------------------
(* Properties                                                              *)

\* The files the algorithm handles: every file but the last is at most one
\* transfer block, or every file but the last is whole blocks.
Tame ==
    LET inner == 1..Len(files.length) - 1 IN
    \/ \A f \in inner : files.length[f] <= TransferBlockSize
    \/ \A f \in inner : files.length[f] % TransferBlockSize = 0

\* On tame files no worker ever reads past the end of a file or writes outside
\* its span, no two spans overlap, and the output never holds a wrong byte,
\* whatever the interleaving and whichever system calls fail.
SpansExact == Tame => BlocksInBounds /\ TasksDisjoint /\ NoWrongByte

\* On tame files a zero result of the long form means that the output file is
\* the concatenation of the input files.
LongFormConcatenates == Tame /\ ~ShortForm => SuccessIsConcatenation

\* The iterator never leaves inputFiles, whatever the files: operator ++ of
\* this algorithm tests for the end first.
IteratorInFiles == iter.file <= End

\* The process dies only without workers or on files that are not tame.
DiesForAReason == killed => numProcessors = 0 \/ ~Tame

\* On tame files chunkedCopy() returns (or dies without workers), given that
\* the thread pool's finish() does.
SpansReturn == Tame ~> Ended

\* The output never holds a byte read past the end of an input file: what
\* checkCopyResult() of the tests compares.
NoFiller == \A o \in DOMAIN output : output[o] # Filler
=============================================================================
