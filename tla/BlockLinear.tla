----------------------------- MODULE BlockLinear -----------------------------
(***************************************************************************)
(* The blockLinear algorithm (src/algorithm/blockLinear): chunkedCopy()    *)
(* walks the output file in blocks of transferBlockSize with a chunking_t  *)
(* iterator, and each chunkState_t it queues walks the input files below   *)
(* that block.                                                             *)
(***************************************************************************)
EXTENDS ChunkedCopy

CONSTANT PastEndLengths
    \* what length() can return on the descriptor past inputFiles.end(),
    \* memory that holds no fd_t

ASSUME PastEndAssumption == PastEndLengths \subseteq Int /\ PastEndLengths # {}

vars == <<copyVars, loopVars>>

-----------------------------------------------------------------------------
(* chunkState_t                                                            *)

\* Mutant: what is left of the file does not limit the block.
BlockAfter_Unlimited(remainder, len) == remainder

\* chunkState_t::nextInputBlock(): the length of the next block.
BlockAfter(remainder, len) == Minimum(remainder, len)

\* chunkState_t::nextInputBlock()
NextInputBlock(chunk, remainder) ==
    LET in   == Plus(chunk.inputOffset, length(chunk.inputOffset))
        over == offset(in) = chunk.inputLength
        file == IF over THEN chunk.file + 1 ELSE chunk.file
        len  == IF over THEN FileLength(file) ELSE chunk.inputLength
    IN ChunkState(file, len,
           WithLength(IF over THEN NoOffset ELSE in, BlockAfter(remainder, len)),
           chunk.outputOffset)

\* Mutant: what is left of the chunk is not updated.
Increment_KeepsRemainder(chunk) ==
    LET out == Plus(chunk.outputOffset, length(chunk.inputOffset)) IN
    IF atEnd(chunk) THEN chunk
    ELSE NextInputBlock([chunk EXCEPT !.outputOffset = out], length(out))

\* chunkState_t::operator ++
Increment(chunk) ==
    LET used      == length(chunk.inputOffset)
        remainder == length(chunk.outputOffset) - used
        out       == WithLength(Plus(chunk.outputOffset, used), remainder)
    IN IF atEnd(chunk) THEN chunk
       ELSE NextInputBlock([chunk EXCEPT !.outputOffset = out], remainder)

-----------------------------------------------------------------------------
(* chunking_t and chunkedCopy()                                            *)

Init ==
    /\ CopyInit
    /\ mainPc = "test"
    /\ iter = Begin(blockLength(outputLength))
    /\ walk = iter
    /\ status = "ok"

\* Mutant: the output side moves on by what the input side used.
NextOutput_ByInput ==
    LET out == Plus(iter.outputOffset, length(iter.inputOffset)) IN
    WithLength(out, blockLength(outputLength - offset(out)))

\* Mutant: the blocks after the first are one byte short.
NextOutput_OffByOne ==
    LET out == Plus(iter.outputOffset, length(iter.outputOffset)) IN
    WithLength(out, Minimum(TransferBlockSize - 1, outputLength - offset(out)))

\* chunking_t::operator ++: the output side moves on by one block.
NextOutput ==
    LET out == Plus(iter.outputOffset, length(iter.outputOffset)) IN
    WithLength(out, blockLength(outputLength - offset(out)))

\* chunking_t::nextInputBlock() within a file, or into the next one.  Past
\* inputFiles.end() the length is whatever that memory makes of it.
Step ==
    /\ mainPc = "step"
    /\ LET in   == Plus(iter.inputOffset, length(iter.inputOffset))
           over == offset(in) = iter.inputLength
           file == IF over THEN iter.file + 1 ELSE iter.file
           pos  == IF over THEN NoOffset ELSE in
       IN \E len \in IF ~over THEN {iter.inputLength}
                     ELSE IF file <= End THEN {FileLength(file)}
                     ELSE PastEndLengths :
             iter' = ChunkState(file, len,
                         WithLength(pos, blockLength(len - offset(pos))), NextOutput)
    /\ mainPc' = "test"
    /\ UNCHANGED <<copyVars, walk, status>>

Main == Loop \/ Walk(Increment(walk)) \/ Step

Workers ==
    /\ \E t \in tasks : CopyStep(t, Increment(t.chunk))
    /\ UNCHANGED loopVars

Next == \/ ~killed /\ (Main \/ Workers)
        \/ Ended /\ UNCHANGED vars

\* The main thread and each worker keep running.
Fairness == WF_vars(~killed /\ Main) /\ WF_vars(~killed /\ Workers)

Spec == Init /\ [][Next]_vars
FairSpec == Spec /\ Fairness

-----------------------------------------------------------------------------
(* Properties                                                              *)

\* assert(file != inputFiles.end()) in chunking_t::nextInputBlock().
StepStaysInFiles ==
    mainPc = "step" /\ offset(Plus(iter.inputOffset, length(iter.inputOffset))) = iter.inputLength
        => iter.file # End

\* The iterator has left inputFiles.
Overrun == iter.file > End

\* The iterator leaves inputFiles only if the last block of the output begins
\* before the last input file does.
OverrunNeedsSharedTail ==
    Overrun => outputLength - 1 - ((outputLength - 1) % TransferBlockSize)
                   < files.start[End - 1]

\* chunkedCopy() returns unless its iterator overruns inputFiles.
ReturnsUnlessOverrun == <>(mainPc = "done" \/ Overrun)
=============================================================================
