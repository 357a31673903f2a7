------------------------------ MODULE CopyChunk ------------------------------
(***************************************************************************)
(* copyChunk() (src/copyChunk.hxx) on the chunks in flight, with the parts *)
(* of mmap_t (src/mmap.hxx) it uses.  The chunking algorithms extend this  *)
(* module.                                                                 *)
(*                                                                         *)
(* `tasks' holds the chunks handed to the thread pool and not yet          *)
(* finished; they run concurrently and in any order, which is what         *)
(* CopyService allows and ThreadPool implements.  A task ends when its     *)
(* result is pushed.  Two chunks never are the same record, except empty   *)
(* ones, for which a set is enough.                                        *)
(*                                                                         *)
(* Data is abstracted to its origin: byte p of file f is the number        *)
(* start[f] + p, its place in the concatenation, so the output is right    *)
(* where output[o] = o.                                                    *)
(***************************************************************************)
EXTENDS MappingOffset, Sequences, FiniteSets

CONSTANTS
    TransferBlockSize,  \* transferBlockSize of src/chunking.hxx
    FileSets            \* the collections of input files considered

\* A collection of input files: the length of each (checkFile() rejects empty
\* files) and where each starts in the concatenation.
WellFormed(fs) ==
    /\ fs.length \in Seq(Nat \ {0})
    /\ fs.start \in [1..Len(fs.length) + 1 -> Nat]
    /\ fs.start[1] = 0
    /\ \A f \in 1..Len(fs.length) : fs.start[f + 1] = fs.start[f] + fs.length[f]

ASSUME CopyAssumption ==
    /\ TransferBlockSize \in Nat \ {0}
    /\ TransferBlockSize % PageSize = 0
    /\ \A fs \in FileSets : WellFormed(fs)

VARIABLES
    files,     \* inputFiles: fixed once gathered and locked
    output,    \* the output file: the origin of each byte
    tasks,     \* the chunks being copied
    failed,    \* a non-zero result waits in the result queue
    killed     \* a signal has ended the process, or it is in undefined territory

copyVars == <<files, output, tasks, failed, killed>>

Unwritten == -1    \* resize() left a hole here
Filler    == -2    \* a byte past a file's end, read through its last page

End == Len(files.length) + 1                  \* inputFiles.end()
FileLength(f) == IF f \in 1..Len(files.length) THEN files.length[f] ELSE 0
outputLength == files.start[End]              \* outputFile.length()
Minimum(a, b) == IF a <= b THEN a ELSE b
blockLength(len) == Minimum(TransferBlockSize, len)

CopyInit ==
    /\ files \in FileSets
    /\ output = [o \in 0..outputLength - 1 |-> Unwritten]
    /\ tasks = {}
    /\ failed = FALSE
    /\ killed = FALSE

\* chunkState_t: the input position and what is left of the output range.
ChunkState(file, inputLength, inputOffset, outputOffset) ==
    [file |-> file, inputLength |-> inputLength,
     inputOffset |-> inputOffset, outputOffset |-> outputOffset]

atEnd(chunk) == length(chunk.outputOffset) = 0

\* A chunk as the pool's work queue holds it.
NewTask(chunk) ==
    [chunk |-> chunk, phase |-> "map", base |-> 0, size |-> 0, offset |-> 0,
     outputLength |-> length(chunk.outputOffset)]

\* The same chunk with its output range mapped: size bytes from base on, of
\* which copyChunk() has reached the one at position.
Mapped(t, chunk, base, size, position) ==
    [chunk |-> chunk, phase |-> "copy", base |-> base, size |-> size, offset |-> position,
     outputLength |-> t.outputLength]

\* A task returns: its result is pushed.
Return(t, result) ==
    /\ tasks' = tasks \ {t}
    /\ failed' = (failed \/ result # 0)

\* copyChunk(): map the output range.  An empty range that starts on a page
\* boundary cannot be mapped (EINVAL).
MapOutput(t) ==
    /\ t.phase = "map"
    /\ LET out == t.chunk.outputOffset IN
       IF adjustedLength(out) = 0
       THEN Return(t, 22)
       ELSE /\ tasks' = (tasks \ {t}) \cup
                  {Mapped(t, t.chunk, adjustedOffset(out), adjustedLength(out), adjustment(out))}
            /\ UNCHANGED failed
    /\ UNCHANGED <<files, output, killed>>

\* What is at position p of file f: reading past the end gives zeros up to the
\* end of the page.
ByteAt(f, p) == IF p < FileLength(f) THEN files.start[f] + p ELSE Filler

\* len rounded up to whole pages.
PagesOf(len) == len + ((PageSize - (len % PageSize)) % PageSize)

\* Past the last page of a file there is nothing to read (SIGBUS).
Faults(f, p) == p >= PagesOf(FileLength(f))

\* memcpy() of len bytes from position p of file f to position o of the output.
Copied(f, p, o, len) ==
    [i \in DOMAIN output |->
        IF o <= i /\ i < o + len THEN ByteAt(f, p + (i - o)) ELSE output[i]]

\* Mutant: the destination is not advanced to the chunk's first byte.
Destination_IgnoresOffset(t) == t.base

\* Where in the output file copyTo() writes.
Destination(t) == t.base + t.offset

\* copyChunk(): one turn of the loop maps a block of an input file, copies it
\* and moves the chunk on to next, what its operator ++ gives.  mmap() or index() refuses an
\* empty or negative block.  A block that leaves the pages of the file or of
\* the output mapping ends the run: usually SIGBUS or SIGSEGV, and if other
\* memory happens to follow the mapping nothing can be said any more.
CopyBlock(t, next) ==
    /\ t.phase = "copy"
    /\ ~atEnd(t.chunk)
    /\ LET in      == t.chunk.inputOffset
           len     == length(in)
           refused == len <= 0 \/ t.offset >= t.size
           faults  == \/ Faults(t.chunk.file, offset(in) + len - 1)
                      \/ t.offset + len > PagesOf(t.size)
       IN \/ /\ refused
             /\ Return(t, 22)
             /\ UNCHANGED <<files, output, killed>>
          \/ /\ ~refused /\ faults
             /\ killed' = TRUE
             /\ UNCHANGED <<files, output, tasks, failed>>
          \/ /\ ~refused /\ ~faults
             /\ output' = Copied(t.chunk.file, offset(in), Destination(t), len)
             /\ tasks' = (tasks \ {t}) \cup {Mapped(t, next, t.base, t.size, t.offset + len)}
             /\ UNCHANGED <<files, failed, killed>>

\* copyChunk(): the range is copied and synchronised.
Synchronise(t) ==
    /\ t.phase = "copy"
    /\ atEnd(t.chunk)
    /\ Return(t, 0)
    /\ UNCHANGED <<files, output, killed>>

\* A system call of copyChunk() fails: mmap(), madvise() or msync().
SystemCallFails(t) ==
    /\ Return(t, 5)
    /\ UNCHANGED <<files, output, killed>>

CopyStep(t, next) ==
    MapOutput(t) \/ CopyBlock(t, next) \/ Synchronise(t) \/ SystemCallFails(t)

-----------------------------------------------------------------------------
(* Properties of every algorithm                                           *)

Left(t) == length(t.chunk.outputOffset)
Position(t) == offset(t.chunk.outputOffset)

\* No byte of the output file ever holds anything but the byte of the inputs
\* that belongs there, whatever the interleaving of the workers and whichever
\* system calls fail.
NoWrongByte == \A o \in DOMAIN output : output[o] \in {Unwritten, o}

\* Every block a worker maps lies inside one input file, is not empty and fits
\* into what is left of its chunk: no read past the end of a file, no write
\* past the end of the mapping (the assert in mmap_t::copyTo()).
BlocksInBounds ==
    \A t \in tasks : ~atEnd(t.chunk) =>
        LET in == t.chunk.inputOffset IN
        /\ t.chunk.file \in 1..Len(files.length)
        /\ length(in) > 0
        /\ offset(in) + length(in) <= files.length[t.chunk.file]
        /\ length(in) <= Left(t)
        /\ t.phase = "copy" => length(in) <= t.size - t.offset

\* assert(offset <= outputLength) in copyChunk(), after each block: offset
\* counts from the start of the mapping and outputLength does not, so it holds
\* only because every chunk starts on a page boundary of the output.
OffsetWithinLength ==
    \A t \in tasks : t.phase = "copy" /\ ~atEnd(t.chunk) =>
        t.offset + length(t.chunk.inputOffset) <= t.outputLength

\* Two workers never have the same byte of the output to write.
TasksDisjoint ==
    \A s, t \in tasks : s # t =>
        \/ Position(s) + Left(s) <= Position(t)
        \/ Position(t) + Left(t) <= Position(s)
=============================================================================
