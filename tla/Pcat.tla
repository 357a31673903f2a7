-------------------------------- MODULE Pcat --------------------------------
(***************************************************************************)
(* main() of src/pcat.cxx, run by several pcat processes at once on one    *)
(* file system: gather and lock the input files, open and size the output, *)
(* copy, unlock, exit.  A step is one access to what processes share.      *)
(*                                                                         *)
(* A file is the sequence of its bytes, a byte is the name of the file it  *)
(* came from, Zero is what ftruncate() fills in.  lockFile() takes an      *)
(* fcntl() record lock: it belongs to the process, is advisory, and is     *)
(* dropped when the process closes ANY descriptor of that file.  (The      *)
(* flock() with LOCK_MAND next to it conflicts with nothing.)  A process   *)
(* may be killed at any time, and any system call may fail, except that    *)
(* length() of a file that checkFile() or openOutputFile() has opened is   *)
(* taken to succeed: totalSize() adds up whatever it returns.              *)
(*                                                                         *)
(* chunkedCopy() is what the modules below it establish: bytes are copied  *)
(* one by one in any order, or it fails; that blockLinear and chunkSpans   *)
(* do not always return or copy is the subject of BlockLinear, ChunkSpans  *)
(* and ThreadPool.                                                         *)
(***************************************************************************)
EXTENDS Integers, Sequences, SequencesExt

CONSTANTS
    Procs,      \* the pcat processes
    Files,      \* file names
    Commands,   \* the command lines they may have been given
    MaxLength,  \* bound: the longest file at the start
    Missing,    \* the content of a file that does not exist
    NoFile,     \* no -o option
    NoProc,     \* nobody holds the lock
    Zero        \* the byte of a hole

\* What parseArguments() and args->find() make of a command line.
CommandLines == [parsed : BOOLEAN, version : BOOLEAN, help : BOOLEAN,
                 inputs : Seq(Files), output : Files \cup {NoFile}]

ASSUME PcatAssumption ==
    /\ MaxLength \in Nat
    /\ Commands \subseteq CommandLines
    /\ NoProc \notin Procs
    /\ NoFile \notin Files
    /\ Zero \notin Files
    /\ Missing \notin Seq(Files \cup {Zero})

VARIABLES
    command,     \* the command line of each process
    store,       \* the content of each file
    locks,       \* the process that holds the write lock of each file
    pc,          \* where each process is in main()
    inputFiles,  \* the input files each process holds open and has yet to unlock
    total,       \* what totalSize() returned
    todo,        \* the bytes of the output that chunkedCopy() has yet to write
    ret          \* what main() returns

vars == <<command, store, locks, pc, inputFiles, total, todo, ret>>

Contents == Seq(Files \cup {Zero})
Pcs == {"parse", "gather", "lock", "output", "size", "resize", "begin", "copy",
        "close", "exit", "exited", "killed"}

TypeOK ==
    /\ command \in [Procs -> Commands]
    /\ store \in [Files -> Contents \cup {Missing}]
    /\ locks \in [Files -> Procs \cup {NoProc}]
    /\ pc \in [Procs -> Pcs]
    /\ inputFiles \in [Procs -> Seq(Files)]
    /\ total \in [Procs -> Nat]
    /\ todo \in [Procs -> SUBSET Nat]
    /\ ret \in [Procs -> {0, 1}]

Init ==
    /\ command \in [Procs -> Commands]
    /\ \E present \in SUBSET Files, len \in [Files -> 0..MaxLength] :
          store = [f \in Files |-> IF f \in present THEN [i \in 1..len[f] |-> f]
                                   ELSE Missing]
    /\ locks = [f \in Files |-> NoProc]
    /\ pc = [p \in Procs |-> "parse"]
    /\ inputFiles = [p \in Procs |-> <<>>]
    /\ total = [p \in Procs |-> 0]
    /\ todo = [p \in Procs |-> {}]
    /\ ret = [p \in Procs |-> 0]

-----------------------------------------------------------------------------
inputs(p) == command[p].inputs
output(p) == command[p].output

Goto(p, where) == pc' = [pc EXCEPT ![p] = where]

\* main() is about to return r from where p is.
Leave(p, where, r) == Goto(p, where) /\ ret' = [ret EXCEPT ![p] = r]

\* The locks after p has closed or unlocked the files in F.
Released(p, F) == [f \in Files |-> IF f \in F /\ locks[f] = p THEN NoProc ELSE locks[f]]

\* The command line is refused, or asks for help or the version and no more,
\* or a copy begins.
Parse(p) ==
    /\ pc[p] = "parse"
    /\ LET c == command[p]
           refused == ~c.parsed \/ (c.version /\ c.help)
           asked   == c.version \/ c.help
       IN  \/ refused /\ Leave(p, "exit", 1)
           \/ ~refused /\ asked /\ Leave(p, "exit", 0)
           \/ ~refused /\ ~asked /\ c.output = NoFile /\ Leave(p, "exit", 1)
           \/ ~refused /\ ~asked /\ c.output # NoFile /\ Goto(p, "gather") /\ UNCHANGED ret
    /\ UNCHANGED <<command, store, locks, inputFiles, total, todo>>

\* The argument checkFile() is called with.
NextInput(p) == inputs(p)[Len(inputFiles[p]) + 1]

\* checkFile() opens the next argument and looks at its length.  An empty file
\* is closed again and main() returns.
Check(p) ==
    /\ pc[p] = "gather"
    /\ Len(inputFiles[p]) < Len(inputs(p))
    /\ IF store[NextInput(p)] \in {Missing, <<>>}
       THEN Leave(p, "exit", 1) /\ locks' = Released(p, {NextInput(p)})
       ELSE Goto(p, "lock") /\ UNCHANGED <<locks, ret>>
    /\ UNCHANGED <<command, store, inputFiles, total, todo>>

\* F_SETLK does not wait: the lock is granted or refused at once.
Lockable(p, f) == locks[f] \in {p, NoProc}

\* Mutant: a lock that excludes nobody, as F_RDLCK would.
LockFile_Shared(p) ==
    /\ pc[p] = "lock"
    /\ locks' = [locks EXCEPT ![NextInput(p)] = p]
    /\ inputFiles' = [inputFiles EXCEPT ![p] = Append(@, NextInput(p))]
    /\ Goto(p, "gather")
    /\ UNCHANGED <<command, store, total, todo, ret>>

\* Mutant: wait for the lock, as F_SETLKW would.
LockFile_Waits(p) ==
    /\ pc[p] = "lock"
    /\ Lockable(p, NextInput(p))
    /\ locks' = [locks EXCEPT ![NextInput(p)] = p]
    /\ inputFiles' = [inputFiles EXCEPT ![p] = Append(@, NextInput(p))]
    /\ Goto(p, "gather")
    /\ UNCHANGED <<command, store, total, todo, ret>>

\* lockFile() in checkFile(): on success the file joins inputFiles, otherwise
\* gatherFiles() gives up and main() returns without closeFiles().
LockFile(p) ==
    /\ pc[p] = "lock"
    /\ IF Lockable(p, NextInput(p))
       THEN /\ locks' = [locks EXCEPT ![NextInput(p)] = p]
            /\ inputFiles' = [inputFiles EXCEPT ![p] = Append(@, NextInput(p))]
            /\ Goto(p, "gather")
            /\ UNCHANGED ret
       ELSE /\ Leave(p, "exit", 1)
            /\ UNCHANGED <<locks, inputFiles>>
    /\ UNCHANGED <<command, store, total, todo>>

\* Mutant: gatherFiles() returns nothing and main() goes on.
GatherFails_Ignored(p) ==
    /\ \/ pc[p] = "gather" /\ Len(inputFiles[p]) < Len(inputs(p))
       \/ pc[p] = "lock"
    /\ Goto(p, "output")
    /\ UNCHANGED <<command, store, locks, inputFiles, total, todo, ret>>

\* open(), fstat() or a lock fails on the next argument; its descriptor, if
\* there is one, is closed on the way out.
GatherFails(p) ==
    /\ \/ pc[p] = "gather" /\ Len(inputFiles[p]) < Len(inputs(p))
       \/ pc[p] = "lock"
    /\ Leave(p, "exit", 1)
    /\ \E closed \in {{}, {NextInput(p)}} :
          /\ pc[p] = "lock" => closed # {}
          /\ locks' = Released(p, closed)
    /\ UNCHANGED <<command, store, inputFiles, total, todo>>

\* gatherFiles() returns true.
Gathered(p) ==
    /\ pc[p] = "gather"
    /\ Len(inputFiles[p]) = Len(inputs(p))
    /\ Goto(p, "output")
    /\ UNCHANGED <<command, store, locks, inputFiles, total, todo, ret>>

\* Mutant: the output is opened with O_TRUNC.
OpenOutput_Truncates(p) ==
    /\ pc[p] = "output"
    /\ store' = [store EXCEPT ![output(p)] = <<>>]
    /\ Goto(p, "size")
    /\ UNCHANGED <<command, locks, inputFiles, total, todo, ret>>

\* openOutputFile() opens the output, which O_CREAT makes if need be.
OpenOutput(p) ==
    /\ pc[p] = "output"
    /\ store' = [store EXCEPT ![output(p)] = IF @ = Missing THEN <<>> ELSE @]
    /\ Goto(p, "size")
    /\ UNCHANGED <<command, locks, inputFiles, total, todo, ret>>

\* The concatenation of the input files as they are now.
Concatenation(p) == FlattenSeq([i \in 1..Len(inputs(p)) |-> store[inputs(p)[i]]])

\* totalSize() adds up the lengths, none of which it can fail to read.
TotalSize(p) ==
    /\ pc[p] = "size"
    /\ total' = [total EXCEPT ![p] = Len(Concatenation(p))]
    /\ Goto(p, "resize")
    /\ UNCHANGED <<command, store, locks, inputFiles, todo, ret>>

\* Mutant: the output only ever grows.
Resized_GrowsOnly(s, n) ==
    [i \in 1..(IF n < Len(s) THEN Len(s) ELSE n) |-> IF i <= Len(s) THEN s[i] ELSE Zero]

\* ftruncate(): cut off, or filled up with zero bytes.
Resized(s, n) == [i \in 1..n |-> IF i <= Len(s) THEN s[i] ELSE Zero]

\* file.resize(totalSize()).
Resize(p) ==
    /\ pc[p] = "resize"
    /\ store' = [store EXCEPT ![output(p)] = Resized(@, total[p])]
    /\ Goto(p, "begin")
    /\ UNCHANGED <<command, locks, inputFiles, total, todo, ret>>

\* The output cannot be opened or sized.  Once it is open it is closed again,
\* with which a lock on it is gone if it is an input too.
OpenOutputFails(p) ==
    /\ pc[p] \in {"output", "resize"}
    /\ locks' = IF pc[p] = "resize" THEN Released(p, {output(p)}) ELSE locks
    /\ Leave(p, "close", 1)
    /\ UNCHANGED <<command, store, inputFiles, total, todo>>

\* chunkedCopy() reads the length of the output.
BeginCopy(p) ==
    /\ pc[p] = "begin"
    /\ todo' = [todo EXCEPT ![p] = 1..Len(store[output(p)])]
    /\ Goto(p, "copy")
    /\ UNCHANGED <<command, store, locks, inputFiles, total, ret>>

\* Some worker copies byte o.  Behind the end of a file a mapping reads as
\* zero and what is written is lost (if it does not kill the process).
CopyByte(p) ==
    /\ pc[p] = "copy"
    /\ \E o \in todo[p] :
          LET from == Concatenation(p)
              byte == IF o <= Len(from) THEN from[o] ELSE Zero
          IN  /\ store' = IF o <= Len(store[output(p)])
                          THEN [store EXCEPT ![output(p)][o] = byte] ELSE store
              /\ todo' = [todo EXCEPT ![p] = @ \ {o}]
    /\ UNCHANGED <<command, locks, pc, inputFiles, total, ret>>

CopyDone(p) ==
    /\ pc[p] = "copy"
    /\ todo[p] = {}
    /\ Leave(p, "close", 0)
    /\ UNCHANGED <<command, store, locks, inputFiles, total, todo>>

\* Mutant: main() returns the error itself.
CopyFails_ReturnsError(p) ==
    /\ pc[p] \in {"begin", "copy"}
    /\ Leave(p, "close", 5)
    /\ UNCHANGED <<command, store, locks, inputFiles, total, todo>>

\* chunkedCopy() gives an error with some bytes written; main() returns 1.
CopyFails(p) ==
    /\ pc[p] \in {"begin", "copy"}
    /\ Leave(p, "close", 1)
    /\ UNCHANGED <<command, store, locks, inputFiles, total, todo>>

\* closeFiles() unlocks one file after the other.
Unlock(p) ==
    /\ pc[p] = "close"
    /\ inputFiles[p] # <<>>
    /\ locks' = Released(p, {Head(inputFiles[p])})
    /\ inputFiles' = [inputFiles EXCEPT ![p] = Tail(@)]
    /\ UNCHANGED <<command, store, pc, total, todo, ret>>

\* Every file is unlocked; inputFiles.clear() closes the descriptors.
Closed(p) ==
    /\ pc[p] = "close"
    /\ inputFiles[p] = <<>>
    /\ Goto(p, "exit")
    /\ UNCHANGED <<command, store, locks, inputFiles, total, todo, ret>>

\* The process ends: every descriptor it still holds is closed.
Exit(p) ==
    /\ pc[p] = "exit"
    /\ Goto(p, "exited")
    /\ locks' = Released(p, Files)
    /\ inputFiles' = [inputFiles EXCEPT ![p] = <<>>]
    /\ UNCHANGED <<command, store, total, todo, ret>>

\* A signal (SIGBUS behind the end of a mapping among them) ends the process.
Kill(p) ==
    /\ pc[p] \notin {"exited", "killed"}
    /\ Goto(p, "killed")
    /\ locks' = Released(p, Files)
    /\ inputFiles' = [inputFiles EXCEPT ![p] = <<>>]
    /\ UNCHANGED <<command, store, total, todo, ret>>

\* What p does if left alone, and what may happen to it.
Step(p) ==
    \/ Parse(p) \/ Check(p) \/ LockFile(p) \/ Gathered(p)
    \/ OpenOutput(p) \/ TotalSize(p) \/ Resize(p)
    \/ BeginCopy(p) \/ CopyByte(p) \/ CopyDone(p)
    \/ Unlock(p) \/ Closed(p) \/ Exit(p)
Failure(p) == GatherFails(p) \/ OpenOutputFails(p) \/ CopyFails(p) \/ Kill(p)

Next == \E p \in Procs : Step(p) \/ Failure(p)

Spec == Init /\ [][Next]_vars

\* A process that can run does run.
FairSpec == Spec /\ \A p \in Procs : WF_vars(Step(p))

-----------------------------------------------------------------------------
\* p is past gatherFiles() and may read its inputs and write its output.
Copying(p) == pc[p] \in {"output", "size", "resize", "begin", "copy"}

\* Locks are taken one by one, without waiting, by processes in any order, and
\* are gone with any close: still no two processes copy from one file at once.
ExclusiveInputs ==
    \A p, q \in Procs : \A i \in 1..Len(inputs(p)), j \in 1..Len(inputs(q)) :
        p # q /\ Copying(p) /\ Copying(q) => inputs(p)[i] # inputs(q)[j]

\* Nobody else's output is an input or the output of p, nor its own an input.
Unshared(p) ==
    \A q \in Procs :
        /\ q # p => output(q) # output(p)
        /\ \A i \in 1..Len(inputs(p)) : output(q) # inputs(p)[i]

\* Exit status 0 of a copy: the output is the concatenation of the inputs, no
\* byte of an earlier, longer output left behind it, whatever other processes
\* did, failed or were killed meanwhile, as long as no output is shared and
\* chunkedCopy() keeps its contract.  (It does not without workers, in the short
\* form of chunkSpans, and on files that are not tame; after --async the result
\* is what processes see, not what is on the disk.)
ZeroMeansCopied ==
    \A p \in Procs :
        pc[p] = "exited" /\ ret[p] = 0 /\ ~command[p].version /\ ~command[p].help
        /\ Unshared(p) => store[output(p)] = Concatenation(p)

\* No process touches a file before it has locked all of its inputs: one whose
\* inputs are invalid, or taken by another, leaves the old output alone.
TouchesOnlyWhenLocked ==
    [][\A f \in Files : store'[f] # store[f] =>
          \E p \in Procs :
              /\ output(p) = f
              /\ Copying(p)
              /\ \A i \in 1..Len(inputs(p)) : locks[inputs(p)[i]] = p]_vars

\* An output that is also the first input, and nobody else's output, never loses
\* what it held, whatever fails and in whatever order workers copy: it is never
\* made shorter and each of its bytes is only copied onto itself.
InPlaceKeepsContent ==
    [][\A p \in Procs :
          /\ inputs(p) # <<>> /\ Head(inputs(p)) = output(p)
          /\ \A q \in Procs \ {p} : output(q) # output(p)
          /\ store[output(p)] # Missing
          => IsPrefix(store[output(p)], store'[output(p)])]_vars

\* Every process ends, also those that want each other's files, and the last
\* one leaves no lock behind.
AllExit ==
    <>[](/\ \A p \in Procs : pc[p] \in {"exited", "killed"}
         /\ \A f \in Files : locks[f] = NoProc)

\* The comment in checkFile(): an input that is locked cannot be changed from
\* under the process that locked it.
NotChangedFromUnder ==
    [][\A f \in Files, p \in Procs :
          locks[f] = p /\ output(p) # f => store'[f] = store[f]]_vars
=============================================================================
