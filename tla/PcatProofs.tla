----------------------------- MODULE PcatProofs -----------------------------
(***************************************************************************)
(* What the locks of src/pcat.cxx give, for any number of processes, files *)
(* and command lines: processes that copy at the same time have no input   *)
(* in common, and nobody writes before all of its inputs are locked.  Then *)
(* what main() leaves in the files: exit status 0 means the concatenation  *)
(* if chunkedCopy() keeps the contract that Pcat states, and a file        *)
(* appended to in place keeps its content.                                 *)
(*                                                                         *)
(* IInv says who holds what: until closeFiles() a process has opened a     *)
(* prefix of its arguments and holds the lock of each.  StoreInv adds that *)
(* the files it reads lengths and bytes of exist, RoomInv and CopiedInv    *)
(* how far the output is at each place of main().  In the end every        *)
(* process gets there, and leaves no lock behind.                          *)
(***************************************************************************)
EXTENDS Pcat, SequenceFacts, FiniteSetTheorems

\* p gathers or copies: it has not begun to give its locks back.
Holding(p) == pc[p] \in {"gather", "lock"} \/ Copying(p)

\* The types of what the locks depend on.
LockTypes ==
    /\ command \in [Procs -> CommandLines]
    /\ locks \in [Files -> Procs \cup {NoProc}]
    /\ pc \in [Procs -> Pcs]
    /\ inputFiles \in [Procs -> Seq(Files)]
    /\ DOMAIN store = Files

\* inputFiles is a prefix of the arguments, and all of them after gatherFiles().
PrefixInv ==
    \A p \in Procs :
        /\ pc[p] = "parse" => inputFiles[p] = <<>>
        /\ Holding(p) => /\ Len(inputFiles[p]) <= Len(inputs(p))
                         /\ \A i \in 1..Len(inputFiles[p]) :
                               inputFiles[p][i] = inputs(p)[i]
        /\ pc[p] = "lock" => Len(inputFiles[p]) < Len(inputs(p))
        /\ Copying(p) => Len(inputFiles[p]) = Len(inputs(p))

\* A process holds the lock of every file it has gathered.
HeldInv ==
    \A p \in Procs : Holding(p) =>
        \A i \in 1..Len(inputFiles[p]) : locks[inputFiles[p][i]] = p

IInv == LockTypes /\ PrefixInv /\ HeldInv

-----------------------------------------------------------------------------
(* Releasing files only turns locks of p into free ones.                   *)
LEMMA ReleasedLocks ==
  ASSUME LockTypes, NEW p \in Procs, NEW F
  PROVE  /\ Released(p, F) \in [Files -> Procs \cup {NoProc}]
         /\ \A f \in Files : locks[f] # p => Released(p, F)[f] = locks[f]
  BY DEF Released, LockTypes

(* The next argument is a file.                                            *)
LEMMA NextInputFile ==
  ASSUME IInv, NEW p \in Procs, Holding(p), Len(inputFiles[p]) < Len(inputs(p))
  PROVE  NextInput(p) \in Files
<1>1. inputs(p) \in Seq(Files) /\ inputFiles[p] \in Seq(Files)
  BY DEF IInv, LockTypes, inputs, CommandLines
<1>2. Len(inputFiles[p]) + 1 \in 1..Len(inputs(p))
  BY <1>1
<1>3. QED
  BY <1>1, <1>2 DEF NextInput

(* Before the first step nobody holds anything.                            *)
LEMMA InitIInv == Init => IInv
<1> SUFFICES ASSUME Init PROVE IInv
  OBVIOUS
<1>1. LockTypes
  BY PcatAssumption DEF Init, LockTypes, Pcs
<1>2. PrefixInv
  BY DEF Init, PrefixInv, Holding, Copying
<1>3. HeldInv
  BY DEF Init, HeldInv, Holding, Copying
<1>4. QED
  BY <1>1, <1>2, <1>3 DEF IInv

(* A step of one process, as the other processes see it: their places and  *)
(* descriptors stay, and so do their locks.                                *)
LEMMA OthersKeep ==
  ASSUME IInv, NEW p \in Procs, Step(p) \/ Failure(p)
  PROVE  /\ command' = command
         /\ \A q \in Procs \ {p} : pc'[q] = pc[q] /\ inputFiles'[q] = inputFiles[q]
         /\ \A f \in Files : locks[f] \notin {p, NoProc} => locks'[f] = locks[f]
         /\ LockTypes'
<1> USE DEF LockTypes, Goto, Leave, Pcs, IInv
<1>0. \A F : /\ Released(p, F) \in [Files -> Procs \cup {NoProc}]
             /\ \A f \in Files : locks[f] # p => Released(p, F)[f] = locks[f]
  BY ReleasedLocks
<1>1. CASE Parse(p)
  BY <1>1 DEF Parse
<1>2. CASE Check(p)
  <2>1. locks' = locks \/ locks' = Released(p, {NextInput(p)})
    BY <1>2 DEF Check
  <2>2. pc' \in [Procs -> Pcs] /\ \A q \in Procs \ {p} : pc'[q] = pc[q]
    BY <1>2 DEF Check
  <2>3. QED
    BY <1>0, <1>2, <2>1, <2>2 DEF Check
<1>3. CASE LockFile(p)
  <2>1. pc[p] = "lock" /\ NextInput(p) \in Files
    BY <1>3, NextInputFile DEF LockFile, PrefixInv, Holding
  <2>2. CASE Lockable(p, NextInput(p))
    <3>1. Append(inputFiles[p], NextInput(p)) \in Seq(Files)
      BY <2>1
    <3>2. QED
      BY <1>3, <2>1, <2>2, <3>1 DEF LockFile, Lockable
  <2>3. CASE ~Lockable(p, NextInput(p))
    BY <1>3, <2>3 DEF LockFile
  <2>4. QED
    BY <2>2, <2>3
<1>4. CASE Gathered(p) \/ OpenOutput(p) \/ TotalSize(p) \/ Resize(p)
  BY <1>4 DEF Gathered, OpenOutput, TotalSize, Resize
<1>5. CASE BeginCopy(p) \/ CopyByte(p) \/ CopyDone(p) \/ CopyFails(p)
  BY <1>5 DEF BeginCopy, CopyByte, CopyDone, CopyFails
<1>6. CASE Unlock(p)
  BY <1>0, <1>6 DEF Unlock
<1>7. CASE Closed(p)
  BY <1>7 DEF Closed
<1>8. CASE Exit(p) \/ Kill(p)
  <2>1. /\ locks' = Released(p, Files)
        /\ inputFiles' = [inputFiles EXCEPT ![p] = <<>>]
        /\ \E where \in Pcs : pc' = [pc EXCEPT ![p] = where]
        /\ UNCHANGED <<command, store>>
    BY <1>8 DEF Exit, Kill
  <2>2. <<>> \in Seq(Files)
    OBVIOUS
  <2>3. QED
    BY <1>0, <2>1, <2>2
<1>9. CASE GatherFails(p)
  BY <1>0, <1>9 DEF GatherFails
<1>10. CASE OpenOutputFails(p)
  BY <1>0, <1>10 DEF OpenOutputFails
<1>11. QED
  BY <1>1, <1>2, <1>3, <1>4, <1>5, <1>6, <1>7, <1>8, <1>9, <1>10 DEF Step, Failure

(* What a process knows of itself survives its own steps.                  *)
LEMMA OwnPrefix ==
  ASSUME IInv, NEW p \in Procs, Step(p) \/ Failure(p)
  PROVE  /\ pc'[p] = "parse" => inputFiles'[p] = <<>>
         /\ Holding(p)' =>
              /\ Len(inputFiles'[p]) <= Len(inputs(p))
              /\ \A i \in 1..Len(inputFiles'[p]) :
                    inputFiles'[p][i] = inputs(p)[i] /\ locks'[inputFiles'[p][i]] = p
         /\ pc'[p] = "lock" => Len(inputFiles'[p]) < Len(inputs(p))
         /\ Copying(p)' => Len(inputFiles'[p]) = Len(inputs(p))
<1> USE DEF LockTypes, Goto, Leave, Pcs, IInv, PrefixInv, HeldInv, Holding, Copying
<1>0. inputs(p) \in Seq(Files) /\ inputFiles[p] \in Seq(Files)
  BY DEF inputs, CommandLines
<1>1. CASE Parse(p)
  BY <1>0, <1>1 DEF Parse
<1>2. CASE Check(p)
  BY <1>0, <1>2 DEF Check
<1>3. CASE LockFile(p)
  <2>1. NextInput(p) \in Files
    BY <1>3, NextInputFile DEF LockFile
  <2>2. CASE Lockable(p, NextInput(p))
    <3>1. /\ locks' = [locks EXCEPT ![NextInput(p)] = p]
          /\ inputFiles'[p] = Append(inputFiles[p], NextInput(p))
          /\ pc'[p] = "gather" /\ pc[p] = "lock"
      BY <1>3, <2>2 DEF LockFile
    <3>2. \A f \in Files : locks[f] = p => locks'[f] = p
      BY <3>1
    <3>3. locks'[NextInput(p)] = p
      BY <2>1, <3>1
    <3>4. /\ Len(inputFiles'[p]) = Len(inputFiles[p]) + 1
          /\ \A i \in 1..Len(inputFiles[p]) : inputFiles'[p][i] = inputFiles[p][i]
          /\ inputFiles'[p][Len(inputFiles[p]) + 1] = NextInput(p)
      BY <1>0, <2>1, <3>1
    <3>5. Len(inputFiles'[p]) <= Len(inputs(p))
      BY <1>0, <3>1, <3>4
    <3>6. ASSUME NEW i \in 1..Len(inputFiles'[p])
          PROVE  inputFiles'[p][i] = inputs(p)[i] /\ locks'[inputFiles'[p][i]] = p
      <4>1. CASE i = Len(inputFiles[p]) + 1
        BY <3>3, <3>4, <4>1 DEF NextInput
      <4>2. CASE i # Len(inputFiles[p]) + 1
        <5>1. i \in 1..Len(inputFiles[p])
          BY <1>0, <3>4, <4>2
        <5>2. inputFiles[p][i] \in Files
          BY <1>0, <5>1
        <5>3. inputFiles[p][i] = inputs(p)[i] /\ locks[inputFiles[p][i]] = p
          BY <3>1, <5>1
        <5>4. QED
          BY <3>2, <3>4, <5>1, <5>2, <5>3
      <4>3. QED
        BY <4>1, <4>2
    <3>7. QED
      BY <3>1, <3>5, <3>6
  <2>3. CASE ~Lockable(p, NextInput(p))
    BY <1>3, <2>3 DEF LockFile
  <2>4. QED
    BY <2>2, <2>3
<1>4. CASE Gathered(p) \/ OpenOutput(p) \/ TotalSize(p) \/ Resize(p)
  BY <1>0, <1>4 DEF Gathered, OpenOutput, TotalSize, Resize
<1>5. CASE BeginCopy(p) \/ CopyByte(p) \/ CopyDone(p) \/ CopyFails(p)
  BY <1>0, <1>5 DEF BeginCopy, CopyByte, CopyDone, CopyFails
<1>6. CASE Unlock(p) \/ Closed(p)
  BY <1>6 DEF Unlock, Closed
<1>7. CASE Exit(p) \/ Kill(p)
  BY <1>7 DEF Exit, Kill
<1>8. CASE GatherFails(p) \/ OpenOutputFails(p)
  BY <1>8 DEF GatherFails, OpenOutputFails
<1>9. QED
  BY <1>1, <1>2, <1>3, <1>4, <1>5, <1>6, <1>7, <1>8 DEF Step, Failure

(* Every step preserves the invariant.                                     *)
LEMMA StepIInv == IInv /\ [Next]_vars => IInv'
<1> SUFFICES ASSUME IInv, [Next]_vars PROVE IInv'
  OBVIOUS
<1>1. CASE UNCHANGED vars
  BY <1>1 DEF vars, IInv, LockTypes, PrefixInv, HeldInv, Holding, Copying, inputs
<1>2. ASSUME NEW p \in Procs, Step(p) \/ Failure(p) PROVE IInv'
  <2>1. /\ command' = command
        /\ \A q \in Procs \ {p} : pc'[q] = pc[q] /\ inputFiles'[q] = inputFiles[q]
        /\ \A f \in Files : locks[f] \notin {p, NoProc} => locks'[f] = locks[f]
        /\ LockTypes'
    BY <1>2, OthersKeep
  <2>2. /\ pc'[p] = "parse" => inputFiles'[p] = <<>>
        /\ Holding(p)' =>
             /\ Len(inputFiles'[p]) <= Len(inputs(p))
             /\ \A i \in 1..Len(inputFiles'[p]) :
                   inputFiles'[p][i] = inputs(p)[i] /\ locks'[inputFiles'[p][i]] = p
        /\ pc'[p] = "lock" => Len(inputFiles'[p]) < Len(inputs(p))
        /\ Copying(p)' => Len(inputFiles'[p]) = Len(inputs(p))
    BY <1>2, OwnPrefix
  <2>3. PrefixInv'
    BY <2>1, <2>2 DEF IInv, PrefixInv, Holding, Copying, inputs
  <2>4. HeldInv'
    <3> SUFFICES ASSUME NEW q \in Procs, Holding(q)', NEW i \in 1..Len(inputFiles'[q])
                 PROVE  locks'[inputFiles'[q][i]] = q
      BY DEF HeldInv
    <3>1. CASE q = p
      BY <2>2, <3>1
    <3>2. CASE q # p
      <4>1. inputFiles'[q] = inputFiles[q] /\ Holding(q)
        BY <2>1, <3>2 DEF Holding, Copying
      <4>2. inputFiles[q][i] \in Files
        BY <4>1 DEF IInv, LockTypes
      <4>3. locks[inputFiles[q][i]] = q
        BY <4>1 DEF IInv, HeldInv
      <4>4. QED
        BY <2>1, <3>2, <4>1, <4>2, <4>3, PcatAssumption
    <3>3. QED
      BY <3>1, <3>2
  <2>5. QED
    BY <2>1, <2>3, <2>4 DEF IInv
<1>3. QED
  BY <1>1, <1>2 DEF Next

(* The invariant holds in every behaviour.                                 *)
LEMMA Invariance == Spec => []IInv
  BY InitIInv, StepIInv, PTL DEF Spec

(* A copying process has the lock of each of its arguments.                *)
LEMMA CopyingHolds ==
  ASSUME IInv, NEW p \in Procs, Copying(p), NEW i \in 1..Len(inputs(p))
  PROVE  locks[inputs(p)[i]] = p
  BY DEF IInv, PrefixInv, HeldInv, Holding

(* lockFile() keeps processes apart: two of them never copy from the same  *)
(* file at the same time.                                                  *)
THEOREM InputsExclusive == Spec => []ExclusiveInputs
<1>1. IInv => ExclusiveInputs
  BY CopyingHolds DEF ExclusiveInputs
<1>2. QED
  BY <1>1, Invariance, PTL

(* main() writes to a file only once gatherFiles() has locked every input: *)
(* until then the old output stays as it was.                              *)
THEOREM WritesUnderLock == Spec => TouchesOnlyWhenLocked
<1> DEFINE Locked(f) == \E p \in Procs :
                            /\ output(p) = f
                            /\ Copying(p)
                            /\ \A i \in 1..Len(inputs(p)) : locks[inputs(p)[i]] = p
           A == \A f \in Files : store'[f] # store[f] => Locked(f)
<1>1. ASSUME IInv, NEW p \in Procs, Step(p) \/ Failure(p) PROVE A
  <2> SUFFICES ASSUME NEW f \in Files, store'[f] # store[f] PROVE Locked(f)
    OBVIOUS
  <2>1. OpenOutput(p) \/ Resize(p) \/ CopyByte(p)
    BY <1>1 DEF Step, Failure, Parse, Check, LockFile, Gathered, TotalSize, BeginCopy,
       CopyDone, Unlock, Closed, Exit, GatherFails, OpenOutputFails, CopyFails, Kill
  <2>2. Copying(p)
    BY <2>1 DEF OpenOutput, Resize, CopyByte, Copying
  <2>3. output(p) = f
    BY <1>1, <2>1 DEF OpenOutput, Resize, CopyByte, IInv, LockTypes
  <2>4. QED
    BY <1>1, <2>2, <2>3, CopyingHolds
<1>2. IInv /\ [Next]_vars => [A]_vars
  BY <1>1 DEF Next
<1>3. QED
  BY <1>2, Invariance, PTL DEF Spec, TouchesOnlyWhenLocked

-----------------------------------------------------------------------------
(* What is in the files                                                    *)

\* The output is open: openOutputFile() has made it if it was missing.
Opened(p) == pc[p] \in {"size", "resize", "begin", "copy"}

StoreTypes ==
    /\ command \in [Procs -> Commands]
    /\ store \in [Files -> Contents \cup {Missing}]
    /\ total \in [Procs -> Nat]
    /\ todo \in [Procs -> SUBSET (Nat \ {0})]
    /\ ret \in [Procs -> {0, 1}]

\* The files that main() reads the length or the bytes of exist.
PresentInv ==
    \A p \in Procs :
        /\ Holding(p) => /\ output(p) \in Files
                         /\ \A i \in 1..Len(inputFiles[p]) : store[inputs(p)[i]] # Missing
        /\ pc[p] = "lock" => store[NextInput(p)] # Missing
        /\ Opened(p) => store[output(p)] # Missing

StoreInv == IInv /\ StoreTypes /\ PresentInv

(* A function from 1 to n is a sequence.                                   *)
LEMMA SequenceOf ==
  ASSUME NEW S, NEW n \in Nat, NEW f \in [1..n -> S]
  PROVE  f \in Seq(S) /\ Len(f) = n
OBVIOUS

(* ftruncate() leaves a content, of the length asked for.                  *)
LEMMA ResizedIs ==
  ASSUME NEW s \in Contents, NEW n \in Nat
  PROVE  /\ Resized(s, n) \in Contents /\ Len(Resized(s, n)) = n /\ Len(s) \in Nat
         /\ \A i \in 1..n : Resized(s, n)[i] = IF i <= Len(s) THEN s[i] ELSE Zero
<1>1. Len(s) \in Nat /\ \A i \in 1..Len(s) : s[i] \in Files \cup {Zero}
  BY LenProperties, ElementOfSeq DEF Contents
<1>2. Resized(s, n) \in [1..n -> Files \cup {Zero}]
  BY <1>1 DEF Resized
<1>3. QED
  BY <1>1, <1>2, SequenceOf DEF Contents, Resized

(* One byte of a content replaced.                                         *)
LEMMA ByteWritten ==
  ASSUME NEW s \in Contents, NEW o \in 1..Len(s), NEW b \in Files \cup {Zero}
  PROVE  /\ [s EXCEPT ![o] = b] \in Contents /\ Len([s EXCEPT ![o] = b]) = Len(s)
         /\ \A i \in 1..Len(s) : [s EXCEPT ![o] = b][i] = IF i = o THEN b ELSE s[i]
<1>1. Len(s) \in Nat /\ s \in [1..Len(s) -> Files \cup {Zero}]
  BY LenProperties DEF Contents
<1>2. [s EXCEPT ![o] = b] \in [1..Len(s) -> Files \cup {Zero}]
  BY <1>1
<1>3. QED
  BY <1>1, <1>2, SequenceOf DEF Contents

(* A content is not a missing file.                                        *)
LEMMA ContentIsThere == Missing \notin Contents
BY PcatAssumption DEF Contents

(* The input files of a process that copies, and their concatenation.      *)
LEMMA ConcatenationIs ==
  ASSUME StoreInv, NEW p \in Procs, Copying(p)
  PROVE  /\ output(p) \in Files /\ Len(inputs(p)) \in Nat
         /\ \A i \in 1..Len(inputs(p)) : inputs(p)[i] \in Files /\ store[inputs(p)[i]] \in Contents
         /\ Concatenation(p) \in Contents
         /\ Len(Concatenation(p)) \in Nat
         /\ \A o \in 1..Len(Concatenation(p)) : Concatenation(p)[o] \in Files \cup {Zero}
         /\ Len(inputs(p)) > 0 =>
              LET s == store[inputs(p)[1]] IN
              /\ Len(s) <= Len(Concatenation(p))
              /\ \A o \in 1..Len(s) : Concatenation(p)[o] = s[o]
<1> DEFINE n  == Len(inputs(p))
           ss == [i \in 1..n |-> store[inputs(p)[i]]]
<1>1. inputs(p) \in Seq(Files) /\ n \in Nat
  BY LenProperties DEF StoreInv, IInv, LockTypes, inputs, CommandLines
<1>2. output(p) \in Files /\ Len(inputFiles[p]) = n
  BY DEF StoreInv, IInv, PrefixInv, PresentInv, Holding
<1>3. \A i \in 1..n : inputs(p)[i] \in Files /\ store[inputs(p)[i]] \in Contents
  <2>1. SUFFICES ASSUME NEW i \in 1..n
                 PROVE  inputs(p)[i] \in Files /\ store[inputs(p)[i]] \in Contents
    OBVIOUS
  <2>2. inputs(p)[i] \in Files
    BY <1>1, ElementOfSeq
  <2>3. store[inputs(p)[i]] # Missing
    BY <1>2 DEF StoreInv, PresentInv, Holding
  <2>4. QED
    BY <2>2, <2>3 DEF StoreInv, StoreTypes
<1>4. ss \in Seq(Contents) /\ Len(ss) = n
  <2>1. ss \in [1..n -> Contents]
    BY <1>3
  <2>2. QED
    BY <1>1, <2>1, SequenceOf
<1>5. PICK t : t = ss
  OBVIOUS
<1>6. t \in Seq(Seq(Files \cup {Zero})) /\ Len(t) = n /\ Concatenation(p) = FlattenSeq(t)
  BY <1>4, <1>5 DEF Contents, Concatenation
<1>7. /\ FlattenSeq(t) \in Seq(Files \cup {Zero})
      /\ Len(t) > 0 => /\ Len(t[1]) <= Len(FlattenSeq(t))
                       /\ \A i \in 1..Len(t[1]) : FlattenSeq(t)[i] = t[1][i]
  BY <1>6, FlattenBegins
<1>8. n > 0 => t[1] = store[inputs(p)[1]]
  BY <1>1, <1>5
<1>9. PICK c : c = Concatenation(p)
  OBVIOUS
<1>10. c \in Contents /\ Len(c) \in Nat /\ \A o \in 1..Len(c) : c[o] \in Files \cup {Zero}
  BY <1>6, <1>7, <1>9, LenProperties, ElementOfSeq DEF Contents
<1>11. QED
  BY <1>1, <1>2, <1>3, <1>6, <1>7, <1>8, <1>9, <1>10

\* The byte that goes to place o of the output.
Byte(p, o) == IF o <= Len(Concatenation(p)) THEN Concatenation(p)[o] ELSE Zero

(* A step writes one file at most: the process opens its output, sizes it  *)
(* or copies a byte.                                                       *)
LEMMA Writes ==
  ASSUME StoreInv, NEW p \in Procs, Step(p) \/ Failure(p)
  PROVE  \/ store' = store
         \/ /\ OpenOutput(p) /\ store[output(p)] = Missing
            /\ store' = [store EXCEPT ![output(p)] = <<>>]
         \/ /\ Resize(p) /\ store[output(p)] \in Contents
            /\ store' = [store EXCEPT ![output(p)] = Resized(store[output(p)], total[p])]
         \/ /\ CopyByte(p) /\ store[output(p)] \in Contents
            /\ \E o \in 1..Len(store[output(p)]) :
                  /\ Byte(p, o) \in Files \cup {Zero}
                  /\ todo' = [todo EXCEPT ![p] = @ \ {o}]
                  /\ store' = [store EXCEPT ![output(p)] =
                                  [store[output(p)] EXCEPT ![o] = Byte(p, o)]]
<1>1. CASE OpenOutput(p) \/ Resize(p) \/ CopyByte(p)
  <2>1. Copying(p)
    BY <1>1 DEF OpenOutput, Resize, CopyByte, Copying
  <2>2. output(p) \in Files /\ store \in [Files -> Contents \cup {Missing}]
    BY <2>1, ConcatenationIs DEF StoreInv, StoreTypes
  <2>3. CASE OpenOutput(p)
    <3>1. store' = [store EXCEPT ![output(p)] = IF store[output(p)] = Missing THEN <<>>
                                                ELSE store[output(p)]]
      BY <2>3 DEF OpenOutput
    <3>2. store[output(p)] # Missing => store' = store
      BY <2>2, <3>1
    <3>3. QED
      BY <2>3, <3>1, <3>2
  <2>4. CASE Resize(p)
    <3>1. store[output(p)] \in Contents
      BY <2>2, <2>4 DEF StoreInv, PresentInv, Opened, Resize
    <3>2. QED
      BY <2>4, <3>1 DEF Resize
  <2>5. CASE CopyByte(p)
    <3>1. store[output(p)] \in Contents
      BY <2>2, <2>5 DEF StoreInv, PresentInv, Opened, CopyByte
    <3>2. PICK o \in todo[p] :
             /\ store' = IF o <= Len(store[output(p)])
                         THEN [store EXCEPT ![output(p)][o] = Byte(p, o)] ELSE store
             /\ todo' = [todo EXCEPT ![p] = @ \ {o}]
      BY <2>5 DEF CopyByte, Byte
    <3>3. o \in Nat \ {0}
      BY DEF StoreInv, StoreTypes
    <3>4. CASE o <= Len(store[output(p)])
      <4>1. o \in 1..Len(store[output(p)])
        BY <3>1, <3>3, <3>4, LenProperties DEF Contents
      <4>2. Byte(p, o) \in Files \cup {Zero}
        <5>1. Len(Concatenation(p)) \in Nat
              /\ \A i \in 1..Len(Concatenation(p)) : Concatenation(p)[i] \in Files \cup {Zero}
          BY <2>1, ConcatenationIs
        <5>2. QED
          BY <3>3, <5>1 DEF Byte
      <4>3. store' = [store EXCEPT ![output(p)] = [store[output(p)] EXCEPT ![o] = Byte(p, o)]]
        BY <3>2, <3>4
      <4>4. QED
        BY <2>5, <3>1, <3>2, <4>1, <4>2, <4>3
    <3>5. CASE ~(o <= Len(store[output(p)]))
      BY <3>2, <3>5
    <3>6. QED
      BY <3>4, <3>5
  <2>6. QED
    BY <1>1, <2>3, <2>4, <2>5
<1>2. CASE ~(OpenOutput(p) \/ Resize(p) \/ CopyByte(p))
  BY <1>2 DEF Step, Failure, Parse, Check, LockFile, Gathered, TotalSize, BeginCopy,
     CopyDone, Unlock, Closed, Exit, GatherFails, OpenOutputFails, CopyFails, Kill
<1>3. QED
  BY <1>1, <1>2

(* No file disappears, and nothing but the output of the process changes.  *)
LEMMA StoreStays ==
  ASSUME StoreInv, NEW p \in Procs, Step(p) \/ Failure(p)
  PROVE  /\ store' \in [Files -> Contents \cup {Missing}]
         /\ \A f \in Files : store[f] # Missing => store'[f] # Missing
         /\ \A f \in Files : f # output(p) => store'[f] = store[f]
<1>1. store \in [Files -> Contents \cup {Missing}] /\ total[p] \in Nat
  BY DEF StoreInv, StoreTypes
<1>2. CASE store' = store
  BY <1>1, <1>2
<1>3. ASSUME NEW c \in Contents, store' = [store EXCEPT ![output(p)] = c]
      PROVE  /\ store' \in [Files -> Contents \cup {Missing}]
             /\ \A f \in Files : store[f] # Missing => store'[f] # Missing
             /\ \A f \in Files : f # output(p) => store'[f] = store[f]
  BY <1>1, <1>3, ContentIsThere
<1>4. <<>> \in Contents
  BY EmptySeq DEF Contents
<1>5. store[output(p)] \in Contents => Resized(store[output(p)], total[p]) \in Contents
  BY <1>1, ResizedIs
<1>6. ASSUME store[output(p)] \in Contents, NEW o \in 1..Len(store[output(p)]),
             Byte(p, o) \in Files \cup {Zero}
      PROVE  [store[output(p)] EXCEPT ![o] = Byte(p, o)] \in Contents
  BY <1>6, ByteWritten
<1>7. QED
  BY <1>2, <1>3, <1>4, <1>5, <1>6, Writes

(* The state at the start.                                                 *)
LEMMA InitStoreInv == Init => StoreInv
<1> SUFFICES ASSUME Init PROVE StoreInv
  OBVIOUS
<1>1. store \in [Files -> Contents \cup {Missing}]
  <2>1. PICK present \in SUBSET Files, len \in [Files -> 0..MaxLength] :
           store = [f \in Files |-> IF f \in present THEN [i \in 1..len[f] |-> f] ELSE Missing]
    BY DEF Init
  <2>2. ASSUME NEW f \in Files PROVE [i \in 1..len[f] |-> f] \in Contents
    <3>1. len[f] \in Nat
      BY PcatAssumption
    <3>2. [i \in 1..len[f] |-> f] \in [1..len[f] -> Files \cup {Zero}]
      OBVIOUS
    <3>3. QED
      BY <3>1, <3>2, SequenceOf DEF Contents
  <2>3. QED
    BY <2>1, <2>2
<1>2. StoreTypes
  BY <1>1 DEF Init, StoreTypes
<1>3. PresentInv
  BY DEF Init, PresentInv, Holding, Copying, Opened
<1>4. QED
  BY <1>2, <1>3, InitIInv DEF StoreInv

(* What a step does to the numbers of the process, and not to the others'. *)
LEMMA NumbersStay ==
  ASSUME StoreInv, NEW p \in Procs, Step(p) \/ Failure(p)
  PROVE  /\ command' = command
         /\ total' \in [Procs -> Nat]
         /\ todo' \in [Procs -> SUBSET (Nat \ {0})]
         /\ ret' \in [Procs -> {0, 1}]
         /\ \A q \in Procs \ {p} :
               total'[q] = total[q] /\ todo'[q] = todo[q] /\ ret'[q] = ret[q]
<1> USE DEF StoreInv, StoreTypes, Goto, Leave
<1>1. CASE Parse(p) \/ Check(p) \/ LockFile(p) \/ Gathered(p) \/ OpenOutput(p) \/ Resize(p)
  BY <1>1 DEF Parse, Check, LockFile, Gathered, OpenOutput, Resize
<1>2. CASE TotalSize(p)
  <2>1. Len(Concatenation(p)) \in Nat
    BY <1>2, ConcatenationIs DEF TotalSize, Copying
  <2>2. QED
    BY <1>2, <2>1 DEF TotalSize
<1>3. CASE BeginCopy(p)
  <2>1. Copying(p) /\ Opened(p)
    BY <1>3 DEF BeginCopy, Copying, Opened
  <2>2. output(p) \in Files /\ store[output(p)] # Missing
    BY <2>1, ConcatenationIs DEF PresentInv
  <2>3. Len(store[output(p)]) \in Nat
    BY <2>2, LenProperties DEF Contents
  <2>4. 1..Len(store[output(p)]) \in SUBSET (Nat \ {0})
    BY <2>3
  <2>5. QED
    BY <1>3, <2>4 DEF BeginCopy
<1>4. CASE CopyByte(p)
  <2>1. PICK o \in todo[p] : todo' = [todo EXCEPT ![p] = @ \ {o}]
    BY <1>4 DEF CopyByte
  <2>2. QED
    BY <1>4, <2>1 DEF CopyByte
<1>5. CASE CopyDone(p) \/ CopyFails(p) \/ Unlock(p) \/ Closed(p) \/ Exit(p) \/ Kill(p)
  BY <1>5 DEF CopyDone, CopyFails, Unlock, Closed, Exit, Kill
<1>6. CASE GatherFails(p) \/ OpenOutputFails(p)
  BY <1>6 DEF GatherFails, OpenOutputFails
<1>7. QED
  BY <1>1, <1>2, <1>3, <1>4, <1>5, <1>6 DEF Step, Failure

(* The files of a process that moves on are there.                         *)
LEMMA OwnPresent ==
  ASSUME StoreInv, NEW p \in Procs, Step(p) \/ Failure(p)
  PROVE  /\ Holding(p)' =>
               /\ output(p) \in Files
               /\ \A i \in 1..Len(inputFiles'[p]) : store'[inputs(p)[i]] # Missing
         /\ pc'[p] = "lock" => store'[inputs(p)[Len(inputFiles'[p]) + 1]] # Missing
         /\ Opened(p)' => store'[output(p)] # Missing
<1> USE DEF Goto, Leave, Pcs, Holding, Copying, Opened
<1>1. /\ command[p] \in CommandLines /\ inputs(p) \in Seq(Files) /\ inputFiles[p] \in Seq(Files)
      /\ pc \in [Procs -> Pcs] /\ inputFiles \in [Procs -> Seq(Files)]
      /\ Len(inputs(p)) \in Nat /\ Len(inputFiles[p]) \in Nat
  BY LenProperties DEF StoreInv, IInv, LockTypes, inputs, CommandLines
<1>2. \A f \in Files : store[f] # Missing => store'[f] # Missing
  BY StoreStays
<1>3. /\ Holding(p) => /\ output(p) \in Files /\ Len(inputFiles[p]) <= Len(inputs(p))
                       /\ \A i \in 1..Len(inputFiles[p]) : store[inputs(p)[i]] # Missing
      /\ pc[p] = "lock" => /\ store[NextInput(p)] # Missing
                           /\ Len(inputFiles[p]) < Len(inputs(p))
      /\ Opened(p) => store[output(p)] # Missing
      /\ pc[p] = "parse" => inputFiles[p] = <<>>
  BY DEF StoreInv, PresentInv, IInv, PrefixInv
<1>4. \A i \in 1..Len(inputs(p)) : inputs(p)[i] \in Files
  BY <1>1, ElementOfSeq
<1>5. Holding(p) => \A i \in 1..Len(inputFiles[p]) : store'[inputs(p)[i]] # Missing
  BY <1>1, <1>2, <1>3, <1>4
<1>6. CASE Parse(p)
  <2>1. inputFiles'[p] = <<>>
    BY <1>3, <1>6 DEF Parse
  <2>2. Holding(p)' => output(p) \in Files
    BY <1>1, <1>6 DEF Parse, output, CommandLines
  <2>3. pc'[p] # "lock" /\ ~Opened(p)'
    BY <1>1, <1>6 DEF Parse
  <2>4. QED
    BY <2>1, <2>2, <2>3
<1>7. CASE Check(p)
  <2>1. inputFiles' = inputFiles /\ store' = store /\ pc[p] = "gather"
    BY <1>7 DEF Check
  <2>2. pc'[p] = "lock" => store[NextInput(p)] # Missing
    BY <1>1, <1>7 DEF Check
  <2>3. pc'[p] \in {"lock", "exit"}
    BY <1>1, <1>7 DEF Check
  <2>4. QED
    BY <1>3, <2>1, <2>2, <2>3 DEF NextInput
<1>8. CASE LockFile(p)
  <2>1. CASE Lockable(p, NextInput(p))
    <3>1. /\ pc[p] = "lock" /\ pc'[p] = "gather" /\ store' = store
          /\ inputFiles'[p] = Append(inputFiles[p], NextInput(p))
      BY <1>1, <1>8, <2>1 DEF LockFile
    <3>2. Len(inputFiles'[p]) = Len(inputFiles[p]) + 1
      BY <1>1, <3>1
    <3>3. store[inputs(p)[Len(inputFiles[p]) + 1]] # Missing
      BY <1>3, <3>1 DEF NextInput
    <3>4. \A i \in 1..Len(inputFiles'[p]) : store'[inputs(p)[i]] # Missing
      BY <1>1, <1>3, <3>1, <3>2, <3>3
    <3>5. QED
      BY <1>3, <3>1, <3>4
  <2>2. CASE ~Lockable(p, NextInput(p))
    <3>1. pc'[p] = "exit"
      BY <1>1, <1>8, <2>2 DEF LockFile
    <3>2. QED
      BY <3>1
  <2>3. QED
    BY <2>1, <2>2
<1>9. CASE Gathered(p)
  BY <1>1, <1>3, <1>5, <1>9 DEF Gathered
<1>10. CASE OpenOutput(p)
  <2>1. pc[p] = "output" /\ pc'[p] = "size" /\ inputFiles' = inputFiles
    BY <1>1, <1>10 DEF OpenOutput
  <2>2. output(p) \in Files /\ store \in [Files -> Contents \cup {Missing}]
    BY <1>3, <2>1 DEF StoreInv, StoreTypes
  <2>3. <<>> \in Contents
    BY EmptySeq DEF Contents
  <2>4. store'[output(p)] # Missing
    BY <1>10, <2>2, <2>3, ContentIsThere DEF OpenOutput
  <2>5. QED
    BY <1>3, <1>5, <2>1, <2>4
<1>11. CASE TotalSize(p) \/ Resize(p) \/ BeginCopy(p) \/ CopyByte(p)
  <2>1. Opened(p) /\ pc'[p] # "lock" /\ inputFiles' = inputFiles
    BY <1>1, <1>11 DEF TotalSize, Resize, BeginCopy, CopyByte
  <2>2. QED
    BY <1>2, <1>3, <1>5, <2>1
<1>12. CASE CopyDone(p) \/ CopyFails(p) \/ Unlock(p) \/ Closed(p) \/ Exit(p) \/ Kill(p)
  <2>1. pc'[p] \in {"close", "exit", "exited", "killed"}
    BY <1>1, <1>12 DEF CopyDone, CopyFails, Unlock, Closed, Exit, Kill
  <2>2. QED
    BY <2>1
<1>13. CASE GatherFails(p) \/ OpenOutputFails(p)
  <2>1. pc'[p] \in {"close", "exit"}
    BY <1>1, <1>13 DEF GatherFails, OpenOutputFails
  <2>2. QED
    BY <2>1
<1>14. QED
  BY <1>6, <1>7, <1>8, <1>9, <1>10, <1>11, <1>12, <1>13 DEF Step, Failure

(* Every step preserves the types and the presence of the files in use.    *)
LEMMA StepStoreInv == StoreInv /\ [Next]_vars => StoreInv'
<1> SUFFICES ASSUME StoreInv, [Next]_vars PROVE StoreInv'
  OBVIOUS
<1>1. IInv'
  BY StepIInv DEF StoreInv
<1>2. CASE UNCHANGED vars
  <2>1. StoreTypes' /\ PresentInv'
    BY <1>2 DEF vars, StoreInv, StoreTypes, PresentInv, Holding, Copying, Opened, inputs,
       output, NextInput
  <2>2. QED
    BY <1>1, <2>1 DEF StoreInv
<1>3. ASSUME NEW p \in Procs, Step(p) \/ Failure(p) PROVE StoreInv'
  <2>1. StoreTypes'
    BY <1>3, NumbersStay, StoreStays DEF StoreInv, StoreTypes
  <2>2. /\ command' = command
        /\ \A q \in Procs \ {p} : pc'[q] = pc[q] /\ inputFiles'[q] = inputFiles[q]
    BY <1>3, OthersKeep DEF StoreInv
  <2>3. \A f \in Files : store[f] # Missing => store'[f] # Missing
    BY <1>3, StoreStays
  <2>4. ASSUME NEW q \in Procs
        PROVE  /\ Holding(q)' =>
                    /\ output(q) \in Files
                    /\ \A i \in 1..Len(inputFiles'[q]) : store'[inputs(q)[i]] # Missing
               /\ pc'[q] = "lock" => store'[inputs(q)[Len(inputFiles'[q]) + 1]] # Missing
               /\ Opened(q)' => store'[output(q)] # Missing
    <3>1. CASE q = p
      BY <1>3, <3>1, OwnPresent
    <3>2. CASE q # p
      <4>1. pc'[q] = pc[q] /\ inputFiles'[q] = inputFiles[q]
        BY <2>2, <3>2
      <4>2. /\ Holding(q) => /\ output(q) \in Files /\ Len(inputFiles[q]) <= Len(inputs(q))
                             /\ \A i \in 1..Len(inputFiles[q]) : store[inputs(q)[i]] # Missing
            /\ pc[q] = "lock" => /\ store[NextInput(q)] # Missing
                                 /\ Len(inputFiles[q]) < Len(inputs(q))
            /\ Opened(q) => store[output(q)] # Missing
        BY DEF StoreInv, PresentInv, IInv, PrefixInv
      <4>3. /\ inputs(q) \in Seq(Files) /\ inputFiles[q] \in Seq(Files)
            /\ Len(inputs(q)) \in Nat /\ Len(inputFiles[q]) \in Nat
        BY LenProperties DEF StoreInv, IInv, LockTypes, inputs, CommandLines
      <4>4. \A i \in 1..Len(inputs(q)) : inputs(q)[i] \in Files
        BY <4>3, ElementOfSeq
      <4>5. Holding(q) => \A i \in 1..Len(inputFiles[q]) : store'[inputs(q)[i]] # Missing
        BY <2>3, <4>2, <4>3, <4>4
      <4>6. pc[q] = "lock" => store'[inputs(q)[Len(inputFiles[q]) + 1]] # Missing
        BY <2>3, <4>2, <4>3, <4>4 DEF NextInput
      <4>7. Opened(q) => Holding(q)
        BY DEF Opened, Holding, Copying
      <4>8. /\ Holding(q)' <=> Holding(q)
            /\ Opened(q)' <=> Opened(q)
        BY <4>1 DEF Opened, Holding, Copying
      <4>9. QED
        BY <2>3, <4>1, <4>2, <4>5, <4>6, <4>7, <4>8
    <3>3. QED
      BY <3>1, <3>2
  <2>5. PresentInv'
    BY <2>2, <2>4 DEF PresentInv, NextInput, inputs, output
  <2>6. QED
    BY <1>1, <2>1, <2>5 DEF StoreInv
<1>4. QED
  BY <1>2, <1>3 DEF Next

LEMMA StoreInvariance == Spec => []StoreInv
  BY InitStoreInv, StepStoreInv, PTL DEF Spec

(* main() of every process keeps its variables and the files in their      *)
(* types: totalSize() adds up lengths of files that exist, chunkedCopy()   *)
(* writes bytes of files, and the exit status is 0 or 1.                   *)
THEOREM PcatTypes == Spec => []TypeOK
<1>1. StoreInv => TypeOK
  BY DEF StoreInv, StoreTypes, IInv, LockTypes, TypeOK
<1>2. QED
  BY <1>1, StoreInvariance, PTL

-----------------------------------------------------------------------------
(* A file that is the output and the first input of one process            *)

\* The output of p is its first input, and nobody else's output.
InPlace(p) ==
    /\ inputs(p) # <<>> /\ Head(inputs(p)) = output(p)
    /\ \A q \in Procs \ {p} : output(q) # output(p)

\* What totalSize() returned is no less than the length of the output.
RoomInv == \A p \in Procs : InPlace(p) /\ pc[p] = "resize" => Len(store[output(p)]) <= total[p]

(* A sequence that agrees with another one as far as it goes.              *)
LEMMA PrefixOf ==
  ASSUME NEW S, NEW s \in Seq(S), NEW t \in Seq(S),
         Len(s) <= Len(t), \A i \in 1..Len(s) : s[i] = t[i]
  PROVE  IsPrefix(s, t)
<1> DEFINE n == Len(s)
           a == SubSeq(s, 1, n)
           b == SubSeq(t, 1, n)
<1>1. n \in Nat /\ Len(t) \in Nat
  BY LenProperties
<1>2. \A i \in 1..n : s[i] \in S /\ t[i] \in S
  BY <1>1, ElementOfSeq
<1>3. /\ a \in Seq(S) /\ Len(a) = IF 1 <= n THEN n - 1 + 1 ELSE 0
      /\ \A i \in 1..(n - 1 + 1) : a[i] = s[1 + i - 1]
  BY <1>1, <1>2, SubSeqProperties
<1>4. /\ b \in Seq(S) /\ Len(b) = IF 1 <= n THEN n - 1 + 1 ELSE 0
      /\ \A i \in 1..(n - 1 + 1) : b[i] = t[1 + i - 1]
  BY <1>1, <1>2, SubSeqProperties
<1> HIDE DEF a, b
<1>5. Len(a) = n /\ Len(b) = n /\ \A i \in 1..n : a[i] = b[i]
  BY <1>1, <1>3, <1>4
<1>6. a = b
  BY <1>3, <1>4, <1>5, SeqEqual
<1>7. QED
  BY <1>6 DEF IsPrefix, a, b

(* The output in place is a file, and the first argument.                  *)
LEMMA InPlaceFile ==
  ASSUME StoreInv, NEW p \in Procs, InPlace(p)
  PROVE  output(p) \in Files /\ Len(inputs(p)) > 0 /\ inputs(p)[1] = output(p)
<1>1. inputs(p) \in Seq(Files) /\ inputs(p) # <<>> /\ Head(inputs(p)) = output(p)
  BY DEF StoreInv, IInv, LockTypes, inputs, CommandLines, InPlace
<1>2. PICK s \in Seq(Files) : s = inputs(p)
  BY <1>1
<1>3. Len(s) > 0 /\ s[1] = Head(s) /\ Head(s) \in Files
  BY <1>1, <1>2, HeadTailProperties, EmptySeq, LenProperties
<1>4. QED
  BY <1>1, <1>2, <1>3

(* Nobody else changes it.                                                 *)
LEMMA InPlaceOnlyOwn ==
  ASSUME StoreInv, NEW p \in Procs, InPlace(p), NEW q \in Procs, q # p, Step(q) \/ Failure(q)
  PROVE  store'[output(p)] = store[output(p)]
<1>1. output(p) \in Files /\ output(q) # output(p)
  BY InPlaceFile DEF InPlace
<1>2. QED
  BY <1>1, StoreStays

LEMMA StepRoomInv == StoreInv /\ RoomInv /\ [Next]_vars => RoomInv'
<1> SUFFICES ASSUME StoreInv, RoomInv, [Next]_vars PROVE RoomInv'
  OBVIOUS
<1>1. CASE UNCHANGED vars
  BY <1>1 DEF vars, RoomInv, InPlace, inputs, output
<1>2. ASSUME NEW q \in Procs, Step(q) \/ Failure(q) PROVE RoomInv'
  <2>1. command' = command
    BY <1>2, NumbersStay
  <2>2. ASSUME NEW p \in Procs, InPlace(p), pc'[p] = "resize"
        PROVE  Len(store'[output(p)]) <= total'[p]
    <3>1. CASE q # p
      <4>1. pc'[p] = pc[p] /\ total'[p] = total[p]
        BY <1>2, <3>1, OthersKeep, NumbersStay DEF StoreInv
      <4>2. QED
        BY <1>2, <2>2, <3>1, <4>1, InPlaceOnlyOwn DEF RoomInv
    <3>2. CASE q = p
      <4>1. pc \in [Procs -> Pcs] /\ total \in [Procs -> Nat]
        BY DEF StoreInv, StoreTypes, IInv, LockTypes
      <4>2. TotalSize(p)
        BY <1>2, <2>2, <3>2, <4>1 DEF Step, Failure, Goto, Leave, Parse, Check, LockFile,
           Gathered, OpenOutput, Resize, BeginCopy, CopyByte, CopyDone, Unlock, Closed, Exit,
           GatherFails, OpenOutputFails, CopyFails, Kill
      <4>3. store' = store /\ total'[p] = Len(Concatenation(p)) /\ Copying(p)
        BY <4>1, <4>2 DEF TotalSize, Copying
      <4>4. Len(store[output(p)]) <= Len(Concatenation(p))
        BY <2>2, <4>3, ConcatenationIs, InPlaceFile
      <4>5. QED
        BY <4>3, <4>4
    <3>3. QED
      BY <3>1, <3>2
  <2>3. QED
    BY <2>1, <2>2 DEF RoomInv, InPlace, inputs, output
<1>3. QED
  BY <1>1, <1>2 DEF Next

(* pcat -o f f ...: f never gets shorter and its bytes stay as they were,  *)
(* at whatever point main() fails or the process is killed, and in         *)
(* whatever order the workers of chunkedCopy() write.                      *)
THEOREM InPlaceKept == Spec => InPlaceKeepsContent
<1> DEFINE A == \A p \in Procs :
                   /\ inputs(p) # <<>> /\ Head(inputs(p)) = output(p)
                   /\ \A q \in Procs \ {p} : output(q) # output(p)
                   /\ store[output(p)] # Missing
                   => IsPrefix(store[output(p)], store'[output(p)])
<1>1. Init => RoomInv
  BY DEF Init, RoomInv
<1>2. ASSUME StoreInv, RoomInv, NEW q \in Procs, Step(q) \/ Failure(q) PROVE A
  <2> SUFFICES ASSUME NEW p \in Procs, InPlace(p), store[output(p)] # Missing
               PROVE  IsPrefix(store[output(p)], store'[output(p)])
    BY DEF InPlace
  <2>1. /\ output(p) \in Files /\ Len(inputs(p)) > 0 /\ inputs(p)[1] = output(p)
        /\ store \in [Files -> Contents \cup {Missing}] /\ total[p] \in Nat
    BY <1>2, InPlaceFile DEF StoreInv, StoreTypes
  <2>2. PICK s : s = store[output(p)]
    OBVIOUS
  <2>3. s \in Contents /\ Len(s) \in Nat
    BY <2>1, <2>2, LenProperties DEF Contents
  <2>4. CASE store'[output(p)] = store[output(p)]
    BY <2>2, <2>3, <2>4, PrefixOf DEF Contents
  <2>5. CASE q # p
    BY <1>2, <2>4, <2>5, InPlaceOnlyOwn
  <2>6. CASE q = p /\ Resize(p) /\ store' = [store EXCEPT ![output(p)] =
                                              Resized(store[output(p)], total[p])]
    <3>1. Len(s) <= total[p]
      BY <1>2, <2>2, <2>6 DEF RoomInv, Resize
    <3>2. store'[output(p)] = Resized(s, total[p])
      BY <2>1, <2>2, <2>6
    <3>3. PICK t : t = Resized(s, total[p])
      OBVIOUS
    <3>4. /\ t \in Contents /\ Len(t) = total[p]
          /\ \A i \in 1..total[p] : t[i] = IF i <= Len(s) THEN s[i] ELSE Zero
      BY <2>1, <2>3, <3>3, ResizedIs
    <3>5. \A i \in 1..Len(s) : s[i] = t[i]
      BY <2>1, <2>3, <3>1, <3>4
    <3>6. QED
      BY <2>2, <2>3, <3>1, <3>2, <3>3, <3>4, <3>5, PrefixOf DEF Contents
  <2>7. CASE /\ q = p /\ CopyByte(p)
             /\ \E o \in 1..Len(store[output(p)]) :
                   store' = [store EXCEPT ![output(p)] =
                                [store[output(p)] EXCEPT ![o] = Byte(p, o)]]
    <3>1. PICK o \in 1..Len(s) : store' = [store EXCEPT ![output(p)] = [s EXCEPT ![o] = Byte(p, o)]]
      BY <2>2, <2>7
    <3>2. Copying(p)
      BY <2>7 DEF CopyByte, Copying
    <3>3. /\ Len(Concatenation(p)) \in Nat /\ Len(s) <= Len(Concatenation(p))
          /\ \A i \in 1..Len(s) : Concatenation(p)[i] = s[i]
      BY <1>2, <2>1, <2>2, <3>2, ConcatenationIs
    <3>4. Byte(p, o) = s[o]
      BY <2>3, <3>3 DEF Byte
    <3>5. s \in [1..Len(s) -> Files \cup {Zero}]
      BY <2>3, LenProperties DEF Contents
    <3>6. [s EXCEPT ![o] = Byte(p, o)] = s
      BY <3>4, <3>5
    <3>7. store'[output(p)] = s
      BY <2>1, <3>1, <3>6
    <3>8. QED
      BY <2>2, <2>4, <3>7
  <2>8. QED
    BY <1>2, <2>4, <2>5, <2>6, <2>7, Writes
<1>3. StoreInv /\ RoomInv /\ [Next]_vars => [A]_vars
  BY <1>2 DEF Next
<1>4. QED
  BY <1>1, <1>3, StepRoomInv, StoreInvariance, PTL DEF Spec, InPlaceKeepsContent

-----------------------------------------------------------------------------
(* Exit status 0                                                           *)

\* p has ended, or is about to end, a copy with exit status 0.
Succeeded(p) ==
    /\ pc[p] \in {"close", "exit", "exited"} /\ ret[p] = 0
    /\ ~command[p].version /\ ~command[p].help

\* How far the output is on its way to the concatenation of the inputs.
OnItsWay(p) ==
    /\ pc[p] = "resize" => total[p] = Len(Concatenation(p))
    /\ pc[p] \in {"begin", "copy"} => Len(store[output(p)]) = Len(Concatenation(p))
    /\ pc[p] = "copy" => \A o \in 1..Len(Concatenation(p)) :
                             o \notin todo[p] => store[output(p)][o] = Concatenation(p)[o]
    /\ Succeeded(p) => output(p) \in Files /\ store[output(p)] = Concatenation(p)

CopiedInv == \A p \in Procs : Unshared(p) => OnItsWay(p)

(* The inputs of a process whose files nobody writes, and its output as    *)
(* far as the other processes go.                                          *)
LEMMA UnsharedStays ==
  ASSUME StoreInv, NEW p \in Procs, Unshared(p), NEW q \in Procs, Step(q) \/ Failure(q)
  PROVE  /\ Concatenation(p)' = Concatenation(p)
         /\ q # p /\ output(p) \in Files => store'[output(p)] = store[output(p)]
<1>1. inputs(p) \in Seq(Files) /\ command' = command
  BY NumbersStay DEF StoreInv, IInv, LockTypes, inputs, CommandLines
<1>2. \A f \in Files : f # output(q) => store'[f] = store[f]
  BY StoreStays
<1>3. \A i \in 1..Len(inputs(p)) : inputs(p)[i] \in Files /\ output(q) # inputs(p)[i]
  BY <1>1, ElementOfSeq DEF Unshared
<1>4. \A i \in 1..Len(inputs(p)) : store'[inputs(p)[i]] = store[inputs(p)[i]]
  BY <1>2, <1>3
<1>5. inputs(p)' = inputs(p)
  BY <1>1 DEF inputs
<1>6. [i \in 1..Len(inputs(p)) |-> store[inputs(p)[i]]]'
      = [i \in 1..Len(inputs(p)) |-> store[inputs(p)[i]]]
  BY <1>4, <1>5
<1>7. Concatenation(p)' = Concatenation(p)
  BY <1>6 DEF Concatenation
<1>8. q # p /\ output(p) \in Files => store'[output(p)] = store[output(p)]
  BY <1>2 DEF Unshared
<1>9. QED
  BY <1>7, <1>8

(* The process itself brings its output on.                                *)
LEMMA OwnWay ==
  ASSUME StoreInv, NEW p \in Procs, Unshared(p), OnItsWay(p), Step(p) \/ Failure(p)
  PROVE  OnItsWay(p)'
<1> USE DEF Goto, Leave
<1>1. /\ pc \in [Procs -> Pcs] /\ ret \in [Procs -> {0, 1}] /\ total \in [Procs -> Nat]
      /\ todo \in [Procs -> SUBSET (Nat \ {0})] /\ store \in [Files -> Contents \cup {Missing}]
      /\ command \in [Procs -> CommandLines]
  BY DEF StoreInv, StoreTypes, IInv, LockTypes
<1>2. command' = command /\ inputs(p)' = inputs(p) /\ output(p)' = output(p)
  BY NumbersStay DEF inputs, output
<1>3. PICK c : c = Concatenation(p)
  OBVIOUS
<1>4. Concatenation(p)' = c
  BY <1>3, UnsharedStays
<1>5. Copying(p) => /\ output(p) \in Files /\ c \in Contents /\ Len(c) \in Nat
  BY <1>3, ConcatenationIs
<1>6. Opened(p) => Copying(p) /\ store[output(p)] # Missing
  BY DEF StoreInv, PresentInv, Opened, Copying
<1>7. Opened(p) => store[output(p)] \in Contents
  BY <1>1, <1>5, <1>6
<1>8. ASSUME pc'[p] \notin {"resize", "begin", "copy"}, ~Succeeded(p)' PROVE OnItsWay(p)'
  BY <1>8 DEF OnItsWay
<1>9. CASE Parse(p)
  <2>1. pc'[p] \in {"exit", "gather"}
    BY <1>1, <1>9 DEF Parse
  <2>2. pc'[p] = "exit" => ret'[p] = 1 \/ command[p].version \/ command[p].help
    BY <1>1, <1>9 DEF Parse
  <2>3. QED
    BY <1>2, <1>8, <2>1, <2>2 DEF Succeeded
<1>10. CASE Check(p) \/ LockFile(p) \/ GatherFails(p) \/ OpenOutputFails(p) \/ CopyFails(p)
  <2>1. \/ pc'[p] \in {"lock", "gather"}
        \/ pc'[p] \in {"exit", "close"} /\ ret'[p] = 1
    <3>1. CASE Check(p) \/ LockFile(p)
      BY <1>1, <3>1 DEF Check, LockFile
    <3>2. CASE GatherFails(p)
      BY <1>1, <3>2 DEF GatherFails
    <3>3. CASE OpenOutputFails(p) \/ CopyFails(p)
      BY <1>1, <3>3 DEF OpenOutputFails, CopyFails
    <3>4. QED
      BY <1>10, <3>1, <3>2, <3>3
  <2>2. QED
    BY <1>8, <2>1 DEF Succeeded
<1>11. CASE Gathered(p) \/ OpenOutput(p) \/ Kill(p)
  <2>1. pc'[p] \in {"output", "size", "killed"}
    BY <1>1, <1>11 DEF Gathered, OpenOutput, Kill
  <2>2. QED
    BY <1>8, <2>1 DEF Succeeded
<1>12. CASE TotalSize(p)
  <2>1. pc'[p] = "resize" /\ total'[p] = Len(c)
    BY <1>1, <1>3, <1>12 DEF TotalSize
  <2>2. QED
    BY <1>4, <2>1 DEF OnItsWay, Succeeded
<1>13. CASE Resize(p)
  <2>1. pc[p] = "resize" /\ pc'[p] = "begin" /\ Opened(p) /\ Copying(p)
    BY <1>1, <1>13 DEF Resize, Opened, Copying
  <2>2. total[p] = Len(c)
    BY <1>3, <2>1 DEF OnItsWay
  <2>3. store'[output(p)] = Resized(store[output(p)], total[p])
    BY <1>1, <1>5, <1>13, <2>1 DEF Resize
  <2>4. Len(store'[output(p)]) = Len(c)
    BY <1>1, <1>7, <2>1, <2>2, <2>3, ResizedIs
  <2>5. QED
    BY <1>2, <1>4, <2>1, <2>4 DEF OnItsWay, Succeeded
<1>14. CASE BeginCopy(p)
  <2>1. /\ pc[p] = "begin" /\ pc'[p] = "copy" /\ Opened(p) /\ Copying(p) /\ store' = store
        /\ todo'[p] = 1..Len(store[output(p)])
    BY <1>1, <1>14 DEF BeginCopy, Opened, Copying
  <2>2. Len(store[output(p)]) = Len(c)
    BY <1>3, <2>1 DEF OnItsWay
  <2>3. QED
    BY <1>2, <1>4, <2>1, <2>2 DEF OnItsWay, Succeeded
<1>15. CASE CopyByte(p)
  <2>1. pc[p] = "copy" /\ pc'[p] = "copy" /\ Opened(p) /\ Copying(p)
    BY <1>15 DEF CopyByte, Opened, Copying
  <2>2. PICK s : s = store[output(p)]
    OBVIOUS
  <2>3. /\ s \in Contents /\ Len(s) = Len(c) /\ Len(c) \in Nat
        /\ \A o \in 1..Len(c) : o \notin todo[p] => s[o] = c[o]
    BY <1>3, <1>5, <1>7, <2>1, <2>2 DEF OnItsWay
  <2>4. PICK o \in todo[p] :
           /\ store' = IF o <= Len(store[output(p)])
                       THEN [store EXCEPT ![output(p)][o] = Byte(p, o)] ELSE store
           /\ todo' = [todo EXCEPT ![p] = @ \ {o}]
    BY <1>15 DEF CopyByte, Byte
  <2>5. o \in Nat \ {0} /\ todo'[p] = todo[p] \ {o}
    BY <1>1, <2>4
  <2>6. CASE o <= Len(s)
    <3>1. o \in 1..Len(s) /\ Byte(p, o) = c[o]
      BY <1>3, <2>3, <2>5, <2>6 DEF Byte
    <3>2. c[o] \in Files \cup {Zero}
      BY <1>5, <2>1, <2>3, <3>1, ElementOfSeq DEF Contents
    <3>3. store'[output(p)] = [s EXCEPT ![o] = c[o]]
      BY <1>1, <1>5, <2>1, <2>2, <2>4, <2>6, <3>1
    <3>4. /\ Len(store'[output(p)]) = Len(s)
          /\ \A i \in 1..Len(s) : store'[output(p)][i] = IF i = o THEN c[o] ELSE s[i]
      BY <2>3, <3>1, <3>2, <3>3, ByteWritten
    <3>5. \A i \in 1..Len(c) : i \notin todo'[p] => store'[output(p)][i] = c[i]
      BY <2>3, <2>5, <3>4
    <3>6. QED
      BY <1>2, <1>4, <2>1, <2>3, <3>4, <3>5 DEF OnItsWay, Succeeded
  <2>7. CASE ~(o <= Len(s))
    <3>1. store' = store
      BY <2>2, <2>4, <2>7
    <3>2. \A i \in 1..Len(c) : i \notin todo'[p] => s[i] = c[i]
      BY <2>3, <2>5, <2>7
    <3>3. QED
      BY <1>2, <1>4, <2>1, <2>2, <2>3, <3>1, <3>2 DEF OnItsWay, Succeeded
  <2>8. QED
    BY <2>6, <2>7
<1>16. CASE CopyDone(p)
  <2>1. /\ pc[p] = "copy" /\ pc'[p] = "close" /\ Opened(p) /\ Copying(p) /\ store' = store
        /\ todo[p] = {}
    BY <1>1, <1>16 DEF CopyDone, Opened, Copying
  <2>2. PICK s : s = store[output(p)]
    OBVIOUS
  <2>3. /\ s \in Contents /\ c \in Contents /\ Len(s) = Len(c)
        /\ \A o \in 1..Len(s) : s[o] = c[o]
    BY <1>3, <1>5, <1>7, <2>1, <2>2 DEF OnItsWay
  <2>4. s = c
    BY <2>3, SeqEqual DEF Contents
  <2>5. QED
    BY <1>2, <1>4, <1>5, <2>1, <2>2, <2>4 DEF OnItsWay
<1>17. CASE Unlock(p) \/ Closed(p) \/ Exit(p)
  <2>1. /\ pc[p] \in {"close", "exit"} /\ pc'[p] \in {"close", "exit", "exited"}
        /\ store' = store /\ ret' = ret
    BY <1>1, <1>17 DEF Unlock, Closed, Exit
  <2>2. Succeeded(p)' => output(p) \in Files /\ store[output(p)] = c
    BY <1>2, <1>3, <2>1 DEF OnItsWay, Succeeded
  <2>3. QED
    BY <1>2, <1>4, <2>1, <2>2 DEF OnItsWay
<1>18. QED
  BY <1>9, <1>10, <1>11, <1>12, <1>13, <1>14, <1>15, <1>16, <1>17 DEF Step, Failure

LEMMA StepCopiedInv == StoreInv /\ CopiedInv /\ [Next]_vars => CopiedInv'
<1> SUFFICES ASSUME StoreInv, CopiedInv, [Next]_vars PROVE CopiedInv'
  OBVIOUS
<1>1. CASE UNCHANGED vars
  BY <1>1 DEF vars, CopiedInv, Unshared, OnItsWay, Succeeded, Concatenation, inputs, output
<1>2. ASSUME NEW q \in Procs, Step(q) \/ Failure(q), NEW p \in Procs, Unshared(p)'
      PROVE  OnItsWay(p)'
  <2>1. command' = command
    BY <1>2, NumbersStay
  <2>2. Unshared(p) /\ OnItsWay(p)
    BY <1>2, <2>1 DEF CopiedInv, Unshared, inputs, output
  <2>3. CASE q = p
    BY <1>2, <2>2, <2>3, OwnWay
  <2>4. CASE q # p
    <3>1. pc'[p] = pc[p] /\ total'[p] = total[p] /\ todo'[p] = todo[p] /\ ret'[p] = ret[p]
      BY <1>2, <2>4, OthersKeep, NumbersStay DEF StoreInv
    <3>2. /\ Concatenation(p)' = Concatenation(p) /\ output(p)' = output(p)
          /\ output(p) \in Files => store'[output(p)] = store[output(p)]
      BY <1>2, <2>1, <2>2, <2>4, UnsharedStays DEF output
    <3>3. pc[p] \in {"begin", "copy"} => output(p) \in Files
      BY DEF StoreInv, PresentInv, Holding, Copying
    <3>4. QED
      BY <2>1, <2>2, <3>1, <3>2, <3>3 DEF OnItsWay, Succeeded
  <2>5. QED
    BY <2>3, <2>4
<1>3. QED
  BY <1>1, <1>2 DEF Next, CopiedInv

(* A copy that ends with exit status 0 has left exactly the concatenation  *)
(* of its inputs in its output, as long as chunkedCopy() keeps the         *)
(* contract that Pcat states for it and no process writes what another one *)
(* reads or writes: for any number of processes, any of which may fail or  *)
(* be killed at any step of main().                                        *)
THEOREM ZeroIsCopied == Spec => []ZeroMeansCopied
<1>1. Init => CopiedInv
  BY DEF Init, CopiedInv, OnItsWay, Succeeded
<1>2. CopiedInv => ZeroMeansCopied
  BY DEF CopiedInv, OnItsWay, Succeeded, ZeroMeansCopied
<1>3. QED
  BY <1>1, <1>2, StepCopiedInv, StoreInvariance, PTL DEF Spec
-----------------------------------------------------------------------------
(* Every process ends                                                      *)

\* A lock belongs to a process that has begun to gather and has not ended.
LocksOfTheLiving ==
    \A p \in Procs, f \in Files :
        locks[f] = p => pc[p] \notin {"parse", "exited", "killed"}

(* Every step keeps the locks with the living.                             *)
LEMMA LivingStep == IInv /\ LocksOfTheLiving /\ [Next]_vars => LocksOfTheLiving'
<1> SUFFICES ASSUME IInv, LocksOfTheLiving, [Next]_vars PROVE LocksOfTheLiving'
  OBVIOUS
<1>1. CASE UNCHANGED vars
  BY <1>1 DEF vars, LocksOfTheLiving
<1>2. ASSUME NEW p \in Procs, Step(p) \/ Failure(p) PROVE LocksOfTheLiving'
  <2>1. /\ \A q \in Procs \ {p} : pc'[q] = pc[q]
        /\ pc' \in [Procs -> Pcs] /\ pc \in [Procs -> Pcs]
        /\ locks \in [Files -> Procs \cup {NoProc}]
    BY <1>2, OthersKeep DEF LockTypes, IInv
  <2>2. ASSUME NEW f \in Files, locks'[f] # locks[f], locks'[f] \in Procs
        PROVE  locks'[f] = p /\ pc'[p] = "gather"
    <3>1. CASE LockFile(p)
      BY <2>1, <2>2, <3>1 DEF LockFile, Leave, Goto
    <3>2. CASE ~LockFile(p)
      <4>1. locks' = locks \/ \E F : locks' = Released(p, F)
        BY <1>2, <3>2 DEF Step, Failure, Parse, Check, Gathered, OpenOutput, TotalSize, Resize,
           BeginCopy, CopyByte, CopyDone, Unlock, Closed, Exit, GatherFails, OpenOutputFails,
           CopyFails, Kill
      <4>2. QED
        BY <2>2, <4>1, PcatAssumption DEF Released
    <3>3. QED
      BY <3>1, <3>2
  <2>3. pc'[p] # "parse"
    BY <1>2, <2>1 DEF Step, Failure, Parse, Check, LockFile, Gathered, OpenOutput, TotalSize,
       Resize, BeginCopy, CopyByte, CopyDone, Unlock, Closed, Exit, GatherFails, OpenOutputFails,
       CopyFails, Kill, Leave, Goto
  <2>4. ASSUME pc'[p] \in {"exited", "killed"}, NEW f \in Files PROVE locks'[f] # p
    <3>1. CASE Exit(p) \/ Kill(p)
      <4>1. locks' = Released(p, Files)
        BY <3>1 DEF Exit, Kill
      <4>2. QED
        BY <4>1, PcatAssumption DEF Released
    <3>2. CASE ~Exit(p) /\ ~Kill(p)
      <4>1. pc[p] = pc'[p]
        BY <1>2, <2>1, <2>4, <3>2 DEF Step, Failure, Parse, Check, LockFile, Gathered,
           OpenOutput, TotalSize, Resize, BeginCopy, CopyByte, CopyDone, Unlock, Closed,
           GatherFails, OpenOutputFails, CopyFails, Leave, Goto
      <4>2. pc[p] \notin {"exited", "killed"}
        BY <1>2, <3>2 DEF Step, Failure, Parse, Check, LockFile, Gathered,
           OpenOutput, TotalSize, Resize, BeginCopy, CopyByte, CopyDone, Unlock, Closed,
           GatherFails, OpenOutputFails, CopyFails
      <4>3. QED
        BY <2>4, <4>1, <4>2
    <3>3. QED
      BY <3>1, <3>2
  <2>5. ASSUME NEW q \in Procs, NEW f \in Files, locks'[f] = q
        PROVE  pc'[q] \notin {"parse", "exited", "killed"}
    <3>1. CASE q = p
      BY <2>3, <2>4, <2>5, <3>1
    <3>2. CASE q # p
      <4>1. locks[f] = q
        BY <2>2, <2>5, <3>2
      <4>2. QED
        BY <2>1, <3>2, <4>1 DEF LocksOfTheLiving
    <3>3. QED
      BY <3>1, <3>2
  <2>6. QED
    BY <2>5 DEF LocksOfTheLiving
<1>3. QED
  BY <1>1, <1>2 DEF Next

(* No process leaves a lock behind, however it ends: not even one that is  *)
(* killed, or that returns without closeFiles().                           *)
THEOREM NoLockLeft == Spec => []LocksOfTheLiving
<1>1. Init => LocksOfTheLiving
  BY PcatAssumption DEF Init, LocksOfTheLiving
<1>2. QED
  BY <1>1, LivingStep, Invariance, PTL DEF Spec

\* The places of main() in the order it comes to them.
Stage(where) ==
    CASE where = "parse" -> 0 [] where \in {"gather", "lock"} -> 1
      [] where = "output" -> 2 [] where = "size" -> 3 [] where = "resize" -> 4
      [] where = "begin" -> 5 [] where = "copy" -> 6 [] where = "close" -> 7
      [] where = "exit" -> 8 [] where \in {"exited", "killed"} -> 9

\* p has got further: to a later place, or on with the same argument or to the
\* next in gatherFiles(), or it has fewer of finitely many bytes left to copy or
\* fewer files left to unlock.
Further(p) ==
    \/ Stage(pc'[p]) > Stage(pc[p])
    \/ pc[p] = "gather" /\ pc'[p] = "lock" /\ inputFiles'[p] = inputFiles[p]
    \/ /\ pc[p] = "lock" /\ pc'[p] = "gather"
       /\ Len(inputFiles'[p]) = Len(inputFiles[p]) + 1
       /\ Len(inputFiles'[p]) <= Len(inputs(p))
    \/ /\ pc[p] = "copy" /\ pc'[p] = "copy"
       /\ IsFiniteSet(todo[p]) /\ \E o \in todo[p] : todo'[p] = todo[p] \ {o}
    \/ /\ pc[p] = "close" /\ pc'[p] = "close"
       /\ Len(inputFiles'[p]) < Len(inputFiles[p])

Rests(p) == pc'[p] = pc[p] /\ inputFiles'[p] = inputFiles[p] /\ todo'[p] = todo[p]

\* What a process has left to do becomes less with each step it takes, whether
\* the step succeeds or fails, and no step of another process adds to it.
OnlyFurther ==
    [][\A p \in Procs : /\ Step(p) \/ Failure(p) => Further(p)
                        /\ Further(p) \/ Rests(p)]_vars

FiniteTodo == \A p \in Procs : IsFiniteSet(todo[p])

(* Only BeginCopy and CopyByte change what is left to copy, both for their *)
(* own process, and it stays finite.                                       *)
LEMMA TodoMoves ==
  ASSUME StoreInv, FiniteTodo, NEW p \in Procs, Step(p) \/ Failure(p)
  PROVE  /\ \A q \in Procs \ {p} : todo'[q] = todo[q]
         /\ FiniteTodo'
<1>0. todo \in [Procs -> SUBSET Nat]
  BY DEF StoreInv, StoreTypes
<1>1. CASE BeginCopy(p)
  <2>1. store[output(p)] \in Contents
    BY <1>1 DEF StoreInv, StoreTypes, PresentInv, Opened, Holding, Copying, BeginCopy
  <2>2. IsFiniteSet(1..Len(store[output(p)]))
    BY <2>1, FS_Interval DEF Contents
  <2>3. QED
    BY <1>0, <1>1, <2>2 DEF BeginCopy, FiniteTodo
<1>2. CASE CopyByte(p)
  <2>1. PICK o \in todo[p] : todo' = [todo EXCEPT ![p] = @ \ {o}]
    BY <1>2 DEF CopyByte
  <2>2. IsFiniteSet(todo[p] \ {o})
    BY FS_RemoveElement DEF FiniteTodo
  <2>3. QED
    BY <1>0, <2>1, <2>2 DEF FiniteTodo
<1>3. CASE ~BeginCopy(p) /\ ~CopyByte(p)
  <2>1. todo' = todo
    BY <1>3 DEF Step, Failure, Parse, Check, LockFile, Gathered, OpenOutput, TotalSize, Resize,
       CopyDone, Unlock, Closed, Exit, GatherFails, OpenOutputFails, CopyFails, Kill
  <2>2. QED
    BY <2>1 DEF FiniteTodo
<1>4. QED
  BY <1>1, <1>2, <1>3

(* No step of a process takes it back.                                     *)
LEMMA StepFurther ==
  ASSUME StoreInv, FiniteTodo, NEW p \in Procs, Step(p) \/ Failure(p)
  PROVE  Further(p)
<1>0. /\ pc \in [Procs -> Pcs] /\ pc' \in [Procs -> Pcs]
      /\ inputFiles \in [Procs -> Seq(Files)] /\ todo \in [Procs -> SUBSET Nat]
      /\ command \in [Procs -> CommandLines]
  BY OthersKeep DEF StoreInv, IInv, LockTypes, StoreTypes
<1>1. CASE LockFile(p)
  <2>1. CASE Lockable(p, NextInput(p))
    <3>1. /\ pc[p] = "lock" /\ pc'[p] = "gather"
          /\ inputFiles'[p] = Append(inputFiles[p], NextInput(p))
      BY <1>0, <1>1, <2>1 DEF LockFile, Goto
    <3>2. Len(inputFiles'[p]) = Len(inputFiles[p]) + 1 /\ Len(inputFiles[p]) \in Nat
      BY <1>0, <3>1
    <3>3. Len(inputFiles[p]) < Len(inputs(p))
      BY <3>1 DEF StoreInv, IInv, PrefixInv, Holding
    <3>4. Len(inputs(p)) \in Nat
      BY <1>0 DEF inputs, CommandLines
    <3>5. Len(inputFiles'[p]) <= Len(inputs(p))
      BY <3>2, <3>3, <3>4
    <3>6. QED
      BY <3>1, <3>2, <3>5 DEF Further
  <2>2. CASE ~Lockable(p, NextInput(p))
    BY <1>0, <1>1, <2>2 DEF LockFile, Leave, Goto, Further, Stage
  <2>3. QED
    BY <2>1, <2>2
<1>2. CASE CopyByte(p)
  <2>1. PICK o \in todo[p] : todo' = [todo EXCEPT ![p] = @ \ {o}]
    BY <1>2 DEF CopyByte
  <2>2. QED
    BY <1>0, <1>2, <2>1 DEF CopyByte, Further, FiniteTodo
<1>3. CASE Unlock(p)
  <2>1. /\ pc[p] = "close" /\ pc'[p] = "close" /\ inputFiles[p] # <<>>
        /\ inputFiles'[p] = Tail(inputFiles[p])
    BY <1>0, <1>3 DEF Unlock
  <2>2. Len(Tail(inputFiles[p])) < Len(inputFiles[p])
    BY <1>0, <2>1
  <2>3. QED
    BY <2>1, <2>2 DEF Further
<1>4. CASE Check(p)
  BY <1>0, <1>4 DEF Check, Leave, Goto, Further, Stage
<1>5. CASE Kill(p)
  BY <1>0, <1>5 DEF Kill, Goto, Further, Stage, Pcs
<1>6. CASE Parse(p)
  BY <1>0, <1>6 DEF Parse, Leave, Goto, Further, Stage
<1>7. CASE Gathered(p) \/ OpenOutput(p) \/ TotalSize(p) \/ Resize(p) \/ BeginCopy(p)
           \/ CopyDone(p) \/ Closed(p) \/ Exit(p)
  BY <1>0, <1>7 DEF Gathered, OpenOutput, TotalSize, Resize, BeginCopy, CopyDone, Closed, Exit,
     Leave, Goto, Further, Stage
<1>8. CASE GatherFails(p) \/ OpenOutputFails(p) \/ CopyFails(p)
  BY <1>0, <1>8 DEF GatherFails, OpenOutputFails, CopyFails, Leave, Goto, Further, Stage
<1>9. QED
  BY <1>1, <1>2, <1>3, <1>4, <1>5, <1>6, <1>7, <1>8 DEF Step, Failure

(* Every process comes to its end: there is no step, successful or failed, *)
(* that leaves a process with as much to do as before, and no process can  *)
(* make work for another.                                                  *)
THEOREM EndInSight == Spec => OnlyFurther
<1>1. Init => FiniteTodo
  BY FS_EmptySet DEF Init, FiniteTodo
<1>2. StoreInv /\ FiniteTodo /\ [Next]_vars => FiniteTodo'
  <2>1. UNCHANGED vars /\ FiniteTodo => FiniteTodo'
    BY DEF vars, FiniteTodo
  <2>2. QED
    BY <2>1, TodoMoves DEF Next
<1>3. StoreInv /\ FiniteTodo /\ [Next]_vars
      => [\A p \in Procs : /\ Step(p) \/ Failure(p) => Further(p)
                           /\ Further(p) \/ Rests(p)]_vars
  <2>. SUFFICES ASSUME StoreInv, FiniteTodo, [Next]_vars, NEW p \in Procs
                PROVE  /\ Step(p) \/ Failure(p) => Further(p)
                       /\ Further(p) \/ Rests(p)
    OBVIOUS
  <2>1. Step(p) \/ Failure(p) => Further(p)
    BY StepFurther
  <2>2. CASE UNCHANGED vars
    BY <2>1, <2>2 DEF vars, Rests
  <2>3. ASSUME NEW q \in Procs, Step(q) \/ Failure(q), q # p PROVE Rests(p)
    BY <2>3, OthersKeep, TodoMoves DEF Rests, StoreInv
  <2>4. QED
    BY <2>1, <2>2, <2>3 DEF Next
<1>4. QED
  BY <1>1, <1>2, <1>3, StoreInvariance, PTL DEF Spec, OnlyFurther
=============================================================================
