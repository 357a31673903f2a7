-------------------------- MODULE BlockLinearProofs --------------------------
(***************************************************************************)
(* Proofs about blockLinear, for every page and block size and every       *)
(* collection of files.  None of the properties is inductive: Inv adds     *)
(* that the input and the output side of every iterator denote the same    *)
(* place in the concatenation, how long the next block is, and how far the *)
(* output has been handed out (Frontier).                                  *)
(***************************************************************************)
EXTENDS BlockLinear, CopyProofs

-----------------------------------------------------------------------------
(* The inductive invariant                                                 *)

\* A worker's next block is what is left of its chunk or of the file.
Snug(c) == length(c.inputOffset) = Minimum(Rest(c), FileLength(c.file) - offset(c.inputOffset))

\* A block of the output begins here, and this is how long it is.
AtBlock(c) ==
    /\ Rest(c) = blockLength(outputLength - Pos(c))
    /\ Pos(c) < outputLength => Pos(c) % TransferBlockSize = 0

\* The iterator of the loop at the top of its body.
OnFiles(c) ==
    /\ Located(c)
    /\ AtBlock(c)
    /\ length(c.inputOffset) = blockLength(FileLength(c.file) - offset(c.inputOffset))

\* The last block of the output begins before the last input file.
SharedTail ==
    outputLength - 1 - ((outputLength - 1) % TransferBlockSize) < files.start[End - 1]

\* The iterator has overrun inputFiles.
Past(c) ==
    /\ c \in Chunks
    /\ c.file > End
    /\ Pos(c) = outputLength
    /\ Rest(c) = 0
    /\ SharedTail

\* The iterator before nextInputBlock(): one input block on, its input side
\* is where the next block of the output begins.
ToStep(c) ==
    /\ InOutput(c)
    /\ AtBlock(c)
    /\ Pos(c) < outputLength
    /\ c.file \in 1..End
    /\ c.inputLength = FileLength(c.file)
    /\ offset(c.inputOffset) >= 0
    /\ length(c.inputOffset) >= 0
    /\ offset(c.inputOffset) + length(c.inputOffset) <= FileLength(c.file)
    /\ files.start[c.file] + offset(c.inputOffset) + length(c.inputOffset) = Pos(c) + Rest(c)
    /\ c.file = End => SharedTail

\* chunkState_t::end() walks the files below one block of the output.
Walking ==
    /\ OnFiles(iter)
    /\ Pos(iter) < outputLength
    /\ Rest(iter) # length(iter.inputOffset)
    /\ Located(walk)
    /\ Snug(walk)
    /\ Pos(walk) + Rest(walk) = Pos(iter) + Rest(iter)

IterInv ==
    /\ mainPc \in {"test", "collect", "advance", "walk", "step", "finish", "done"}
    /\ mainPc \in {"test", "collect", "advance", "finish", "done"} => OnFiles(iter) \/ Past(iter)
    /\ mainPc = "walk" => Walking
    /\ mainPc = "step" => ToStep(iter)
    /\ iter \in Chunks

\* Every chunk that has something left is where it should be.
TaskInv == \A t \in tasks : Rest(t.chunk) > 0 => Located(t.chunk) /\ Snug(t.chunk)

\* The place up to which the output has been handed out.
Frontier ==
    IF mainPc = "test" THEN Pos(iter)
    ELSE IF mainPc \in {"finish", "done"} THEN outputLength
    ELSE Pos(iter) + Rest(iter)

FrontierInv == Behind(Frontier) /\ Covered(Frontier)

DoneInv == mainPc = "done" => tasks = {} /\ (failed => status = "error")

Inv ==
    /\ files \in FileSets
    /\ killed = FALSE
    /\ CopyInv
    /\ IterInv
    /\ TaskInv
    /\ FrontierInv
    /\ DoneInv

-----------------------------------------------------------------------------
(* chunkState_t                                                            *)

(* A worker's next block fits.                                             *)
LEMMA SnugFits ==
  ASSUME files \in FileSets, NEW c, Located(c), Snug(c)
  PROVE  /\ Fits(c)
         /\ length(c.inputOffset) \in Int /\ length(c.inputOffset) >= 0
         /\ length(c.inputOffset) <= Rest(c)
         /\ offset(c.inputOffset) + length(c.inputOffset) <= FileLength(c.file)
         /\ Rest(c) > 0 => c.file # End
<1> DEFINE o == offset(c.inputOffset)
           l == length(c.inputOffset)
           r == FileLength(c.file) - o
<1>1. InOutput(c) /\ c \in Chunks /\ At(c.file, o, Pos(c))
  BY DEF Located, InOutput
<1>2. o \in Int /\ l \in Int /\ Pos(c) \in Int /\ Rest(c) \in Int
  BY <1>1, ChunkParts
<1>3. /\ o \in Nat /\ FileLength(c.file) \in Nat /\ outputLength \in Nat
      /\ Pos(c) < outputLength => c.file # End /\ r > 0
      /\ o <= FileLength(c.file)
  BY <1>1, PlaceInOutput, Layout
<1>4. r \in Int /\ r >= 0
  BY <1>3
<1>5. l = Minimum(Rest(c), r)
  BY DEF Snug
<1> HIDE DEF l, r
<1>6. l <= Rest(c) /\ l <= r /\ (l = Rest(c) \/ l = r)
  BY <1>2, <1>4, <1>5, MinimumOf
<1>7. 0 <= Rest(c) /\ Pos(c) + Rest(c) <= outputLength
  BY <1>1 DEF InOutput
<1>8. l >= 0
  BY <1>2, <1>4, <1>6, <1>7
<1>9. o + l <= FileLength(c.file)
  BY <1>2, <1>3, <1>6 DEF r
<1>10. ASSUME Rest(c) > 0
       PROVE  c.file # End /\ l > 0 /\ c.file \in 1..count /\ FileLength(c.file) = files.length[c.file]
  <2>1. Pos(c) < outputLength
    BY <1>2, <1>3, <1>7, <1>10
  <2>2. c.file # End /\ r > 0
    BY <1>3, <2>1
  <2>3. l > 0
    BY <1>2, <1>4, <1>6, <1>10, <2>2
  <2>4. c.file \in 1..End
    BY <1>1 DEF At
  <2>5. QED
    BY <2>2, <2>3, <2>4, FilePlaces
<1>11. Fits(c)
  <2>1. Pos(c) = files.start[c.file] + o
    BY <1>1 DEF At
  <2>2. QED
    BY <1>3, <1>6, <1>9, <1>10, <2>1 DEF Fits, l
<1>12. QED
  BY <1>2, <1>6, <1>8, <1>9, <1>10, <1>11 DEF l

(* operator ++ gives the chunk that follows, with a next block that fits.  *)
LEMMA IncrementFollows ==
  ASSUME files \in FileSets, NEW c, Located(c), Snug(c), ~atEnd(c)
  PROVE  /\ Follows(Increment(c), c)
         /\ Located(Increment(c)) /\ Snug(Increment(c))
<1> DEFINE used == length(c.inputOffset)
           o    == offset(c.inputOffset)
           rem  == length(c.outputOffset) - used
           out  == WithLength(Plus(c.outputOffset, used), rem)
           d    == [c EXCEPT !.outputOffset = out]
           len  == LengthAfter(c)
           b    == BlockAfter(rem, len)
           n    == Increment(c)
<1>1. c \in Chunks /\ InOutput(c) /\ At(c.file, o, Pos(c)) /\ c.file \in 1..End
      /\ c.inputLength = FileLength(c.file)
  BY DEF Located, InOutput, At
<1>2. /\ o \in Int /\ used \in Int /\ Rest(c) \in Int /\ Rest(c) > 0
      /\ o \in Nat /\ FileLength(c.file) \in Nat /\ c.inputLength \in Int
  <2>1. Rest(c) \in Int /\ Rest(c) >= 0 /\ Rest(c) # 0
    BY <1>1, ChunkParts DEF InOutput, atEnd, Rest
  <2>2. QED
    BY <1>1, <2>1, ChunkParts, FilePlaces DEF At
<1>3. used >= 0 /\ used <= Rest(c) /\ o + used <= FileLength(c.file) /\ c.file # End
  BY <1>2, SnugFits
<1>4. rem = Rest(c) - used /\ rem \in Int
  BY <1>2 DEF Rest
<1>5. FileAfter(c) \in 1..End
  BY <1>1, <1>2, <1>3, PlaceAfter
<1>6. len \in Int
  BY <1>2, <1>5, FilePlaces DEF LengthAfter
<1>7. b = Minimum(rem, len) /\ b \in Int
  <2> HIDE DEF rem, len
  <2>1. Minimum(rem, len) \in Int
    BY <1>4, <1>6, MinimumOf
  <2>2. QED
    BY <2>1 DEF BlockAfter
<1>8. n = ChunkState(FileAfter(c), len, WithLength(PosAfter(c), b), out)
  <2>1. n = NextInputBlock(d, rem)
    BY DEF Increment
  <2>2. /\ d.file = c.file /\ d.inputLength = c.inputLength
        /\ d.inputOffset = c.inputOffset /\ d.outputOffset = out
    BY <1>1 DEF Chunks
  <2> HIDE DEF d, rem, out, n, used
  <2>3. QED
    BY <2>1, <2>2 DEF NextInputBlock, LengthAfter, FileAfter, PosAfter, OverAfter, InAfter
<1> HIDE DEF n, b
<1>9. /\ Located(n)
      /\ Pos(n) = Pos(c) + used /\ Rest(n) = Rest(c) - used
      /\ length(n.inputOffset) = b
      /\ FileLength(n.file) = len
      /\ OverAfter(c) => offset(n.inputOffset) = 0
      /\ ~OverAfter(c) => /\ n.file = c.file
                          /\ offset(n.inputOffset) = o + used
                          /\ used # FileLength(c.file) - o
  BY <1>3, <1>7, <1>8, ChunkAfter
<1> HIDE DEF rem, len
<1>10. Snug(n)
  <2>1. length(n.inputOffset) = Minimum(Rest(n), len)
    BY <1>4, <1>7, <1>9
  <2>2. CASE OverAfter(c)
    <3>1. FileLength(n.file) - offset(n.inputOffset) = len
      BY <1>6, <1>9, <2>2
    <3>2. QED
      BY <2>1, <3>1 DEF Snug
  <2>3. CASE ~OverAfter(c)
    <3>1. FileLength(c.file) - o \in Int /\ used = Minimum(Rest(c), FileLength(c.file) - o)
      BY <1>2 DEF Snug
    <3>2. used = Rest(c)
      BY <1>2, <1>9, <2>3, <3>1, MinimumOf
    <3>3. Rest(n) = 0
      BY <1>2, <1>9, <3>2
    <3>4. FileLength(n.file) - offset(n.inputOffset) \in Nat
      BY <1>2, <1>3, <1>9, <2>3
    <3>5. len \in Nat
      BY <1>2, <1>9, <2>3
    <3>6. Minimum(0, len) = 0 /\ Minimum(0, FileLength(n.file) - offset(n.inputOffset)) = 0
      BY <3>4, <3>5 DEF Minimum
    <3>7. QED
      BY <2>1, <3>3, <3>6 DEF Snug
  <2>4. QED
    BY <2>2, <2>3
<1>11. InOutput(n) /\ Fits(n)
  BY <1>9, <1>10, SnugFits DEF Located
<1>12. QED
  BY <1>9, <1>10, <1>11 DEF Follows, n

-----------------------------------------------------------------------------
(* chunking_t                                                              *)

(* The parts of the invariant depend on the files and their argument only. *)
LEMMA Kept ==
  ASSUME files' = files
  PROVE  /\ SharedTail' <=> SharedTail
         /\ \A c : /\ Snug(c)' <=> Snug(c)
                   /\ AtBlock(c)' <=> AtBlock(c)
                   /\ OnFiles(c)' <=> OnFiles(c)
                   /\ Past(c)' <=> Past(c)
                   /\ ToStep(c)' <=> ToStep(c)
<1>1. End' = End /\ outputLength' = outputLength
  BY FilesKept
<1>2. SharedTail' <=> SharedTail
  BY <1>1 DEF SharedTail
<1>3. \A f : FileLength(f)' = FileLength(f)
  BY PlaceKept
<1>4. \A c : Snug(c)' <=> Snug(c)
  BY <1>3 DEF Snug
<1>5. \A c : AtBlock(c)' <=> AtBlock(c)
  BY <1>1 DEF AtBlock
<1>6. \A c : OnFiles(c)' <=> OnFiles(c)
  BY <1>3, <1>5, PlaceKept DEF OnFiles
<1>7. \A c : Past(c)' <=> Past(c)
  BY <1>1, <1>2 DEF Past
<1>8. \A c : InOutput(c)' <=> InOutput(c)
  BY FilesKept
<1>9. \A c : ToStep(c)' <=> ToStep(c)
  BY <1>1, <1>2, <1>3, <1>5, <1>8 DEF ToStep
<1>10. QED
  BY <1>2, <1>4, <1>5, <1>6, <1>7, <1>9

(* What the loop queues.                                                   *)
LEMMA BlockToQueue ==
  ASSUME files \in FileSets, NEW c, OnFiles(c)
  PROVE  /\ c \in Chunks /\ InOutput(c) /\ Fits(c) /\ Located(c) /\ Snug(c)
         /\ Rest(c) > 0 => Pos(c) % PageSize = 0
         /\ Pos(c) < outputLength => Rest(c) > 0
         /\ Pos(c) \in Nat /\ Rest(c) \in Nat
<1> DEFINE o == offset(c.inputOffset)
           l == length(c.inputOffset)
           r == FileLength(c.file) - o
<1>1. /\ c \in Chunks /\ Located(c) /\ InOutput(c) /\ At(c.file, o, Pos(c))
      /\ Rest(c) = blockLength(outputLength - Pos(c))
      /\ Pos(c) < outputLength => Pos(c) % TransferBlockSize = 0
      /\ l = blockLength(r)
  BY DEF OnFiles, Located, InOutput, AtBlock
<1>2. /\ Pos(c) \in Nat /\ Pos(c) <= outputLength /\ outputLength \in Nat
      /\ r \in Nat /\ Pos(c) + r <= outputLength
  <2>1. /\ Pos(c) \in Nat /\ Pos(c) <= outputLength /\ o \in Nat
        /\ FileLength(c.file) \in Nat /\ o <= FileLength(c.file)
        /\ Pos(c) + (FileLength(c.file) - o) <= outputLength
    BY <1>1, PlaceInOutput
  <2>2. QED
    BY <2>1, Layout
<1> HIDE DEF r
<1>3. outputLength - Pos(c) \in Nat /\ r <= outputLength - Pos(c)
  BY <1>2
<1> DEFINE n == outputLength - Pos(c)
<1>4. /\ (Rest(c) = n /\ n <= TransferBlockSize) \/ Rest(c) = TransferBlockSize
      /\ Rest(c) \in Nat
      /\ n > 0 => Rest(c) > 0
  BY <1>1, <1>3, BlockLengthOf
<1>5. l = Minimum(Rest(c), r)
  <2>1. TransferBlockSize \in Nat
    BY CopyAssumption
  <2> HIDE DEF n
  <2>2. l = Minimum(TransferBlockSize, r)
    BY <1>1 DEF blockLength
  <2>3. r \in Nat /\ n \in Nat /\ r <= n
    BY <1>2, <1>3 DEF n
  <2>4. QED
    BY <1>4, <2>1, <2>2, <2>3 DEF Minimum
<1>6. Snug(c)
  BY <1>5 DEF Snug, r
<1>7. Fits(c)
  BY <1>1, <1>6, SnugFits
<1>8. Pos(c) < outputLength => Rest(c) > 0
  BY <1>2, <1>4
<1>9. ASSUME Rest(c) > 0 PROVE Pos(c) % PageSize = 0
  <2>1. Pos(c) + Rest(c) <= outputLength
    BY <1>1 DEF InOutput
  <2>2. Pos(c) < outputLength
    BY <1>2, <1>4, <1>9, <2>1
  <2>3. QED
    BY <1>1, <1>2, <2>2, CopyAssumption, PageSizeAssumption, MultipleOfMultiple
<1>10. QED
  BY <1>1, <1>2, <1>4, <1>6, <1>7, <1>8, <1>9

(* Only the last block can end at the end of the output, and if its first  *)
(* input block is not all of it, it begins before the last file.           *)
LEMMA LastBlock ==
  ASSUME files \in FileSets, NEW c, OnFiles(c), Pos(c) < outputLength,
         Rest(c) # length(c.inputOffset), Pos(c) + Rest(c) = outputLength
  PROVE  SharedTail
<1> DEFINE o == offset(c.inputOffset)
           s == files.start[c.file]
           f == FileLength(c.file)
           last == outputLength - 1
<1>1. /\ c \in Chunks /\ At(c.file, o, Pos(c))
      /\ Rest(c) = blockLength(outputLength - Pos(c))
      /\ Pos(c) % TransferBlockSize = 0
      /\ length(c.inputOffset) = Minimum(Rest(c), f - o)
  BY BlockToQueue DEF OnFiles, Located, InOutput, AtBlock, Snug
<1>2. /\ Pos(c) \in Nat /\ o \in Nat /\ f \in Nat /\ f - o > 0 /\ c.file # End
      /\ Pos(c) + (f - o) <= outputLength
      /\ c.file = count => Pos(c) + (f - o) = outputLength
      /\ outputLength \in Nat
  BY <1>1, PlaceInOutput, Layout
<1>3. /\ c.file \in 1..End /\ Pos(c) = s + o
  BY <1>1 DEF At
<1>4. /\ s \in Nat /\ c.file \in 1..count /\ count \in Nat /\ End = count + 1
      /\ f = files.length[c.file]
  BY <1>2, <1>3, FilePlaces, Layout
<1>5. c.file # count
  <2>1. ASSUME c.file = count PROVE FALSE
    <3>1. Rest(c) = f - o /\ Rest(c) \in Int
      BY <1>2, <2>1, BlockToQueue
    <3>2. Minimum(Rest(c), f - o) = Rest(c)
      BY <3>1 DEF Minimum
    <3>3. QED
      BY <1>1, <3>2
  <2>2. QED
    BY <2>1
<1>6. Pos(c) < files.start[count]
  <2>1. count \in c.file + 1..End /\ count \in 1..End
    BY <1>4, <1>5
  <2>2. s + f <= files.start[count]
    BY <1>4, <2>1, FilesInOrder
  <2>3. files.start[count] \in Nat
    BY <2>1, Layout
  <2>4. QED
    BY <1>2, <1>3, <1>4, <2>2, <2>3
<1>7. last - Pos(c) \in 0..TransferBlockSize - 1
  <2>1. Rest(c) <= TransferBlockSize /\ Rest(c) \in Nat /\ Rest(c) > 0
    <3>1. outputLength - Pos(c) \in Nat
      BY <1>2
    <3>2. QED
      BY <1>1, <3>1, BlockLengthOf, BlockToQueue
  <2>2. TransferBlockSize \in Nat
    BY CopyAssumption
  <2>3. QED
    BY <1>2, <2>1, <2>2
<1>8. (Pos(c) + (last - Pos(c))) % TransferBlockSize = last - Pos(c)
  BY <1>1, <1>2, <1>7, CopyAssumption, BlockBelow
<1>9. Pos(c) + (last - Pos(c)) = last
  BY <1>2
<1>10. last - (last % TransferBlockSize) = Pos(c)
  BY <1>2, <1>8, <1>9
<1>11. End - 1 = count
  BY <1>4
<1>12. QED
  BY <1>6, <1>10, <1>11 DEF SharedTail

(* nextInputBlock() moves both sides to the next block of the output, or   *)
(* the iterator past inputFiles.end().                                     *)
LEMMA StepMoves ==
  ASSUME files \in FileSets, ToStep(iter), Step
  PROVE  \E c : /\ iter' = c
                /\ (OnFiles(c) \/ Past(c))
                /\ c \in Chunks
                /\ Pos(c) = Pos(iter) + Rest(iter)
<1> DEFINE o    == offset(iter.inputOffset)
           l    == length(iter.inputOffset)
           next == Pos(iter) + Rest(iter)
           out  == Plus(iter.outputOffset, length(iter.outputOffset))
           in   == PosAfter(iter)
           file == FileAfter(iter)
<1>1. /\ iter \in Chunks /\ InOutput(iter) /\ AtBlock(iter)
      /\ Pos(iter) < outputLength
      /\ iter.file \in 1..End /\ iter.inputLength = FileLength(iter.file)
      /\ o >= 0 /\ l >= 0 /\ o + l <= FileLength(iter.file)
      /\ files.start[iter.file] + o + l = next
      /\ iter.file = End => SharedTail
  BY DEF ToStep, InOutput
<1>2. /\ o \in Int /\ l \in Int /\ Pos(iter) \in Int /\ Rest(iter) \in Int
      /\ iter.inputOffset \in Offsets /\ iter.outputOffset \in Offsets
      /\ 0 <= Pos(iter) /\ 0 <= Rest(iter) /\ next <= outputLength
  BY <1>1, ChunkParts DEF InOutput
<1>3. /\ FileLength(iter.file) \in Nat /\ files.start[iter.file] \in Nat /\ outputLength \in Nat
      /\ next \in Nat
  BY <1>1, <1>2, FilePlaces, Layout
<1>4. out \in Offsets /\ offset(out) = next
  BY <1>2, OffsetAlgebra DEF Pos, Rest
<1> DEFINE rest == blockLength(outputLength - next)
<1>5. rest \in Nat /\ rest <= outputLength - next
  <2>1. outputLength - next \in Nat
    BY <1>2, <1>3
  <2>2. QED
    BY <2>1, BlockLengthOf
<1>6. NextOutput = WithLength(out, rest)
  BY <1>4 DEF NextOutput
<1>7. NextOutput \in Offsets /\ offset(NextOutput) = next /\ length(NextOutput) = rest
  BY <1>4, <1>5, <1>6, OffsetAlgebra
<1>8. PICK len : /\ len \in IF ~OverAfter(iter) THEN {iter.inputLength}
                            ELSE IF file <= End THEN {FileLength(file)}
                            ELSE PastEndLengths
                 /\ iter' = ChunkState(file, len,
                                WithLength(in, blockLength(len - offset(in))), NextOutput)
  BY DEF Step, FileAfter, PosAfter, OverAfter, InAfter
<1> DEFINE inLen == blockLength(len - offset(in))
           c     == ChunkState(file, len, WithLength(in, inLen), NextOutput)
<1>9. next < outputLength => next % TransferBlockSize = 0
  <2>1. SUFFICES ASSUME next < outputLength PROVE next % TransferBlockSize = 0
    OBVIOUS
  <2>2. TransferBlockSize \in Nat \ {0} /\ TransferBlockSize % TransferBlockSize = 0
    <3>1. TransferBlockSize \in Nat \ {0}
      BY CopyAssumption
    <3>2. TransferBlockSize = TransferBlockSize * 1 + 0 /\ 0 \in 0..TransferBlockSize - 1
      BY <3>1
    <3>3. QED
      BY <3>1, <3>2, Remainder
  <2>3. outputLength - Pos(iter) \in Nat /\ Rest(iter) # outputLength - Pos(iter)
    BY <1>1, <1>2, <1>3, <2>1
  <2>4. Rest(iter) = TransferBlockSize
    BY <1>1, <2>3, BlockLengthOf DEF AtBlock
  <2>5. Pos(iter) % TransferBlockSize = 0
    BY <1>1 DEF AtBlock
  <2>6. QED
    BY <1>2, <2>2, <2>4, <2>5, NextMultiple
<1>10. CASE iter.file # End
  <2>1. /\ file \in 1..End /\ file \in Nat
        /\ in \in Offsets
        /\ At(file, offset(in), next)
    BY <1>1, <1>10, PlaceAfter
  <2>2. ~OverAfter(iter) => file = iter.file
    BY DEF FileAfter
  <2>3. len = FileLength(file) /\ len \in Int
    BY <1>1, <1>8, <2>1, <2>2, FilePlaces
  <2>4. len - offset(in) \in Nat
    BY <2>1, <2>3, PlaceInOutput
  <2>5. inLen \in Nat
    BY <2>4, BlockLengthOf
  <2>6. /\ WithLength(in, inLen) \in Offsets
        /\ offset(WithLength(in, inLen)) = offset(in) /\ length(WithLength(in, inLen)) = inLen
    BY <2>1, <2>5, OffsetAlgebra
  <2> HIDE DEF inLen, file, in, rest, next
  <2>7. /\ c \in Chunks /\ c.file = file /\ c.inputLength = len
        /\ c.inputOffset = WithLength(in, inLen)
        /\ Pos(c) = next /\ Rest(c) = rest
    BY <1>7, <2>1, <2>3, <2>6, ChunkMade
  <2> HIDE DEF c
  <2>8. InOutput(c)
    BY <1>3, <1>5, <2>7 DEF InOutput
  <2>9. Located(c)
    BY <2>1, <2>3, <2>6, <2>7, <2>8 DEF Located
  <2>10. AtBlock(c)
    BY <1>9, <2>7 DEF AtBlock, rest
  <2>11. OnFiles(c)
    BY <2>3, <2>6, <2>7, <2>9, <2>10 DEF OnFiles, inLen
  <2>12. QED
    BY <1>8, <2>7, <2>11 DEF c, file, in, inLen, next
<1>11. CASE iter.file = End
  <2>1. /\ FileLength(iter.file) = 0 /\ files.start[iter.file] = outputLength
        /\ iter.file \in Nat
    BY <1>1, <1>11, FilePlaces
  <2>2. o = 0 /\ l = 0 /\ next = outputLength
    BY <1>1, <1>2, <1>3, <2>1
  <2>3. OverAfter(iter)
    <3>1. offset(InAfter(iter)) = o + l
      BY <1>2, OffsetAlgebra DEF InAfter
    <3>2. QED
      BY <1>1, <2>1, <2>2, <3>1 DEF OverAfter
  <2>4. file = iter.file + 1 /\ in = NoOffset
    BY <2>3 DEF FileAfter, PosAfter
  <2>5. file \in Nat /\ file > End
    BY <1>11, <2>1, <2>4
  <2>6. len \in Int
    <3>1. End \in Nat
      BY Layout
    <3>2. ~(file <= End)
      BY <2>5, <3>1
    <3>3. len \in PastEndLengths
      BY <1>8, <2>3, <3>2
    <3>4. QED
      BY <3>3, PastEndAssumption
  <2>7. inLen \in Int
    <3>1. len - offset(in) \in Int
      BY <2>4, <2>6, NoOffsetParts
    <3>2. TransferBlockSize \in Int
      BY CopyAssumption
    <3>3. QED
      BY <3>1, <3>2 DEF blockLength, Minimum
  <2>8. WithLength(in, inLen) \in Offsets
    BY <2>4, <2>7, NoOffsetParts, OffsetAlgebra
  <2>9. rest = 0
    BY <1>3, <1>5, <2>2
  <2> HIDE DEF inLen, file, in, rest, next
  <2>10. /\ c \in Chunks /\ c.file = file /\ Pos(c) = next /\ Rest(c) = rest
    BY <1>7, <2>5, <2>6, <2>8, ChunkMade
  <2> HIDE DEF c
  <2>11. Past(c)
    BY <1>1, <1>11, <2>2, <2>5, <2>9, <2>10 DEF Past
  <2>12. QED
    BY <1>8, <2>10, <2>11 DEF c, file, in, inLen, next
<1>12. QED
  BY <1>10, <1>11

-----------------------------------------------------------------------------
(* The invariant is inductive                                              *)

(* The iterator starts at the first file and the first block.              *)
LEMMA BeginOnFiles ==
  ASSUME files \in FileSets
  PROVE  LET c == Begin(blockLength(outputLength)) IN OnFiles(c) /\ Pos(c) = 0
<1> DEFINE len == FileLength(1)
           in  == MappingOffset(0, blockLength(len))
           out == MappingOffset(0, blockLength(outputLength))
           c   == ChunkState(1, len, in, out)
<1>1. /\ 1 \in 1..End /\ 1 \in Nat /\ files.start[1] = 0
      /\ len \in Nat /\ outputLength \in Nat
      /\ 1 # End => len > 0
  BY Layout, FilePlaces
<1>2. /\ blockLength(len) \in Nat /\ blockLength(outputLength) \in Nat
      /\ blockLength(outputLength) <= outputLength
  BY <1>1, BlockLengthOf
<1>3. /\ in \in Offsets /\ offset(in) = 0 /\ length(in) = blockLength(len)
      /\ out \in Offsets /\ offset(out) = 0 /\ length(out) = blockLength(outputLength)
  BY <1>2, OffsetParts
<1> HIDE DEF in, out
<1>4. /\ c \in Chunks /\ c.file = 1 /\ c.inputLength = len /\ c.inputOffset = in
      /\ Pos(c) = 0 /\ Rest(c) = blockLength(outputLength)
  BY <1>1, <1>3, ChunkMade
<1>5. c = Begin(blockLength(outputLength))
  BY DEF Begin, in, out
<1> HIDE DEF c
<1>6. InOutput(c)
  BY <1>1, <1>2, <1>4 DEF InOutput
<1>7. At(1, 0, 0)
  BY <1>1 DEF At
<1>8. Located(c)
  BY <1>3, <1>4, <1>6, <1>7 DEF Located
<1>9. 0 % TransferBlockSize = 0
  <2>1. TransferBlockSize \in Nat \ {0} /\ 0 = TransferBlockSize * 0 + 0
        /\ 0 \in 0..TransferBlockSize - 1
    BY CopyAssumption
  <2>2. QED
    BY <2>1, Remainder
<1>10. AtBlock(c)
  <2>1. outputLength - 0 = outputLength
    BY <1>1
  <2>2. QED
    BY <1>4, <1>9, <2>1 DEF AtBlock
<1>11. len - 0 = len
  BY <1>1
<1>12. OnFiles(c)
  BY <1>3, <1>4, <1>8, <1>10, <1>11 DEF OnFiles
<1>13. QED
  BY <1>4, <1>5, <1>12

LEMMA InitInv == Init => Inv
<1> SUFFICES ASSUME Init PROVE Inv
  OBVIOUS
<1>1. CopyInit /\ mainPc = "test" /\ iter = Begin(blockLength(outputLength))
  BY DEF Init
<1>2. files \in FileSets /\ CopyInv /\ Behind(0) /\ Covered(0) /\ ~failed /\ ~killed
  BY <1>1, CopyStarts
<1>3. OnFiles(iter) /\ Pos(iter) = 0
  BY <1>1, <1>2, BeginOnFiles
<1>4. iter \in Chunks
  BY <1>3 DEF OnFiles, Located, InOutput
<1>5. IterInv
  BY <1>1, <1>3, <1>4 DEF IterInv
<1>6. TaskInv
  BY <1>1 DEF CopyInit, TaskInv
<1>7. FrontierInv
  BY <1>1, <1>2, <1>3 DEF FrontierInv, Frontier
<1>8. DoneInv
  BY <1>1 DEF DoneInv
<1>9. QED
  BY <1>2, <1>5, <1>6, <1>7, <1>8 DEF Inv

(* The iterator of the loop is a chunk at a place of the output.           *)
LEMMA IterParts ==
  ASSUME Inv
  PROVE  /\ files \in FileSets /\ CopyInv /\ iter \in Chunks
         /\ Pos(iter) \in Int /\ Rest(iter) \in Int /\ outputLength \in Nat
         /\ Frontier \in Int
         /\ Behind(Frontier) /\ Covered(Frontier)
<1>1. files \in FileSets /\ CopyInv /\ iter \in Chunks
  BY DEF Inv, IterInv
<1>2. Pos(iter) \in Int /\ Rest(iter) \in Int /\ outputLength \in Nat
  BY <1>1, ChunkParts, Layout
<1>3. Frontier \in Int
  BY <1>2 DEF Frontier
<1>4. QED
  BY <1>1, <1>2, <1>3 DEF Inv, FrontierInv

(* What a limit says is what its value says.                               *)
LEMMA LimitIs ==
  ASSUME NEW limit
  PROVE  /\ Behind(limit)' /\ Covered(limit)' /\ Frontier' = limit => FrontierInv'
         /\ Frontier = limit /\ FrontierInv => Behind(limit) /\ Covered(limit)
BY DEF FrontierInv, Behind, Covered

(* A worker's step.                                                        *)
LEMMA WorkersKeep == Inv /\ Workers => Inv'
<1> SUFFICES ASSUME Inv, Workers PROVE Inv'
  OBVIOUS
<1>1. PICK t \in tasks : CopyStep(t, Increment(t.chunk))
  BY DEF Workers
<1>2. UNCHANGED <<mainPc, iter, walk, status>>
  BY DEF Workers, loopVars
<1>3. files \in FileSets /\ CopyInv /\ TaskInv /\ TaskOK(t) /\ iter \in Chunks /\ Frontier \in Int
  BY IterParts DEF Inv, CopyInv
<1>4. ASSUME ~atEnd(t.chunk)
      PROVE  /\ Follows(Increment(t.chunk), t.chunk)
             /\ Located(Increment(t.chunk)) /\ Snug(Increment(t.chunk))
  <2>1. Rest(t.chunk) > 0
    BY <1>3, <1>4, TaskParts
  <2>2. Located(t.chunk) /\ Snug(t.chunk)
    BY <1>3, <2>1 DEF TaskInv
  <2>3. QED
    BY <1>3, <1>4, <2>2, IncrementFollows
<1>5. /\ files' = files /\ killed' = killed
      /\ CopyInv'
      /\ \A limit \in Int : /\ Behind(limit) => Behind(limit)'
                            /\ Covered(limit) => Covered(limit)'
      /\ \A u \in tasks' : \/ u \in tasks
                           \/ u.chunk = t.chunk
                           \/ ~atEnd(t.chunk) /\ u.chunk = Increment(t.chunk)
  BY <1>1, <1>2, <1>3, <1>4, CopyStepKeeps
<1>6. \A c : /\ Snug(c)' <=> Snug(c)
             /\ Located(c)' <=> Located(c)
  BY <1>5, Kept, PlaceKept
<1>7. TaskInv'
  <2>1. \A u \in tasks' : Rest(u.chunk) > 0 => Located(u.chunk) /\ Snug(u.chunk)
    BY <1>3, <1>4, <1>5 DEF TaskInv
  <2>2. QED
    BY <1>6, <2>1 DEF TaskInv
<1>8. IterInv'
  <2>1. IterInv
    BY DEF Inv
  <2>2. (OnFiles(iter)' <=> OnFiles(iter)) /\ (Past(iter)' <=> Past(iter))
        /\ (ToStep(iter)' <=> ToStep(iter))
    BY <1>2, <1>5, Kept
  <2>3. Walking' <=> Walking
    BY <1>2, <1>5, <1>6, <2>2, FilesKept DEF Walking
  <2>4. QED
    BY <1>2, <2>1, <2>2, <2>3 DEF IterInv
<1>9. FrontierInv'
  <2>1. PICK limit \in Int : limit = Frontier
    BY <1>3
  <2>2. Behind(limit) /\ Covered(limit)
    BY <2>1, LimitIs DEF Inv
  <2>3. Frontier' = limit
    BY <1>2, <1>5, <2>1, FilesKept DEF Frontier
  <2>4. QED
    BY <1>5, <2>2, <2>3, LimitIs
<1>10. DoneInv'
  <2>1. mainPc = "done" => FALSE
    BY DEF Inv, DoneInv
  <2>2. QED
    BY <1>2, <2>1 DEF DoneInv
<1>11. QED
  BY <1>3, <1>5, <1>7, <1>8, <1>9, <1>10 DEF Inv

\* A failure is or will be reported.
Reported == failed \/ status = "error"

(* A step of the main thread that queues nothing.                          *)
LEMMA MainKeeps ==
  ASSUME Inv, UNCHANGED <<files, output, tasks>>, killed' = FALSE,
         Reported => Reported',
         IterInv', DoneInv',
         Frontier' = Frontier \/ (Frontier' = outputLength /\ status' = "error")
  PROVE  Inv'
<1>1. /\ files \in FileSets /\ CopyInv /\ Frontier \in Int
      /\ Behind(Frontier) /\ Covered(Frontier) /\ outputLength \in Nat
  BY IterParts
<1>2. CopyInv' /\ \A limit \in Int : /\ Behind(limit) => Behind(limit)'
                                     /\ Covered(limit) => Covered(limit)'
  BY <1>1, NothingCopied DEF Reported
<1>3. TaskInv'
  <2>1. \A c : /\ Snug(c)' <=> Snug(c)
               /\ Located(c)' <=> Located(c)
    BY Kept, PlaceKept
  <2>2. TaskInv
    BY DEF Inv
  <2>3. QED
    BY <2>1, <2>2 DEF TaskInv
<1>4. FrontierInv'
  <2>1. CASE Frontier' = Frontier
    <3>1. PICK limit \in Int : limit = Frontier
      BY <1>1
    <3>2. Behind(limit) /\ Covered(limit)
      BY <3>1, LimitIs DEF Inv
    <3>3. QED
      BY <1>2, <2>1, <3>1, <3>2, LimitIs
  <2>2. CASE Frontier' = outputLength /\ status' = "error"
    <3>1. PICK limit \in Int : limit = outputLength
      BY <1>1
    <3>2. Behind(limit)
      BY <1>1, <3>1, AllCopied DEF Behind
    <3>3. Covered(limit)'
      BY <2>2 DEF Covered
    <3>4. QED
      BY <1>2, <2>2, <3>1, <3>2, <3>3, LimitIs
  <2>3. QED
    BY <2>1, <2>2
<1>5. QED
  BY <1>1, <1>2, <1>3, <1>4 DEF Inv

(* Where the iterator is does not change with files and iterator.          *)
LEMMA IterKept ==
  ASSUME files' = files, iter' = iter
  PROVE  /\ OnFiles(iter)' <=> OnFiles(iter)
         /\ Past(iter)' <=> Past(iter)
         /\ ToStep(iter)' <=> ToStep(iter)
         /\ Pos(iter)' = Pos(iter) /\ Rest(iter)' = Rest(iter)
         /\ outputLength' = outputLength
         /\ iter' \in Chunks <=> iter \in Chunks
BY Kept, FilesKept DEF Pos, Rest

LEMMA LoopEndsKeeps == Inv /\ LoopEnds => Inv'
<1> SUFFICES ASSUME Inv, LoopEnds PROVE Inv'
  OBVIOUS
<1>1. /\ mainPc = "test" /\ AtLoopEnd /\ mainPc' = "finish"
      /\ UNCHANGED <<files, output, tasks, failed, killed, iter, walk, status>>
  BY DEF LoopEnds, copyVars
<1>2. IterInv'
  BY <1>1, IterKept DEF Inv, IterInv
<1>3. DoneInv'
  BY <1>1 DEF DoneInv
<1>4. Frontier' = Frontier
  BY <1>1, FilesKept DEF Frontier, AtLoopEnd, Pos
<1>5. Reported => Reported'
  BY <1>1, Zenon DEF Reported
<1>6. QED
  BY <1>1, <1>2, <1>3, <1>4, <1>5, MainKeeps DEF Inv

LEMMA CollectKeeps == Inv /\ Collect => Inv'
<1> SUFFICES ASSUME Inv, Collect PROVE Inv'
  OBVIOUS
<1>1. /\ mainPc = "collect" /\ failed' = FALSE
      /\ status' = IF failed THEN "error" ELSE status
      /\ mainPc' = IF failed THEN "finish" ELSE "advance"
      /\ UNCHANGED <<files, output, tasks, killed, iter, walk>>
  BY DEF Collect
<1>2. IterInv'
  BY <1>1, IterKept DEF Inv, IterInv
<1>3. DoneInv'
  BY <1>1 DEF DoneInv
<1>4. Frontier' = Frontier \/ (Frontier' = outputLength /\ status' = "error")
  <2>1. CASE failed
    <3>1. mainPc' = "finish" /\ status' = "error"
      BY <1>1, <2>1, Zenon
    <3>2. outputLength' = outputLength
      BY <1>1, FilesKept
    <3>3. Frontier' = outputLength
      BY <3>1, <3>2 DEF Frontier
    <3>4. QED
      BY <3>1, <3>3
  <2>2. CASE ~failed
    <3>1. mainPc' = "advance"
      BY <1>1, <2>2, Zenon
    <3>2. QED
      BY <1>1, <3>1, IterKept DEF Frontier
  <2>3. QED
    BY <2>1, <2>2
<1>5. Reported => Reported'
  BY <1>1, Zenon DEF Reported
<1>6. QED
  BY <1>1, <1>2, <1>3, <1>4, <1>5, MainKeeps DEF Inv

LEMMA FinishKeeps == Inv /\ Finish => Inv'
<1> SUFFICES ASSUME Inv, Finish PROVE Inv'
  OBVIOUS
<1>1. /\ mainPc = "finish" /\ tasks = {} /\ mainPc' = "done"
      /\ status' = IF failed THEN "error" ELSE status
      /\ UNCHANGED <<files, output, tasks, failed, killed, iter, walk>>
  BY DEF Finish, copyVars
<1>2. IterInv'
  BY <1>1, IterKept DEF Inv, IterInv
<1>3. DoneInv'
  BY <1>1 DEF DoneInv
<1>4. Frontier' = Frontier
  BY <1>1, IterKept DEF Frontier
<1>5. Reported => Reported'
  BY <1>1, Zenon DEF Reported
<1>6. QED
  BY <1>1, <1>2, <1>3, <1>4, <1>5, MainKeeps DEF Inv

LEMMA QueueChunkKeeps == Inv /\ QueueChunk => Inv'
<1> SUFFICES ASSUME Inv, QueueChunk PROVE Inv'
  OBVIOUS
<1>1. /\ mainPc = "test" /\ mainPc' = "collect" /\ tasks' = tasks \cup {NewTask(iter)}
      /\ UNCHANGED <<files, output, failed, killed, iter, walk, status>>
  BY DEF QueueChunk
<1>2. /\ files \in FileSets /\ CopyInv /\ iter \in Chunks
      /\ Pos(iter) \in Int /\ Rest(iter) \in Int
      /\ Frontier = Pos(iter) /\ Behind(Pos(iter)) /\ Covered(Pos(iter))
  BY <1>1, IterParts DEF Frontier
<1>3. OnFiles(iter) \/ Past(iter)
  BY <1>1 DEF Inv, IterInv
<1>4. /\ InOutput(iter) /\ Fits(iter)
      /\ Rest(iter) > 0 => Pos(iter) % PageSize = 0 /\ Located(iter) /\ Snug(iter)
  <2>1. CASE OnFiles(iter)
    BY <1>2, <2>1, BlockToQueue
  <2>2. CASE Past(iter)
    <3>1. Rest(iter) = 0 /\ Pos(iter) = outputLength /\ outputLength \in Nat
      BY <1>2, <2>2, IterParts DEF Past
    <3>2. QED
      BY <1>2, <3>1 DEF InOutput, Fits
  <2>3. QED
    BY <1>3, <2>1, <2>2
<1>5. PICK c : c = iter
  OBVIOUS
<1>6. InOutput(c) /\ Fits(c) /\ (Rest(c) > 0 => Pos(c) % PageSize = 0)
      /\ Behind(Pos(c)) /\ Covered(Pos(c)) /\ tasks' = tasks \cup {NewTask(c)}
  BY <1>1, <1>2, <1>4, <1>5
<1>7. CopyInv' /\ Behind(Pos(c) + Rest(c))' /\ Covered(Pos(c) + Rest(c))'
  BY <1>1, <1>2, <1>6, ChunkQueued
<1>8. FrontierInv'
  <2>1. PICK limit \in Int : limit = Pos(c) + Rest(c)
    BY <1>2, <1>5
  <2>2. Behind(limit)' /\ Covered(limit)'
    BY <1>7, <2>1
  <2>3. Frontier' = limit
    BY <1>1, <1>5, <2>1 DEF Frontier
  <2>4. QED
    BY <2>2, <2>3, LimitIs
<1>9. TaskInv'
  <2>1. \A d : /\ Snug(d)' <=> Snug(d)
               /\ Located(d)' <=> Located(d)
    BY <1>1, Kept, PlaceKept
  <2>2. NewTask(iter).chunk = iter
    BY DEF NewTask
  <2>3. \A t \in tasks' : Rest(t.chunk) > 0 => Located(t.chunk) /\ Snug(t.chunk)
    BY <1>1, <1>4, <2>2 DEF Inv, TaskInv
  <2>4. QED
    BY <2>1, <2>3 DEF TaskInv
<1>10. IterInv'
  BY <1>1, <1>2, <1>3, IterKept DEF IterInv
<1>11. DoneInv'
  BY <1>1 DEF DoneInv
<1>12. QED
  BY <1>1, <1>2, <1>7, <1>8, <1>9, <1>10, <1>11 DEF Inv

LEMMA AdvanceKeeps == Inv /\ Advance => Inv'
<1> SUFFICES ASSUME Inv, Advance PROVE Inv'
  OBVIOUS
<1>1. /\ mainPc = "advance" /\ walk' = iter
      /\ mainPc' = IF offset(iter.outputOffset) = outputLength THEN "test"
                   ELSE IF length(iter.outputOffset) # length(iter.inputOffset) THEN "walk"
                   ELSE "step"
      /\ UNCHANGED <<files, output, tasks, failed, killed, iter, status>>
  BY DEF Advance, copyVars
<1>2. /\ files \in FileSets /\ iter \in Chunks /\ (OnFiles(iter) \/ Past(iter))
      /\ Pos(iter) \in Int /\ Rest(iter) \in Int /\ outputLength \in Nat
  BY <1>1, IterParts DEF Inv, IterInv
<1>3. Reported => Reported'
  BY <1>1, Zenon DEF Reported
<1>4. DoneInv'
  BY <1>1 DEF DoneInv
<1>5. CASE Pos(iter) = outputLength
  <2>1. mainPc' = "test"
    BY <1>1, <1>5 DEF Pos
  <2>2. IterInv'
    BY <1>1, <1>2, <2>1, IterKept DEF IterInv
  <2>3. Rest(iter) = 0
    <3>1. CASE OnFiles(iter)
      <4>1. outputLength - Pos(iter) \in Nat /\ outputLength - Pos(iter) = 0
        BY <1>2, <1>5
      <4>2. Rest(iter) = blockLength(outputLength - Pos(iter))
        BY <3>1 DEF OnFiles, AtBlock
      <4>3. QED
        BY <4>1, <4>2, BlockLengthOf
    <3>2. CASE Past(iter)
      BY <3>2 DEF Past
    <3>3. QED
      BY <1>2, <3>1, <3>2
  <2>4. Frontier' = Frontier
    <3>1. Frontier = Pos(iter) + Rest(iter)
      BY <1>1 DEF Frontier
    <3>2. Frontier' = Pos(iter)
      BY <1>1, <2>1, IterKept DEF Frontier
    <3>3. QED
      BY <1>2, <2>3, <3>1, <3>2
  <2>5. QED
    BY <1>1, <1>3, <1>4, <2>2, <2>4, MainKeeps DEF Inv
<1>6. CASE Pos(iter) # outputLength
  <2>1. OnFiles(iter)
    BY <1>2, <1>6 DEF Past
  <2>2. /\ Located(iter) /\ Snug(iter) /\ InOutput(iter)
        /\ Pos(iter) < outputLength /\ Rest(iter) > 0
    <3>1. Located(iter) /\ Snug(iter) /\ InOutput(iter)
      BY <1>2, <2>1, BlockToQueue
    <3>2. Pos(iter) <= outputLength
      BY <1>2, <3>1 DEF InOutput
    <3>3. Pos(iter) < outputLength
      BY <1>2, <1>6, <3>2
    <3>4. QED
      BY <1>2, <2>1, <3>1, <3>3, BlockToQueue
  <2>3. CASE Rest(iter) # length(iter.inputOffset)
    <3>1. mainPc' = "walk"
      BY <1>1, <1>6, <2>3 DEF Pos, Rest
    <3>2. Walking'
      <4>1. Located(walk)' /\ Snug(walk)'
        BY <1>1, <2>2, Kept, PlaceKept
      <4>2. /\ OnFiles(iter)' /\ (Pos(iter) < outputLength)'
            /\ (Rest(iter) # length(iter.inputOffset))'
            /\ (Pos(walk) + Rest(walk) = Pos(iter) + Rest(iter))'
        BY <1>1, <2>1, <2>2, <2>3, IterKept
      <4>3. QED
        BY <4>1, <4>2 DEF Walking
    <3>3. IterInv'
      BY <1>1, <1>2, <3>1, <3>2 DEF IterInv
    <3>4. Frontier' = Frontier
      BY <1>1, <3>1, IterKept DEF Frontier
    <3>5. QED
      BY <1>1, <1>3, <1>4, <3>3, <3>4, MainKeeps DEF Inv
  <2>4. CASE Rest(iter) = length(iter.inputOffset)
    <3>1. mainPc' = "step"
      BY <1>1, <1>6, <2>4 DEF Pos, Rest
    <3>2. ToStep(iter)
      <4>1. /\ length(iter.inputOffset) >= 0
            /\ offset(iter.inputOffset) + length(iter.inputOffset) <= FileLength(iter.file)
            /\ iter.file # End
        BY <1>2, <2>2, SnugFits
      <4>2. /\ iter.inputLength = FileLength(iter.file) /\ iter.file \in 1..End
            /\ offset(iter.inputOffset) \in Nat
            /\ Pos(iter) = files.start[iter.file] + offset(iter.inputOffset)
            /\ AtBlock(iter)
        BY <2>1 DEF OnFiles, Located, At
      <4>3. QED
        BY <2>2, <2>4, <4>1, <4>2 DEF ToStep
    <3>3. IterInv'
      BY <1>1, <1>2, <3>1, <3>2, IterKept DEF IterInv
    <3>4. Frontier' = Frontier
      BY <1>1, <3>1, IterKept DEF Frontier
    <3>5. QED
      BY <1>1, <1>3, <1>4, <3>3, <3>4, MainKeeps DEF Inv
  <2>5. QED
    BY <2>3, <2>4
<1>7. QED
  BY <1>5, <1>6

LEMMA WalkKeeps == Inv /\ Walk(Increment(walk)) => Inv'
<1> SUFFICES ASSUME Inv, Walk(Increment(walk)) PROVE Inv'
  OBVIOUS
<1>1. /\ mainPc = "walk" /\ ~atEnd(walk) /\ walk' = Increment(walk)
      /\ killed' = (Increment(walk).file > End)
      /\ UNCHANGED <<files, output, tasks, failed, mainPc, iter, status>>
  BY DEF Walk
<1>2. files \in FileSets /\ iter \in Chunks /\ Walking /\ killed = FALSE
  BY <1>1, IterParts DEF Inv, IterInv
<1>3. Located(walk) /\ Snug(walk)
  BY <1>2 DEF Walking
<1>4. PICK w : w = walk
  OBVIOUS
<1>5. PICK n : n = Increment(w)
  OBVIOUS
<1>6. Follows(n, w) /\ Located(n) /\ Snug(n)
  BY <1>1, <1>2, <1>3, <1>4, <1>5, IncrementFollows
<1>7. killed' = FALSE
  <2>1. n.file \in 1..End /\ End \in Nat
    BY <1>2, <1>6, Layout DEF Located, At
  <2>2. (n.file > End) = FALSE
    BY <2>1
  <2>3. killed' = (n.file > End)
    BY <1>1, <1>4, <1>5, Zenon
  <2>4. QED
    BY <2>2, <2>3, Zenon
<1>8. IterInv'
  <2>1. Located(n)' /\ Snug(n)'
    BY <1>1, <1>6, Kept, PlaceKept
  <2>2. Located(walk)' /\ Snug(walk)'
    BY <1>1, <1>4, <1>5, <2>1
  <2>3. Pos(n) + Rest(n) = Pos(w) + Rest(w)
    <3>1. w \in Chunks /\ Pos(w) \in Int /\ Rest(w) \in Int /\ length(w.inputOffset) \in Int
      BY <1>3, <1>4, ChunkParts DEF Located, InOutput
    <3>2. QED
      BY <1>6, <3>1 DEF Follows
  <2>4. /\ OnFiles(iter)' /\ (Pos(iter) < outputLength)'
        /\ (Rest(iter) # length(iter.inputOffset))'
    BY <1>1, <1>2, IterKept DEF Walking
  <2>5. (Pos(walk) + Rest(walk) = Pos(iter) + Rest(iter))'
    BY <1>1, <1>2, <1>4, <1>5, <2>3 DEF Walking
  <2>6. Walking'
    BY <2>2, <2>4, <2>5 DEF Walking
  <2>7. QED
    BY <1>1, <1>2, <2>6 DEF IterInv
<1>9. Frontier' = Frontier
  BY <1>1, IterKept DEF Frontier
<1>10. DoneInv'
  BY <1>1 DEF DoneInv
<1>11. Reported => Reported'
  BY <1>1, Zenon DEF Reported
<1>12. QED
  BY <1>1, <1>2, <1>7, <1>8, <1>9, <1>10, <1>11, MainKeeps

LEMMA WalkEndsKeeps == Inv /\ WalkEnds => Inv'
<1> SUFFICES ASSUME Inv, WalkEnds PROVE Inv'
  OBVIOUS
<1>1. /\ mainPc = "walk" /\ atEnd(walk) /\ mainPc' = "step"
      /\ iter' = [walk EXCEPT !.outputOffset = iter.outputOffset]
      /\ UNCHANGED <<files, output, tasks, failed, killed, walk, status>>
  BY DEF WalkEnds, copyVars
<1>2. /\ files \in FileSets /\ iter \in Chunks /\ Walking
      /\ Pos(iter) \in Int /\ Rest(iter) \in Int /\ outputLength \in Nat
  BY <1>1, IterParts DEF Inv, IterInv
<1>3. /\ OnFiles(iter) /\ Pos(iter) < outputLength /\ Rest(iter) # length(iter.inputOffset)
      /\ Located(walk) /\ Snug(walk) /\ walk \in Chunks
      /\ Pos(walk) + Rest(walk) = Pos(iter) + Rest(iter)
  BY <1>2 DEF Walking, Located, InOutput
<1>4. PICK c : c = [walk EXCEPT !.outputOffset = iter.outputOffset]
  OBVIOUS
<1>5. /\ c \in Chunks /\ c.file = walk.file /\ c.inputLength = walk.inputLength
      /\ c.inputOffset = walk.inputOffset /\ c.outputOffset = iter.outputOffset
  BY <1>2, <1>3, <1>4 DEF Chunks
<1>6. Pos(c) = Pos(iter) /\ Rest(c) = Rest(iter)
  BY <1>5 DEF Pos, Rest
<1>7. Rest(walk) = 0
  BY <1>1 DEF atEnd, Rest
<1>8. /\ length(walk.inputOffset) \in Int /\ length(walk.inputOffset) >= 0
      /\ length(walk.inputOffset) <= Rest(walk)
      /\ offset(walk.inputOffset) + length(walk.inputOffset) <= FileLength(walk.file)
  BY <1>2, <1>3, SnugFits
<1>9. length(walk.inputOffset) = 0
  BY <1>7, <1>8
<1>10. /\ walk.file \in 1..End /\ walk.inputLength = FileLength(walk.file)
       /\ offset(walk.inputOffset) \in Nat
       /\ Pos(walk) = files.start[walk.file] + offset(walk.inputOffset)
       /\ files.start[walk.file] \in Nat
       /\ walk.file = End => Pos(walk) = outputLength
  <2>1. /\ walk.file \in 1..End /\ walk.inputLength = FileLength(walk.file)
        /\ offset(walk.inputOffset) \in Nat
        /\ Pos(walk) = files.start[walk.file] + offset(walk.inputOffset)
        /\ walk.file = End => offset(walk.inputOffset) = 0
    BY <1>3 DEF Located, At
  <2>2. files.start[walk.file] \in Nat
        /\ (walk.file = End => files.start[walk.file] = outputLength)
    BY <1>2, <2>1, FilePlaces
  <2>3. QED
    BY <1>2, <2>1, <2>2
<1>11. Pos(iter) + Rest(iter) = files.start[walk.file] + offset(walk.inputOffset) + 0
  BY <1>2, <1>3, <1>7, <1>10
<1>12. walk.file = End => SharedTail
  <2>1. ASSUME walk.file = End PROVE Pos(iter) + Rest(iter) = outputLength
    BY <1>2, <1>3, <1>7, <1>10, <2>1
  <2>2. QED
    BY <1>2, <1>3, <2>1, LastBlock
<1>13. ToStep(c)
  <2>1. InOutput(c) /\ AtBlock(c)
    <3>1. InOutput(iter) /\ AtBlock(iter)
      BY <1>3 DEF OnFiles, Located
    <3>2. QED
      BY <1>5, <1>6, <3>1 DEF InOutput, AtBlock
  <2>2. QED
    BY <1>3, <1>5, <1>6, <1>8, <1>9, <1>10, <1>11, <1>12, <2>1 DEF ToStep
<1>14. iter' = c /\ ToStep(iter)'
  BY <1>1, <1>4, <1>13, Kept
<1>15. IterInv'
  BY <1>1, <1>5, <1>14 DEF IterInv
<1>16. Frontier' = Frontier
  <2>1. Frontier = Pos(iter) + Rest(iter)
    BY <1>1 DEF Frontier
  <2>2. Frontier' = Pos(c) + Rest(c)
    BY <1>1, <1>14 DEF Frontier
  <2>3. QED
    BY <1>6, <2>1, <2>2
<1>17. DoneInv'
  BY <1>1 DEF DoneInv
<1>18. Reported => Reported'
  BY <1>1, Zenon DEF Reported
<1>19. QED
  BY <1>1, <1>15, <1>16, <1>17, <1>18, MainKeeps DEF Inv

LEMMA StepKeeps == Inv /\ Step => Inv'
<1> SUFFICES ASSUME Inv, Step PROVE Inv'
  OBVIOUS
<1>1. /\ mainPc = "step" /\ mainPc' = "test"
      /\ UNCHANGED <<files, output, tasks, failed, killed, walk, status>>
  BY DEF Step, copyVars
<1>2. files \in FileSets /\ ToStep(iter)
  BY <1>1, IterParts DEF Inv, IterInv
<1>3. PICK c : /\ iter' = c
               /\ (OnFiles(c) \/ Past(c))
               /\ c \in Chunks
               /\ Pos(c) = Pos(iter) + Rest(iter)
  BY <1>2, StepMoves
<1>4. (OnFiles(iter) \/ Past(iter))'
  BY <1>1, <1>3, Kept
<1>5. IterInv'
  BY <1>1, <1>3, <1>4 DEF IterInv
<1>6. Frontier' = Frontier
  <2>1. Frontier = Pos(iter) + Rest(iter)
    BY <1>1 DEF Frontier
  <2>2. Frontier' = Pos(c)
    BY <1>1, <1>3 DEF Frontier
  <2>3. QED
    BY <1>3, <2>1, <2>2
<1>7. DoneInv'
  BY <1>1 DEF DoneInv
<1>8. Reported => Reported'
  BY <1>1, Zenon DEF Reported
<1>9. QED
  BY <1>1, <1>5, <1>6, <1>7, <1>8, MainKeeps DEF Inv

LEMMA StutterKeeps == Inv /\ UNCHANGED vars => Inv'
<1> SUFFICES ASSUME Inv, UNCHANGED vars PROVE Inv'
  OBVIOUS
<1>1. UNCHANGED <<files, output, tasks, failed, killed, mainPc, iter, walk, status>>
  BY DEF vars, copyVars, loopVars
<1>2. IterInv'
  <2>1. Walking' <=> Walking
    BY <1>1, IterKept, Kept, PlaceKept DEF Walking
  <2>2. QED
    BY <1>1, <2>1, IterKept DEF Inv, IterInv
<1>3. DoneInv'
  BY <1>1 DEF Inv, DoneInv
<1>4. Frontier' = Frontier
  BY <1>1, IterKept DEF Frontier
<1>5. Reported => Reported'
  BY <1>1, Zenon DEF Reported
<1>6. QED
  BY <1>1, <1>2, <1>3, <1>4, <1>5, MainKeeps DEF Inv

(* Inv is inductive.                                                       *)
LEMMA Invariance == Spec => []Inv
<1>1. Inv /\ [Next]_vars => Inv'
  BY WorkersKeep, LoopEndsKeeps, CollectKeeps, FinishKeeps, QueueChunkKeeps, AdvanceKeeps,
     WalkKeeps, WalkEndsKeeps, StepKeeps, StutterKeeps DEF Next, Main, Loop
<1>2. QED
  BY <1>1, InitInv, PTL DEF Spec

-----------------------------------------------------------------------------
(* What follows                                                            *)

(* No byte of the output ever holds anything but the byte that belongs     *)
(* there (copyTo() in copyChunk()).                                        *)
THEOREM OutputRight == Spec => []NoWrongByte
<1>1. Inv => NoWrongByte
  BY TasksAreSafe DEF Inv
<1>2. QED
  BY <1>1, Invariance, PTL

(* No worker maps a block that is empty or leaves its file, and copyTo()   *)
(* never writes past the end of a mapping.                                 *)
THEOREM BlocksRight == Spec => []BlocksInBounds
<1>1. Inv => BlocksInBounds
  BY TasksAreSafe DEF Inv
<1>2. QED
  BY <1>1, Invariance, PTL

(* The assert of copyChunk() on its offset holds.                          *)
THEOREM OffsetAssert == Spec => []OffsetWithinLength
<1>1. Inv => OffsetWithinLength
  BY TasksAreSafe DEF Inv
<1>2. QED
  BY <1>1, Invariance, PTL

(* The chunks of chunkedCopy() never overlap, however far the workers got. *)
THEOREM ChunksDisjoint == Spec => []TasksDisjoint
<1>1. Inv => TasksDisjoint
  BY TasksAreSafe DEF Inv
<1>2. QED
  BY <1>1, Invariance, PTL

(* A zero result of chunkedCopy() means that all of the output has been    *)
(* written, and rightly.                                                   *)
THEOREM ZeroIsConcatenation == Spec => []SuccessIsConcatenation
<1>1. Inv => SuccessIsConcatenation
  <2>1. SUFFICES ASSUME Inv, mainPc = "done", status = "ok"
                 PROVE  \A o \in DOMAIN output : output[o] = o
    BY DEF SuccessIsConcatenation
  <2>2. files \in FileSets /\ CopyInv /\ Covered(Frontier)
    BY <2>1, IterParts
  <2>3. Frontier = outputLength
    BY <2>1 DEF Frontier
  <2>4. Covered(outputLength)
    BY <2>2, <2>3 DEF Covered
  <2>5. tasks = {} /\ (failed => status = "error")
    BY <2>1 DEF Inv, DoneInv
  <2>6. ~failed
    <3>1. status # "error"
      BY <2>1
    <3>2. QED
      BY <2>5, <3>1, Zenon
  <2>7. QED
    BY <2>1, <2>2, <2>4, <2>5, <2>6, AllCopied
<1>2. QED
  BY <1>1, Invariance, PTL

(* The iterator leaves inputFiles only if the last block of the output     *)
(* begins before the last file does.                                       *)
THEOREM OverrunOnlyAtSharedTail == Spec => []OverrunNeedsSharedTail
<1>1. Inv => OverrunNeedsSharedTail
  <2>1. SUFFICES ASSUME Inv, iter.file > End PROVE SharedTail
    BY DEF OverrunNeedsSharedTail, Overrun, SharedTail
  <2>2. iter \in Chunks /\ iter.file \in Nat /\ End \in Nat
    BY <2>1, IterParts, ChunkParts, Layout
  <2>3. ~(iter.file \in 1..End)
    BY <2>1, <2>2
  <2>4. ~OnFiles(iter) /\ ~ToStep(iter) /\ ~Walking
    BY <2>3 DEF OnFiles, Located, At, ToStep, Walking
  <2>5. Past(iter)
    BY <2>1, <2>4 DEF Inv, IterInv
  <2>6. QED
    BY <2>5 DEF Past
<1>2. QED
  BY <1>1, Invariance, PTL

(* Neither a worker nor the walk of end() is ever ended by a signal.       *)
THEOREM NeverKilled == Spec => [](killed = FALSE)
<1>1. Inv => killed = FALSE
  BY DEF Inv
<1>2. QED
  BY <1>1, Invariance, PTL

-----------------------------------------------------------------------------
(* The loops run out                                                       *)

\* What each loop has left becomes less with every turn and never less than
\* nothing: the range-for loop the rest of the output, end() the rest of the
\* block, copyChunk() the rest of its chunk.  And where nothing of the output is
\* left the range-for loop ends, unless its iterator has overrun inputFiles.
EveryTurnShortens ==
    /\ mainPc = "step" =>
           outputLength - offset(NextOutput) \in 0..(outputLength - Pos(iter) - 1)
    /\ mainPc = "test" /\ Pos(iter) = outputLength => AtLoopEnd \/ Overrun
    /\ mainPc = "walk" /\ ~atEnd(walk) => Rest(Increment(walk)) \in 0..(Rest(walk) - 1)
    /\ \A t \in tasks : ~atEnd(t.chunk) =>
           Rest(Increment(t.chunk)) \in 0..(Rest(t.chunk) - 1)

(* operator ++ of chunkState_t leaves less of the chunk.                   *)
LEMMA IncrementShortens ==
  ASSUME files \in FileSets, NEW c, Located(c), Snug(c), ~atEnd(c)
  PROVE  Rest(Increment(c)) \in 0..(Rest(c) - 1)
<1>1. c \in Chunks /\ InOutput(c) /\ Rest(c) \in Int /\ length(c.inputOffset) \in Int
  BY ChunkParts DEF Located, InOutput
<1>2. Rest(c) > 0
  BY <1>1 DEF InOutput, atEnd, Rest
<1>3. 0 < length(c.inputOffset) /\ length(c.inputOffset) <= Rest(c)
  BY <1>2, SnugFits DEF Fits
<1>4. Rest(Increment(c)) = Rest(c) - length(c.inputOffset)
  BY IncrementFollows DEF Follows
<1>5. QED
  BY <1>1, <1>3, <1>4

(* The loops of chunkedCopy(), end() and copyChunk() end for all files and *)
(* block sizes, as far as their iterators are concerned, unless the one of *)
(* chunkedCopy() overruns inputFiles.                                      *)
THEOREM LoopsRunOut == Spec => []EveryTurnShortens
<1>1. ASSUME Inv PROVE EveryTurnShortens
  <2>1. files \in FileSets /\ iter \in Chunks /\ outputLength \in Nat /\ CopyInv
    BY <1>1, IterParts
  <2>2. ASSUME mainPc = "step"
        PROVE  outputLength - offset(NextOutput) \in 0..(outputLength - Pos(iter) - 1)
    <3>1. ToStep(iter)
      BY <1>1, <2>2 DEF Inv, IterInv
    <3>2. /\ Pos(iter) \in Int /\ Rest(iter) \in Int /\ Pos(iter) < outputLength
          /\ Pos(iter) + Rest(iter) <= outputLength
          /\ Rest(iter) = blockLength(outputLength - Pos(iter))
          /\ iter.outputOffset \in Offsets
      BY <2>1, <3>1, ChunkParts DEF ToStep, InOutput, AtBlock
    <3>3. Rest(iter) > 0
      <4>1. outputLength - Pos(iter) \in Nat /\ outputLength - Pos(iter) > 0
        <5>1. Pos(iter) >= 0
          BY <3>1 DEF ToStep, InOutput
        <5>2. QED
          BY <2>1, <3>2, <5>1
      <4>2. QED
        BY <3>2, <4>1, BlockLengthOf
    <3>4. PICK out : out = Plus(iter.outputOffset, length(iter.outputOffset))
      OBVIOUS
    <3>5. out \in Offsets /\ offset(out) = Pos(iter) + Rest(iter)
      BY <3>2, <3>4, OffsetAlgebra DEF Pos, Rest
    <3>6. blockLength(outputLength - offset(out)) \in Int
      <4>1. outputLength - offset(out) \in Nat
        BY <2>1, <3>2, <3>5
      <4>2. QED
        BY <4>1, BlockLengthOf
    <3>7. NextOutput = WithLength(out, blockLength(outputLength - offset(out)))
      BY <3>4 DEF NextOutput
    <3>8. offset(NextOutput) = Pos(iter) + Rest(iter)
      BY <3>5, <3>6, <3>7, OffsetAlgebra
    <3>9. QED
      BY <2>1, <3>2, <3>3, <3>8
  <2>3. ASSUME mainPc = "test", Pos(iter) = outputLength PROVE AtLoopEnd \/ Overrun
    <3>1. CASE OnFiles(iter)
      <4>1. At(iter.file, offset(iter.inputOffset), Pos(iter))
        BY <3>1 DEF OnFiles, Located
      <4>2. iter.file = End
        BY <2>1, <2>3, <4>1, PlaceInOutput
      <4>3. offset(iter.inputOffset) = 0
        BY <4>1, <4>2 DEF At
      <4>4. QED
        BY <2>3, <4>2, <4>3 DEF AtLoopEnd, Pos
    <3>2. CASE Past(iter)
      BY <3>2 DEF Past, Overrun
    <3>3. QED
      BY <1>1, <2>3, <3>1, <3>2 DEF Inv, IterInv
  <2>4. ASSUME mainPc = "walk", ~atEnd(walk)
        PROVE  Rest(Increment(walk)) \in 0..(Rest(walk) - 1)
    <3>1. Located(walk) /\ Snug(walk)
      BY <1>1, <2>4 DEF Inv, IterInv, Walking
    <3>2. QED
      BY <2>1, <2>4, <3>1, IncrementShortens
  <2>5. ASSUME NEW t \in tasks, ~atEnd(t.chunk)
        PROVE  Rest(Increment(t.chunk)) \in 0..(Rest(t.chunk) - 1)
    <3>1. t.chunk \in Chunks /\ InOutput(t.chunk) /\ Rest(t.chunk) \in Int
      BY <2>1, ChunkParts DEF CopyInv, TaskOK, InOutput
    <3>2. Rest(t.chunk) > 0
      BY <2>5, <3>1 DEF InOutput, atEnd, Rest
    <3>3. Located(t.chunk) /\ Snug(t.chunk)
      BY <1>1, <3>2 DEF Inv, TaskInv
    <3>4. QED
      BY <2>1, <2>5, <3>3, IncrementShortens
  <2>6. QED
    BY <2>2, <2>3, <2>4, <2>5 DEF EveryTurnShortens
<1>2. Inv => EveryTurnShortens
  BY <1>1
<1>3. QED
  BY <1>2, Invariance, PTL
=============================================================================
