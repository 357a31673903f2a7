--------------------------- MODULE ChunkSpansProofs ---------------------------
(***************************************************************************)
(* Proofs about chunkSpans, for every page and block size, every number of *)
(* workers and every collection of files.  On tame files Inv says that the *)
(* input and the output side of every iterator denote the same place in    *)
(* the concatenation and that the next block is right although its length  *)
(* is computed from the whole file (Ready).                                *)
(***************************************************************************)
EXTENDS ChunkSpans, CopyProofs

-----------------------------------------------------------------------------
(* The inductive invariant                                                 *)

InFile(c) == FileLength(c.file) - offset(c.inputOffset)

\* A worker's next block is a transfer block, or what is left of the chunk or
\* of the file.
Snug(c) == length(c.inputOffset) = Minimum(TransferBlockSize, Minimum(Rest(c), InFile(c)))

\* Unless a chunk is in the last file, what is left of the file is its last
\* block or begins at a block of the file.
Ready(c) ==
    c.file < count /\ Rest(c) > 0 =>
        \/ FileLength(c.file) <= TransferBlockSize
        \/ /\ FileLength(c.file) % TransferBlockSize = 0
           /\ offset(c.inputOffset) % TransferBlockSize = 0

ChunkOK(c) == Located(c) /\ Snug(c) /\ Ready(c)

\* A span begins here, and this is how long it is.
AtSpan(c) ==
    Pos(c) < outputLength =>
        /\ Rest(c) > 0
        /\ Pos(c) % TransferBlockSize = 0
        /\ Rest(c) = spanLength \/ Pos(c) + Rest(c) = outputLength

\* The iterator of the loop at the top of its body.
OnFiles(c) ==
    /\ Located(c)
    /\ AtSpan(c)
    /\ length(c.inputOffset) = blockLength(InFile(c))

\* The iterator before both sides move on: one input block on, its input side
\* is where the next span begins.
ToStep(c) ==
    /\ InOutput(c)
    /\ AtSpan(c)
    /\ Pos(c) < outputLength
    /\ c.file \in 1..End
    /\ c.inputLength = FileLength(c.file)
    /\ offset(c.inputOffset) >= 0
    /\ length(c.inputOffset) >= 0
    /\ offset(c.inputOffset) + length(c.inputOffset) <= FileLength(c.file)
    /\ files.start[c.file] + offset(c.inputOffset) + length(c.inputOffset) = Pos(c) + Rest(c)

\* chunkState_t::end() walks the files below one span.
Walking ==
    /\ InOutput(iter)
    /\ AtSpan(iter)
    /\ Pos(iter) < outputLength
    /\ ChunkOK(walk)
    /\ Pos(walk) + Rest(walk) = Pos(iter) + Rest(iter)

\* Spans are whole transfer blocks.
SpanOK ==
    /\ spanLength \in Nat
    /\ spanLength >= TransferBlockSize
    /\ spanLength % TransferBlockSize = 0

IterInv ==
    /\ mainPc \in {"start", "test", "collect", "advance", "walk", "step", "finish", "done"}
    /\ mainPc \in {"test", "collect", "advance", "walk", "step"} => SpanOK
    /\ mainPc \in {"test", "collect", "advance"} => OnFiles(iter)
    /\ mainPc = "walk" => Walking
    /\ mainPc = "step" => ToStep(iter)
    /\ iter \in Chunks

\* Every chunk that has something left is where it should be.
TaskInv == \A t \in tasks : Rest(t.chunk) > 0 => ChunkOK(t.chunk)

\* The place up to which the output has been handed out.
Frontier ==
    IF mainPc = "start" THEN 0
    ELSE IF mainPc = "test" THEN Pos(iter)
    ELSE IF mainPc \in {"finish", "done"} THEN outputLength
    ELSE Pos(iter) + Rest(iter)

FrontierInv == Behind(Frontier) /\ (ShortForm \/ Covered(Frontier))

DoneInv == mainPc = "done" => tasks = {} /\ (failed => status = "error")

DeathInv == killed => numProcessors = 0

Inv ==
    /\ files \in FileSets
    /\ Tame
    /\ numProcessors \in Nat
    /\ DeathInv
    /\ CopyInv
    /\ IterInv
    /\ TaskInv
    /\ FrontierInv
    /\ DoneInv

-----------------------------------------------------------------------------
(* Tame files                                                              *)

(* Every file but the last is small or whole, and if one is not small all  *)
(* of them start at a block of the output.                                 *)
LEMMA TameFiles ==
  ASSUME files \in FileSets, Tame
  PROVE  /\ \A f \in 1..count : f < count =>
                \/ FileLength(f) <= TransferBlockSize
                \/ FileLength(f) % TransferBlockSize = 0
         /\ \/ \A f \in 1..count : f < count => FileLength(f) <= TransferBlockSize
            \/ /\ \A f \in 1..count : f < count => FileLength(f) % TransferBlockSize = 0
               /\ \A f \in 1..count : files.start[f] % TransferBlockSize = 0
<1>1. count \in Nat
  BY Layout
<1>2. TransferBlockSize \in Nat \ {0}
  BY CopyAssumption
<1>3. \A f \in 1..count : FileLength(f) = files.length[f]
  BY Layout
<1>4. \/ \A f \in 1..count : f < count => FileLength(f) <= TransferBlockSize
      \/ \A f \in 1..count : f < count => FileLength(f) % TransferBlockSize = 0
  <2>1. \A f \in 1..count : f < count => f \in 1..Len(files.length) - 1
    BY <1>1 DEF count
  <2>2. QED
    BY <1>3, <2>1 DEF Tame
<1>5. ASSUME \A f \in 1..count : f < count => FileLength(f) % TransferBlockSize = 0
      PROVE  \A f \in 1..count : files.start[f] % TransferBlockSize = 0
  <2> DEFINE T == {f \in 1..count : files.start[f] % TransferBlockSize # 0}
  <2>1. SUFFICES ASSUME T # {} PROVE FALSE
    OBVIOUS
  <2>2. T \subseteq Nat
    BY <1>1
  <2>3. PICK h \in T : \A x \in T : h <= x
    BY <2>1, <2>2, LeastElement
  <2>4. 0 % TransferBlockSize = 0
    <3>1. 0 = TransferBlockSize * 0 + 0 /\ 0 \in 0..TransferBlockSize - 1
      BY <1>2
    <3>2. QED
      BY <1>2, <3>1, Remainder
  <2>5. h \in 1..count /\ h # 1 /\ files.start[h] % TransferBlockSize # 0
    BY <2>3, <2>4, Layout
  <2>6. h - 1 \in 1..count /\ h - 1 < count /\ ~(h <= h - 1) /\ h - 1 + 1 = h
    BY <1>1, <2>5
  <2>7. files.start[h - 1] % TransferBlockSize = 0
    BY <2>3, <2>6
  <2>8. FileLength(h - 1) % TransferBlockSize = 0
    BY <1>5, <2>6
  <2>9. /\ files.start[h - 1] \in Int /\ FileLength(h - 1) \in Int
        /\ files.start[h] = files.start[h - 1] + FileLength(h - 1)
    BY <1>1, <1>3, <2>6, Layout
  <2>10. files.start[h] % TransferBlockSize = 0
    BY <1>2, <2>7, <2>8, <2>9, NextMultiple
  <2>11. QED
    BY <2>5, <2>10
<1>6. QED
  BY <1>4, <1>5

-----------------------------------------------------------------------------
(* chunkState_t                                                            *)

(* A worker's next block fits.                                             *)
LEMMA SnugFits ==
  ASSUME files \in FileSets, NEW c, Located(c), Snug(c)
  PROVE  /\ Fits(c)
         /\ length(c.inputOffset) \in Int /\ length(c.inputOffset) >= 0
         /\ length(c.inputOffset) <= Rest(c)
         /\ offset(c.inputOffset) + length(c.inputOffset) <= FileLength(c.file)
         /\ Rest(c) > 0 => c.file # End
         /\ \/ length(c.inputOffset) = TransferBlockSize
            \/ length(c.inputOffset) = Rest(c)
            \/ length(c.inputOffset) = InFile(c)
         /\ length(c.inputOffset) <= TransferBlockSize
<1> DEFINE o == offset(c.inputOffset)
           l == length(c.inputOffset)
           r == InFile(c)
           m == Minimum(Rest(c), r)
<1>1. InOutput(c) /\ c \in Chunks /\ At(c.file, o, Pos(c)) /\ TransferBlockSize \in Nat \ {0}
  BY CopyAssumption DEF Located, InOutput
<1>2. o \in Int /\ l \in Int /\ Pos(c) \in Int /\ Rest(c) \in Int
  BY <1>1, ChunkParts
<1>3. /\ o \in Nat /\ FileLength(c.file) \in Nat /\ outputLength \in Nat
      /\ Pos(c) < outputLength => c.file # End /\ FileLength(c.file) - o > 0
      /\ o <= FileLength(c.file)
  BY <1>1, PlaceInOutput, Layout
<1>4. r \in Int /\ r >= 0 /\ r = FileLength(c.file) - o
  BY <1>3 DEF InFile
<1>5. l = Minimum(TransferBlockSize, m)
  BY DEF Snug
<1> HIDE DEF l, r
<1>6. m \in Int /\ m <= Rest(c) /\ m <= r /\ (m = Rest(c) \/ m = r)
  BY <1>2, <1>4, MinimumOf
<1> HIDE DEF m
<1>7. l <= TransferBlockSize /\ l <= m /\ (l = TransferBlockSize \/ l = m)
  BY <1>1, <1>5, <1>6, MinimumOf
<1>8. 0 <= Rest(c) /\ Pos(c) + Rest(c) <= outputLength
  BY <1>1 DEF InOutput
<1>9. l >= 0 /\ l <= Rest(c) /\ l <= r
  BY <1>1, <1>2, <1>4, <1>6, <1>7, <1>8
<1>10. o + l <= FileLength(c.file)
  BY <1>2, <1>3, <1>4, <1>9
<1>11. ASSUME Rest(c) > 0
       PROVE  c.file # End /\ l > 0 /\ c.file \in 1..count /\ FileLength(c.file) = files.length[c.file]
  <2>1. Pos(c) < outputLength
    BY <1>2, <1>3, <1>8, <1>11
  <2>2. c.file # End /\ r > 0
    BY <1>3, <1>4, <2>1
  <2>3. l > 0
    BY <1>1, <1>2, <1>4, <1>6, <1>7, <1>11, <2>2
  <2>4. c.file \in 1..End
    BY <1>1 DEF At
  <2>5. QED
    BY <2>2, <2>3, <2>4, FilePlaces
<1>12. Fits(c)
  <2>1. Pos(c) = files.start[c.file] + o
    BY <1>1 DEF At
  <2>2. QED
    BY <1>3, <1>9, <1>10, <1>11, <2>1 DEF Fits, l
<1>13. QED
  BY <1>2, <1>6, <1>7, <1>9, <1>10, <1>11, <1>12 DEF l, r

(* A multiple of the block size above a smaller one is a whole block above. *)
LEMMA BlocksApart ==
  ASSUME NEW T \in Nat \ {0}, NEW a \in Int, NEW b \in Int, a % T = 0, b % T = 0, b < a
  PROVE  a - b >= T
<1>1. PICK i \in Int : a = T * i
  BY Multiple
<1>2. PICK j \in Int : b = T * j
  BY Multiple
<1>3. ~(j > i)
  BY <1>1, <1>2, MultiplesApart
<1>4. j # i
  BY <1>1, <1>2
<1>5. i > j
  BY <1>3, <1>4
<1>6. QED
  BY <1>1, <1>2, <1>5, MultiplesApart

(* The distance between multiples is one.                                  *)
LEMMA DistanceIsMultiple ==
  ASSUME NEW T \in Nat \ {0}, NEW a \in Int, NEW b \in Int, NEW p, p = a + b,
         a % T = 0, p % T = 0
  PROVE  b % T = 0
<1>1. PICK i \in Int : p = T * i
  BY Multiple
<1>2. PICK j \in Int : a = T * j
  BY Multiple
<1> DEFINE k == i - j
<1>3. k \in Int /\ T * k = T * i - T * j /\ T * i \in Int /\ T * j \in Int
  OBVIOUS
<1> HIDE DEF k
<1>4. b = T * k + 0 /\ 0 \in 0..T - 1
  BY <1>1, <1>2, <1>3
<1>5. QED
  BY <1>3, <1>4, Remainder

(* Limiting the next block by the whole file is as good as limiting it by  *)
(* what is left of it, for a chunk that is ready.                          *)
LEMMA WholeIsEnough ==
  ASSUME files \in FileSets, NEW c, Located(c), Ready(c),
         c.file < count /\ FileLength(c.file) <= TransferBlockSize =>
             Rest(c) = 0 \/ offset(c.inputOffset) = 0
  PROVE  Minimum(TransferBlockSize, Minimum(Rest(c), FileLength(c.file)))
             = Minimum(TransferBlockSize, Minimum(Rest(c), InFile(c)))
<1> DEFINE o == offset(c.inputOffset)
           f == FileLength(c.file)
           r == Rest(c)
           B == TransferBlockSize
<1>1. InOutput(c) /\ c \in Chunks /\ At(c.file, o, Pos(c)) /\ B \in Nat \ {0}
  BY CopyAssumption DEF Located, InOutput
<1>2. /\ o \in Nat /\ f \in Nat /\ o <= f /\ InFile(c) = f - o
      /\ r \in Int /\ r >= 0 /\ Pos(c) \in Int /\ Pos(c) + r <= outputLength
      /\ outputLength \in Nat
      /\ c.file = count => Pos(c) + (f - o) = outputLength
      /\ Pos(c) < outputLength => c.file # End /\ o < f
      /\ c.file \in 1..End /\ count \in Nat /\ End = count + 1
  BY <1>1, PlaceInOutput, ChunkParts, Layout DEF InFile, InOutput, At
<1>3. CASE r = 0
  <2> HIDE DEF r, f, o, B
  <2>1. Minimum(r, f) = 0 /\ Minimum(r, f - o) = 0
    BY <1>2, <1>3 DEF Minimum
  <2>2. QED
    BY <1>2, <2>1 DEF r, f, o, B
<1>4. CASE c.file = count
  <2> HIDE DEF r, f, o, B
  <2>1. r <= f - o /\ r <= f
    BY <1>2, <1>4
  <2>2. Minimum(r, f) = r /\ Minimum(r, f - o) = r
    BY <1>2, <2>1 DEF Minimum
  <2>3. QED
    BY <1>2, <2>2 DEF r, f, o, B
<1>5. CASE r # 0 /\ c.file # count
  <2>1. Pos(c) < outputLength /\ r > 0
    BY <1>2, <1>5
  <2>2. c.file < count /\ o < f
    BY <1>2, <1>5, <2>1
  <2>3. CASE o = 0
    <3>1. InFile(c) = f
      BY <1>2, <2>3
    <3>2. QED
      BY <3>1
  <2>4. CASE o # 0
    <3>1. f % B = 0 /\ o % B = 0
      BY <1>5, <2>1, <2>2, <2>4 DEF Ready
    <3>2. f - o >= B
      BY <1>1, <1>2, <2>2, <3>1, BlocksApart
    <3> HIDE DEF r, f, o, B
    <3>3. Minimum(B, Minimum(r, f)) = Minimum(B, Minimum(r, f - o))
      BY <1>1, <1>2, <3>2 DEF Minimum
    <3>4. QED
      BY <1>2, <3>3 DEF r, f, o, B
  <2>5. QED
    BY <2>3, <2>4
<1>6. QED
  BY <1>3, <1>4, <1>5

(* Nought is a multiple of the block size.                                 *)
LEMMA NoRemainder == 0 % TransferBlockSize = 0 /\ TransferBlockSize % TransferBlockSize = 0
<1>1. TransferBlockSize \in Nat \ {0}
  BY CopyAssumption
<1>2. 0 = TransferBlockSize * 0 + 0 /\ TransferBlockSize = TransferBlockSize * 1 + 0
      /\ 0 \in 0..TransferBlockSize - 1
  BY <1>1
<1>3. QED
  BY <1>1, <1>2, Remainder

(* operator ++ gives the chunk that follows, with a next block that fits.  *)
LEMMA IncrementFollows ==
  ASSUME files \in FileSets, Tame, NEW c, ChunkOK(c), ~atEnd(c)
  PROVE  Follows(Increment(c), c) /\ ChunkOK(Increment(c))
<1> DEFINE used == length(c.inputOffset)
           o    == offset(c.inputOffset)
           rem  == length(c.outputOffset) - used
           out  == WithLength(Plus(c.outputOffset, used), rem)
           d    == [c EXCEPT !.outputOffset = out]
           len  == LengthAfter(c)
           b    == BlockAfter(rem, len)
           n    == Increment(c)
           B    == TransferBlockSize
           f    == FileLength(c.file)
<1>1. /\ c \in Chunks /\ InOutput(c) /\ At(c.file, o, Pos(c)) /\ c.file \in 1..End
      /\ c.inputLength = f /\ Located(c) /\ Snug(c) /\ Ready(c)
      /\ B \in Nat \ {0} /\ count \in Nat /\ End = count + 1
  BY CopyAssumption, Layout DEF ChunkOK, Located, InOutput, At
<1>2. /\ o \in Int /\ used \in Int /\ Rest(c) \in Int /\ Rest(c) > 0
      /\ o \in Nat /\ f \in Nat /\ c.inputLength \in Int /\ c.file \in Nat
  <2>1. Rest(c) \in Int /\ Rest(c) >= 0 /\ Rest(c) # 0
    BY <1>1, ChunkParts DEF InOutput, atEnd, Rest
  <2>2. QED
    BY <1>1, <2>1, ChunkParts, FilePlaces DEF At
<1>3. /\ used >= 0 /\ used <= Rest(c) /\ o + used <= f /\ c.file # End
      /\ used = B \/ used = Rest(c) \/ used = f - o
  BY <1>1, <1>2, SnugFits DEF InFile
<1>4. rem = Rest(c) - used /\ rem \in Int
  BY <1>2 DEF Rest
<1>5. FileAfter(c) \in 1..End
  BY <1>1, <1>2, <1>3, PlaceAfter
<1>6. len \in Int
  BY <1>2, <1>5, FilePlaces DEF LengthAfter
<1>7. b = Minimum(B, Minimum(rem, len)) /\ b \in Int
  <2> HIDE DEF rem, len, B
  <2>1. Minimum(rem, len) \in Int
    BY <1>4, <1>6, MinimumOf
  <2>2. Minimum(B, Minimum(rem, len)) \in Int
    BY <1>1, <2>1, MinimumOf
  <2>3. QED
    BY <2>2 DEF BlockAfter, B
<1>8. n = ChunkState(FileAfter(c), len, WithLength(PosAfter(c), b), out)
  <2>1. n = NextInputBlock(d, rem)
    BY DEF Increment
  <2>2. /\ d.file = c.file /\ d.inputLength = c.inputLength
        /\ d.inputOffset = c.inputOffset /\ d.outputOffset = out
    BY <1>1 DEF Chunks
  <2> HIDE DEF d, rem, out, n, used
  <2>3. QED
    BY <2>1, <2>2 DEF NextInputBlock, LengthAfter, FileAfter, PosAfter, OverAfter, InAfter
<1> HIDE DEF n, b
<1>9. /\ Located(n) /\ n \in Chunks
      /\ Pos(n) = Pos(c) + used /\ Rest(n) = Rest(c) - used
      /\ length(n.inputOffset) = b
      /\ FileLength(n.file) = len
      /\ n.file = FileAfter(c)
      /\ OverAfter(c) => offset(n.inputOffset) = 0
      /\ ~OverAfter(c) => /\ n.file = c.file
                          /\ offset(n.inputOffset) = o + used
                          /\ used # f - o
  BY <1>1, <1>3, <1>7, <1>8, ChunkAfter
<1> HIDE DEF rem, len
<1>10. Ready(n)
  <2>1. SUFFICES ASSUME n.file < count, Rest(n) > 0
                 PROVE  \/ FileLength(n.file) <= B
                        \/ FileLength(n.file) % B = 0 /\ offset(n.inputOffset) % B = 0
    BY DEF Ready
  <2>2. CASE OverAfter(c)
    <3>1. n.file \in 1..count
      BY <1>1, <1>5, <1>9, <2>1
    <3>2. QED
      BY <1>9, <2>1, <2>2, <3>1, TameFiles, NoRemainder
  <2>3. CASE ~OverAfter(c)
    <3>1. used = B
      BY <1>2, <1>3, <1>9, <2>1, <2>3
    <3>2. \/ f <= B
          \/ f % B = 0 /\ o % B = 0
      BY <1>2, <1>9, <1>1, <2>1, <2>3 DEF Ready
    <3>3. o % B = 0 => (o + used) % B = 0
      BY <1>1, <1>2, <3>1, NoRemainder, NextMultiple
    <3>4. QED
      BY <1>9, <2>3, <3>2, <3>3
  <2>4. QED
    BY <2>2, <2>3
<1>11. ASSUME n.file < count, FileLength(n.file) <= B
       PROVE  Rest(n) = 0 \/ offset(n.inputOffset) = 0
  <2>1. CASE OverAfter(c)
    BY <1>9, <2>1
  <2>2. CASE ~OverAfter(c)
    <3>1. f <= B /\ used # f - o
      BY <1>9, <1>11, <2>2
    <3>2. used = Rest(c)
      BY <1>1, <1>2, <1>3, <3>1
    <3>3. QED
      BY <1>2, <1>9, <3>2
  <2>3. QED
    BY <2>1, <2>2
<1>12. Snug(n)
  <2>1. Minimum(B, Minimum(Rest(n), FileLength(n.file)))
            = Minimum(B, Minimum(Rest(n), InFile(n)))
    BY <1>9, <1>10, <1>11, WholeIsEnough
  <2>2. b = Minimum(B, Minimum(Rest(n), FileLength(n.file)))
    BY <1>4, <1>7, <1>9
  <2>3. QED
    BY <1>9, <2>1, <2>2 DEF Snug
<1>13. InOutput(n) /\ Fits(n)
  BY <1>9, <1>12, SnugFits DEF Located
<1>14. QED
  BY <1>9, <1>10, <1>12, <1>13 DEF Follows, ChunkOK, n

-----------------------------------------------------------------------------
(* chunking_t                                                              *)

(* What the loop queues.                                                   *)
LEMMA SpanToQueue ==
  ASSUME files \in FileSets, Tame, SpanOK, NEW c, OnFiles(c)
  PROVE  /\ c \in Chunks /\ InOutput(c) /\ Fits(c) /\ ChunkOK(c)
         /\ Rest(c) > 0 => Pos(c) % PageSize = 0
         /\ Pos(c) \in Nat /\ Rest(c) \in Nat /\ Pos(c) <= outputLength
<1> DEFINE o == offset(c.inputOffset)
           l == length(c.inputOffset)
           r == InFile(c)
           B == TransferBlockSize
<1>1. /\ c \in Chunks /\ Located(c) /\ InOutput(c) /\ At(c.file, o, Pos(c))
      /\ l = blockLength(r) /\ B \in Nat \ {0}
  BY CopyAssumption DEF OnFiles, Located, InOutput
<1>2. /\ Pos(c) \in Nat /\ Pos(c) <= outputLength /\ outputLength \in Nat
      /\ r \in Nat /\ Pos(c) + r <= outputLength
      /\ Pos(c) = outputLength => c.file = End
      /\ o \in Nat /\ Rest(c) \in Int /\ Rest(c) >= 0 /\ Pos(c) + Rest(c) <= outputLength
      /\ c.file = End => FileLength(c.file) = 0 /\ o = 0
  <2>1. /\ Pos(c) \in Nat /\ Pos(c) <= outputLength /\ o \in Nat
        /\ FileLength(c.file) \in Nat /\ o <= FileLength(c.file)
        /\ Pos(c) + (FileLength(c.file) - o) <= outputLength
        /\ Pos(c) = outputLength => c.file = End
    BY <1>1, PlaceInOutput
  <2>2. Rest(c) \in Int /\ Rest(c) >= 0 /\ Pos(c) + Rest(c) <= outputLength
    BY <1>1, ChunkParts DEF InOutput
  <2>3. c.file = End => FileLength(c.file) = 0 /\ o = 0
    BY <1>1, Layout DEF At
  <2>4. QED
    BY <2>1, <2>2, <2>3, Layout DEF InFile
<1>3. ASSUME Pos(c) < outputLength
      PROVE  /\ Rest(c) > 0 /\ Pos(c) % B = 0
             /\ Rest(c) = spanLength \/ Pos(c) + Rest(c) = outputLength
  BY <1>3 DEF OnFiles, AtSpan
<1>4. l = Minimum(B, Minimum(Rest(c), r))
  <2>1. l = Minimum(B, r)
    BY <1>1 DEF blockLength
  <2>2. spanLength \in Nat /\ spanLength >= B
    BY DEF SpanOK
  <2>3. CASE Pos(c) < outputLength
    <3>1. Rest(c) >= B \/ Rest(c) >= r
      BY <1>2, <1>3, <2>2, <2>3
    <3> HIDE DEF r, B
    <3>2. Minimum(B, r) = Minimum(B, Minimum(Rest(c), r))
      BY <1>1, <1>2, <3>1 DEF Minimum
    <3>3. QED
      BY <2>1, <3>2
  <2>4. CASE Pos(c) = outputLength
    <3>1. r = 0 /\ Rest(c) = 0
      BY <1>2, <2>4 DEF InFile
    <3>2. Minimum(Rest(c), r) = r
      BY <3>1 DEF Minimum
    <3>3. QED
      BY <2>1, <3>2
  <2>5. QED
    BY <1>2, <2>3, <2>4
<1>5. Snug(c)
  BY <1>4 DEF Snug
<1>6. Ready(c)
  <2>1. SUFFICES ASSUME c.file < count, Rest(c) > 0
                 PROVE  \/ FileLength(c.file) <= B
                        \/ FileLength(c.file) % B = 0 /\ o % B = 0
    BY DEF Ready
  <2>2. /\ c.file \in 1..count /\ Pos(c) = files.start[c.file] + o /\ count \in Nat
        /\ files.start[c.file] \in Nat
    BY <1>1, <2>1, Layout DEF At
  <2>3. Pos(c) % B = 0
    BY <1>2, <1>3, <2>1
  <2>4. ASSUME files.start[c.file] % B = 0 PROVE o % B = 0
    <3> HIDE DEF B, o
    <3>1. QED
      BY <1>1, <1>2, <2>2, <2>3, <2>4, DistanceIsMultiple
  <2>5. QED
    BY <2>1, <2>2, <2>4, TameFiles
<1>7. Fits(c)
  BY <1>1, <1>5, SnugFits
<1>8. ASSUME Rest(c) > 0 PROVE Pos(c) % PageSize = 0
  <2>1. Pos(c) % B = 0
    BY <1>2, <1>3, <1>8
  <2>2. QED
    BY <1>2, <2>1, CopyAssumption, PageSizeAssumption, MultipleOfMultiple
<1>9. QED
  BY <1>1, <1>2, <1>5, <1>6, <1>7, <1>8 DEF ChunkOK

(* The next span ends in the output, at its end or one span further on,    *)
(* whatever the test in std::size_t says.                                  *)
LEMMA SpanLengths ==
  ASSUME files \in FileSets, SpanOK, NEW p \in Nat, p <= outputLength
  PROVE  /\ SpanAt(p) \in Nat /\ p + SpanAt(p) <= outputLength
         /\ p < outputLength => /\ SpanAt(p) > 0
                                /\ SpanAt(p) = spanLength \/ p + SpanAt(p) = outputLength
<1>1. outputLength \in Nat /\ spanLength \in Nat /\ spanLength > 0
  BY Layout, CopyAssumption DEF SpanOK
<1>2. \/ p = outputLength /\ SpanAt(p) = 0
      \/ p # outputLength /\ SpanAt(p) = outputLength - p
      \/ p # outputLength /\ SpanAt(p) = Minimum(spanLength, outputLength - p)
  BY DEF SpanAt, spanOf
<1>3. QED
  BY <1>1, <1>2 DEF Minimum

(* operator ++ moves both sides to the next span.                          *)
LEMMA StepMoves ==
  ASSUME files \in FileSets, SpanOK, ToStep(iter), Step
  PROVE  \E c : /\ iter' = c
                /\ OnFiles(c)
                /\ c \in Chunks
                /\ Pos(c) = Pos(iter) + Rest(iter)
<1> DEFINE o     == offset(iter.inputOffset)
           l     == length(iter.inputOffset)
           next  == Pos(iter) + Rest(iter)
           out   == Plus(iter.outputOffset, length(iter.outputOffset))
           span  == SpanAt(next)
           in    == PosAfter(iter)
           file  == FileAfter(iter)
           len   == LengthAfter(iter)
           inLen == blockLength(len - offset(in))
           from  == IF iter.file # End THEN InputAfter ELSE iter
           c     == [from EXCEPT !.outputOffset = NextOutput]
<1>1. /\ iter \in Chunks /\ InOutput(iter) /\ AtSpan(iter)
      /\ Pos(iter) < outputLength
      /\ iter.file \in 1..End /\ iter.inputLength = FileLength(iter.file)
      /\ o >= 0 /\ l >= 0 /\ o + l <= FileLength(iter.file)
      /\ files.start[iter.file] + o + l = next
  BY DEF ToStep, InOutput
<1>2. /\ o \in Int /\ l \in Int /\ Pos(iter) \in Int /\ Rest(iter) \in Int
      /\ iter.inputOffset \in Offsets /\ iter.outputOffset \in Offsets
      /\ 0 <= Pos(iter) /\ 0 <= Rest(iter) /\ next <= outputLength
  BY <1>1, ChunkParts DEF InOutput
<1>3. /\ FileLength(iter.file) \in Nat /\ files.start[iter.file] \in Nat /\ outputLength \in Nat
      /\ next \in Nat
  BY <1>1, <1>2, FilePlaces, Layout
<1>4. out \in Offsets /\ offset(out) = next
  BY <1>2, OffsetAlgebra DEF Pos, Rest
<1>5. /\ span \in Nat /\ next + span <= outputLength
      /\ next < outputLength => /\ span > 0
                                /\ span = spanLength \/ next + span = outputLength
  BY <1>2, <1>3, SpanLengths
<1>6. NextOutput = WithLength(out, span)
  BY <1>4 DEF NextOutput
<1>7. NextOutput \in Offsets /\ offset(NextOutput) = next /\ length(NextOutput) = span
  BY <1>4, <1>5, <1>6, OffsetAlgebra
<1>8. iter' = c
  BY DEF Step
<1>9. next < outputLength => next % TransferBlockSize = 0
  <2>1. SUFFICES ASSUME next < outputLength PROVE next % TransferBlockSize = 0
    OBVIOUS
  <2>2. Rest(iter) = spanLength /\ Pos(iter) % TransferBlockSize = 0
    BY <1>1, <1>2, <1>3, <2>1 DEF AtSpan
  <2>3. spanLength \in Int /\ spanLength % TransferBlockSize = 0
    BY DEF SpanOK
  <2>4. QED
    BY <1>2, <2>2, <2>3, CopyAssumption, NextMultiple
<1>10. /\ from \in Chunks /\ from.file \in 1..End
       /\ from.inputLength = FileLength(from.file)
       /\ At(from.file, offset(from.inputOffset), next)
       /\ length(from.inputOffset) = blockLength(InFile(from))
  <2>1. CASE iter.file # End
    <3>1. /\ file \in 1..End /\ file \in Nat
          /\ in \in Offsets
          /\ At(file, offset(in), next)
      BY <1>1, <2>1, PlaceAfter
    <3>2. ~OverAfter(iter) => file = iter.file
      BY DEF FileAfter
    <3>3. len = FileLength(file) /\ len \in Nat /\ len \in Int
      BY <1>1, <3>1, <3>2, FilePlaces DEF LengthAfter
    <3>4. len - offset(in) \in Nat
      BY <3>1, <3>3, PlaceInOutput
    <3>5. inLen \in Nat
      BY <3>4, BlockLengthOf
    <3>6. /\ WithLength(in, inLen) \in Offsets
          /\ offset(WithLength(in, inLen)) = offset(in) /\ length(WithLength(in, inLen)) = inLen
      BY <3>1, <3>5, OffsetAlgebra
    <3>7. from = ChunkState(file, len, WithLength(in, inLen), iter.outputOffset)
      BY <2>1 DEF InputAfter, LengthAfter, FileAfter, PosAfter, OverAfter, InAfter
    <3> HIDE DEF inLen, file, in, from, len
    <3>8. /\ from \in Chunks /\ from.file = file /\ from.inputLength = len
          /\ from.inputOffset = WithLength(in, inLen)
      <4>1. file \in Nat /\ len \in Int /\ WithLength(in, inLen) \in Offsets
            /\ iter.outputOffset \in Offsets
        BY <1>2, <3>1, <3>3, <3>6
      <4>2. LET n == ChunkState(file, len, WithLength(in, inLen), iter.outputOffset) IN
            /\ n \in Chunks /\ n.file = file /\ n.inputLength = len
            /\ n.inputOffset = WithLength(in, inLen)
        BY <4>1, ChunkMade
      <4>3. QED
        BY <3>7, <4>2
    <3>9. QED
      BY <3>1, <3>3, <3>6, <3>8 DEF InFile, inLen
  <2>2. CASE iter.file = End
    <3>1. FileLength(iter.file) = 0 /\ files.start[iter.file] = outputLength
      BY <1>1, <2>2, FilePlaces
    <3>2. o = 0 /\ l = 0 /\ next = outputLength
      BY <1>1, <1>2, <1>3, <3>1
    <3>3. At(iter.file, o, next)
      BY <1>1, <1>3, <2>2, <3>1, <3>2 DEF At
    <3>4. blockLength(InFile(iter)) = 0
      <4>1. InFile(iter) = 0
        BY <3>1, <3>2 DEF InFile
      <4>2. QED
        BY <4>1, BlockLengthOf
    <3>5. from = iter
      BY <2>2
    <3>6. QED
      BY <1>1, <3>2, <3>3, <3>4, <3>5
  <2>3. QED
    BY <2>1, <2>2
<1> HIDE DEF from, next, span
<1>11. /\ c \in Chunks /\ c.file = from.file /\ c.inputLength = from.inputLength
       /\ c.inputOffset = from.inputOffset /\ c.outputOffset = NextOutput
  BY <1>7, <1>10 DEF Chunks
<1> HIDE DEF c
<1>12. Pos(c) = next /\ Rest(c) = span
  BY <1>7, <1>11 DEF Pos, Rest
<1>13. InOutput(c)
  BY <1>3, <1>5, <1>11, <1>12 DEF InOutput
<1>14. Located(c)
  BY <1>10, <1>11, <1>12, <1>13 DEF Located
<1>15. AtSpan(c)
  BY <1>5, <1>9, <1>12 DEF AtSpan
<1>16. InFile(c) = InFile(from)
  BY <1>11 DEF InFile
<1>17. OnFiles(c)
  BY <1>10, <1>11, <1>14, <1>15, <1>16 DEF OnFiles
<1>18. QED
  BY <1>8, <1>11, <1>12, <1>17 DEF next

(* The loop starts at the first file, with spans of whole blocks.          *)
LEMMA LoopStarts ==
  ASSUME files \in FileSets, numProcessors \in Nat, numProcessors > 0, ~ShortForm,
         NEW s, s = (outputLength \div (TransferBlockSize * numProcessors)) * TransferBlockSize
  PROVE  LET c == Begin(Minimum(s, outputLength)) IN
         /\ s \in Nat /\ s >= TransferBlockSize /\ s % TransferBlockSize = 0
         /\ Located(c) /\ Pos(c) = 0
         /\ Rest(c) > 0 /\ (Rest(c) = s \/ Rest(c) = outputLength)
         /\ length(c.inputOffset) = blockLength(InFile(c))
<1> DEFINE B   == TransferBlockSize
           D   == B * numProcessors
           q   == outputLength \div D
           min == Minimum(s, outputLength)
           len == FileLength(1)
           in  == MappingOffset(0, blockLength(len))
           out == MappingOffset(0, min)
           c   == ChunkState(1, len, in, out)
<1>1. B \in Nat \ {0} /\ outputLength \in Nat
  BY CopyAssumption, Layout
<1>2. D \in Nat \ {0} /\ D < outputLength
  <2>1. D \in Nat /\ D # 0
    BY <1>1
  <2>2. QED
    BY <1>1, <2>1 DEF ShortForm
<1>3. q \in Int /\ q >= 1
  <2> HIDE DEF D
  <2>1. q \in Int /\ outputLength % D \in 0..D - 1 /\ outputLength = D * q + (outputLength % D)
    BY <1>1, <1>2
  <2> HIDE DEF q
  <2>2. ~(0 >= q)
    <3>1. ASSUME 0 >= q PROVE D * q <= 0 /\ D * q \in Int
      <4>1. CASE q = 0
        BY <1>2, <4>1
      <4>2. CASE 0 > q
        <5>1. D * 0 >= D * q + D /\ D * q \in Int /\ D * 0 = 0
          BY <1>2, <2>1, <4>2, MultiplesApart
        <5>2. QED
          BY <1>2, <5>1
      <4>3. QED
        BY <2>1, <3>1, <4>1, <4>2
    <3>2. QED
      BY <1>1, <1>2, <2>1, <3>1
  <2>3. QED
    BY <2>1, <2>2
<1>4. s = B * q + 0 /\ s \in Int
  <2> HIDE DEF q
  <2>1. q * B = B * q /\ B * q \in Int
    BY <1>1, <1>3
  <2>2. s = q * B
    BY DEF q
  <2>3. QED
    BY <2>1, <2>2
<1> HIDE DEF q, D
<1>5. s % B = 0
  <2>1. 0 \in 0..B - 1
    BY <1>1
  <2>2. QED
    BY <1>1, <1>3, <1>4, <2>1, Remainder
<1>6. s >= B
  <2>1. CASE q = 1
    BY <1>1, <1>4, <2>1
  <2>2. CASE q > 1
    <3>1. B * q >= B * 1 + B /\ B * q \in Int /\ B * 1 = B
      BY <1>1, <1>3, <2>2, MultiplesApart
    <3>2. QED
      BY <1>1, <1>4, <3>1
  <2>3. QED
    BY <1>3, <2>1, <2>2
<1>7. /\ min \in Nat /\ min > 0 /\ min <= outputLength /\ (min = s \/ min = outputLength)
  BY <1>1, <1>2, <1>4, <1>6 DEF Minimum
<1>8. /\ 1 \in 1..End /\ 1 \in Nat /\ files.start[1] = 0 /\ len \in Nat
      /\ 1 # End => len > 0
  BY Layout, FilePlaces
<1>9. blockLength(len) \in Nat
  BY <1>8, BlockLengthOf
<1> HIDE DEF min
<1>10. /\ in \in Offsets /\ offset(in) = 0 /\ length(in) = blockLength(len)
       /\ out \in Offsets /\ offset(out) = 0 /\ length(out) = min
  BY <1>7, <1>9, OffsetParts
<1> HIDE DEF in, out
<1>11. /\ c \in Chunks /\ c.file = 1 /\ c.inputLength = len /\ c.inputOffset = in
       /\ Pos(c) = 0 /\ Rest(c) = min
  BY <1>8, <1>10, ChunkMade
<1>12. c = Begin(min)
  BY DEF Begin, in, out
<1> HIDE DEF c
<1>13. InOutput(c)
  BY <1>1, <1>7, <1>11 DEF InOutput
<1>14. At(1, 0, 0)
  BY <1>8 DEF At
<1>15. Located(c)
  BY <1>10, <1>11, <1>13, <1>14 DEF Located
<1>16. InFile(c) = len
  BY <1>8, <1>10, <1>11 DEF InFile
<1>17. s \in Nat
  BY <1>1, <1>4, <1>6
<1>18. QED
  BY <1>5, <1>6, <1>7, <1>10, <1>11, <1>12, <1>15, <1>16, <1>17 DEF min

-----------------------------------------------------------------------------
(* The invariant is inductive                                              *)

(* The parts of the invariant depend on the files, the length of a span    *)
(* and their argument only.                                                *)
LEMMA Kept ==
  ASSUME files' = files, spanLength' = spanLength
  PROVE  /\ SpanOK' <=> SpanOK
         /\ \A c : /\ ChunkOK(c)' <=> ChunkOK(c)
                   /\ AtSpan(c)' <=> AtSpan(c)
                   /\ InOutput(c)' <=> InOutput(c)
                   /\ OnFiles(c)' <=> OnFiles(c)
                   /\ ToStep(c)' <=> ToStep(c)
<1>1. End' = End /\ outputLength' = outputLength /\ count' = count
  BY FilesKept
<1>2. SpanOK' <=> SpanOK
  BY DEF SpanOK
<1>3. \A f : FileLength(f)' = FileLength(f)
  BY PlaceKept
<1>4. \A c : InFile(c)' = InFile(c)
  BY <1>3 DEF InFile
<1>5. \A c : Snug(c)' <=> Snug(c)
  BY <1>4 DEF Snug
<1>6. \A c : Ready(c)' <=> Ready(c)
  BY <1>1, <1>3 DEF Ready
<1>7. \A c : ChunkOK(c)' <=> ChunkOK(c)
  BY <1>5, <1>6, PlaceKept DEF ChunkOK
<1>8. \A c : AtSpan(c)' <=> AtSpan(c)
  BY <1>1 DEF AtSpan
<1>9. \A c : OnFiles(c)' <=> OnFiles(c)
  BY <1>4, <1>8, PlaceKept DEF OnFiles
<1>10. \A c : InOutput(c)' <=> InOutput(c)
  BY FilesKept
<1>11. \A c : ToStep(c)' <=> ToStep(c)
  BY <1>1, <1>3, <1>8, <1>10 DEF ToStep
<1>12. QED
  BY <1>2, <1>7, <1>8, <1>9, <1>10, <1>11

(* Where the iterator is does not change with files, span and iterator.    *)
LEMMA IterKept ==
  ASSUME files' = files, spanLength' = spanLength, iter' = iter
  PROVE  /\ OnFiles(iter)' <=> OnFiles(iter)
         /\ ToStep(iter)' <=> ToStep(iter)
         /\ AtSpan(iter)' <=> AtSpan(iter)
         /\ InOutput(iter)' <=> InOutput(iter)
         /\ Pos(iter)' = Pos(iter) /\ Rest(iter)' = Rest(iter)
         /\ outputLength' = outputLength
         /\ iter' \in Chunks <=> iter \in Chunks
         /\ SpanOK' <=> SpanOK
BY Kept, FilesKept DEF Pos, Rest

(* Tame files stay tame, and the form of the copy is chosen once.          *)
LEMMA FormKept ==
  ASSUME files' = files, numProcessors' = numProcessors
  PROVE  (Tame' <=> Tame) /\ (ShortForm' <=> ShortForm)
BY FilesKept DEF Tame, ShortForm

(* The iterator of the loop is a chunk at a place of the output.           *)
LEMMA IterParts ==
  ASSUME Inv
  PROVE  /\ files \in FileSets /\ Tame /\ CopyInv /\ iter \in Chunks
         /\ Pos(iter) \in Int /\ Rest(iter) \in Int /\ outputLength \in Nat
         /\ Frontier \in Int
         /\ Behind(Frontier) /\ (ShortForm \/ Covered(Frontier))
<1>1. files \in FileSets /\ Tame /\ CopyInv /\ iter \in Chunks
  BY DEF Inv, IterInv
<1>2. Pos(iter) \in Int /\ Rest(iter) \in Int /\ outputLength \in Nat
  BY <1>1, ChunkParts, Layout
<1>3. Frontier \in Int
  BY <1>2 DEF Frontier
<1>4. QED
  BY <1>1, <1>2, <1>3 DEF Inv, FrontierInv

(* What a limit says is what its value says.                               *)
LEMMA LimitIs ==
  ASSUME NEW limit
  PROVE  /\ Behind(limit)' /\ (ShortForm' \/ Covered(limit)') /\ Frontier' = limit => FrontierInv'
         /\ Frontier = limit /\ FrontierInv => Behind(limit) /\ (ShortForm \/ Covered(limit))
BY DEF FrontierInv, Behind, Covered

LEMMA InitInv == Init /\ Tame => Inv
<1> SUFFICES ASSUME Init, Tame PROVE Inv
  OBVIOUS
<1>1. /\ CopyInit /\ mainPc = "start" /\ iter = Begin(0) /\ numProcessors \in ProcessorCounts
  BY DEF Init
<1>2. files \in FileSets /\ CopyInv /\ Behind(0) /\ Covered(0) /\ ~killed
  BY <1>1, CopyStarts
<1>3. iter \in Chunks
  <2>1. 1 \in 1..End /\ 1 \in Nat /\ FileLength(1) \in Nat
    BY <1>2, Layout, FilePlaces
  <2>2. blockLength(FileLength(1)) \in Int
    BY <2>1, BlockLengthOf
  <2>3. MappingOffset(0, blockLength(FileLength(1))) \in Offsets /\ MappingOffset(0, 0) \in Offsets
    BY <2>2, OffsetParts
  <2>4. QED
    BY <1>1, <2>1, <2>3, ChunkMade DEF Begin
<1>4. IterInv
  BY <1>1, <1>3 DEF IterInv
<1>5. TaskInv
  BY <1>1 DEF CopyInit, TaskInv
<1>6. FrontierInv
  BY <1>1, <1>2 DEF FrontierInv, Frontier
<1>7. DoneInv
  BY <1>1 DEF DoneInv
<1>8. DeathInv
  BY <1>2, Zenon DEF DeathInv
<1>9. numProcessors \in Nat
  BY <1>1, SpanAssumption
<1>10. QED
  BY <1>2, <1>4, <1>5, <1>6, <1>7, <1>8, <1>9 DEF Inv

(* A worker's step.                                                        *)
LEMMA WorkersKeep == Inv /\ Workers => Inv'
<1> SUFFICES ASSUME Inv, Workers PROVE Inv'
  OBVIOUS
<1>1. PICK t \in tasks : CopyStep(t, Increment(t.chunk))
  BY DEF Workers
<1>2. UNCHANGED <<mainPc, iter, walk, status, numProcessors, spanLength>>
  BY DEF Workers, loopVars, spanVars
<1>3. /\ files \in FileSets /\ Tame /\ CopyInv /\ TaskInv /\ TaskOK(t) /\ iter \in Chunks
      /\ Frontier \in Int
  BY IterParts DEF Inv, CopyInv
<1>4. ASSUME ~atEnd(t.chunk)
      PROVE  Follows(Increment(t.chunk), t.chunk) /\ ChunkOK(Increment(t.chunk))
  <2>1. Rest(t.chunk) > 0
    BY <1>3, <1>4, TaskParts
  <2>2. ChunkOK(t.chunk)
    BY <1>3, <2>1 DEF TaskInv
  <2>3. QED
    BY <1>3, <1>4, <2>2, IncrementFollows
<1>5. /\ files' = files /\ killed' = killed
      /\ CopyInv'
      /\ \A limit \in Int : /\ Behind(limit) => Behind(limit)'
                            /\ Covered(limit) => Covered(limit)'
      /\ \A u \in tasks' : \/ u \in tasks
                           \/ u.chunk = t.chunk
                           \/ ~atEnd(t.chunk) /\ u.chunk = Increment(t.chunk)
  BY <1>1, <1>2, <1>3, <1>4, CopyStepKeeps
<1>6. \A c : ChunkOK(c)' <=> ChunkOK(c)
  BY <1>2, <1>5, Kept
<1>7. TaskInv'
  <2>1. \A u \in tasks' : Rest(u.chunk) > 0 => ChunkOK(u.chunk)
    BY <1>3, <1>4, <1>5 DEF TaskInv
  <2>2. QED
    BY <1>6, <2>1 DEF TaskInv
<1>8. IterInv'
  <2>1. IterInv
    BY DEF Inv
  <2>2. Walking' <=> Walking
    BY <1>2, <1>5, <1>6, IterKept DEF Walking
  <2>3. QED
    BY <1>2, <1>5, <2>1, <2>2, IterKept DEF IterInv
<1>9. FrontierInv'
  <2>1. PICK limit \in Int : limit = Frontier
    BY <1>3
  <2>2. Behind(limit) /\ (ShortForm \/ Covered(limit))
    BY <2>1, LimitIs DEF Inv
  <2>3. Frontier' = limit
    BY <1>2, <1>5, <2>1, FilesKept DEF Frontier
  <2>4. ShortForm' <=> ShortForm
    BY <1>2, <1>5, FormKept
  <2>5. QED
    BY <1>5, <2>2, <2>3, <2>4, LimitIs
<1>10. DoneInv'
  <2>1. mainPc = "done" => FALSE
    BY DEF Inv, DoneInv
  <2>2. QED
    BY <1>2, <2>1 DEF DoneInv
<1>11. DeathInv'
  BY <1>2, <1>5, Zenon DEF Inv, DeathInv
<1>12. Tame'
  BY <1>2, <1>3, <1>5, FormKept
<1>13. numProcessors' \in Nat
  BY <1>2 DEF Inv
<1>14. QED
  BY <1>3, <1>5, <1>7, <1>8, <1>9, <1>10, <1>11, <1>12, <1>13 DEF Inv

\* A failure is or will be reported.
Reported == failed \/ status = "error"

(* A step of the main thread that queues nothing.                          *)
LEMMA MainKeeps ==
  ASSUME Inv, UNCHANGED <<files, output, tasks, numProcessors>>,
         Reported => Reported',
         IterInv', DoneInv', DeathInv',
         \/ Frontier' = Frontier
         \/ Frontier' = outputLength /\ (status' = "error" \/ ShortForm)
  PROVE  Inv'
<1>1. /\ files \in FileSets /\ Tame /\ CopyInv /\ Frontier \in Int /\ outputLength \in Nat
  BY IterParts
<1>2. CopyInv' /\ \A limit \in Int : /\ Behind(limit) => Behind(limit)'
                                     /\ Covered(limit) => Covered(limit)'
  BY <1>1, NothingCopied DEF Reported
<1>3. TaskInv'
  <2>1. \A f : FileLength(f)' = FileLength(f)
    BY PlaceKept
  <2>2. \A c : Snug(c)' <=> Snug(c)
    BY <2>1 DEF Snug, InFile
  <2>3. \A c : Ready(c)' <=> Ready(c)
    BY <2>1, FilesKept DEF Ready
  <2>4. \A c : ChunkOK(c)' <=> ChunkOK(c)
    BY <2>2, <2>3, PlaceKept DEF ChunkOK
  <2>5. TaskInv
    BY DEF Inv
  <2>6. QED
    BY <2>4, <2>5 DEF TaskInv
<1>4. (Tame' <=> Tame) /\ (ShortForm' <=> ShortForm)
  BY FormKept
<1>5. FrontierInv'
  <2>1. CASE Frontier' = Frontier
    <3>1. PICK limit \in Int : limit = Frontier
      BY <1>1
    <3>2. Behind(limit) /\ (ShortForm \/ Covered(limit))
      BY <3>1, LimitIs DEF Inv
    <3>3. QED
      BY <1>2, <1>4, <2>1, <3>1, <3>2, LimitIs
  <2>2. CASE Frontier' = outputLength /\ (status' = "error" \/ ShortForm)
    <3>1. PICK limit \in Int : limit = outputLength
      BY <1>1
    <3>2. Behind(limit)
      BY <1>1, <3>1, AllCopied DEF Behind
    <3>3. ShortForm' \/ Covered(limit)'
      BY <1>4, <2>2 DEF Covered
    <3>4. QED
      BY <1>2, <2>2, <3>1, <3>2, <3>3, LimitIs
  <2>3. QED
    BY <2>1, <2>2
<1>6. QED
  BY <1>1, <1>2, <1>3, <1>4, <1>5 DEF Inv

LEMMA StartKeeps == Inv /\ Start => Inv'
<1> SUFFICES ASSUME Inv, Start PROVE Inv'
  OBVIOUS
<1>1. /\ mainPc = "start" /\ files' = files /\ output' = output /\ tasks' = tasks
      /\ failed' = failed /\ status' = status /\ numProcessors' = numProcessors
  BY DEF Start, copyVars, loopVars, spanVars
<1>2. /\ files \in FileSets /\ iter \in Chunks /\ outputLength \in Nat /\ numProcessors \in Nat
      /\ Frontier = 0
  BY <1>1, IterParts DEF Inv, Frontier
<1>3. Reported => Reported'
  BY <1>1, Zenon DEF Reported
<1>4. CASE ShortForm /\ mainPc' = "finish" /\ UNCHANGED <<copyVars, iter, walk, status, spanVars>>
  <2>1. IterInv'
    BY <1>2, <1>4 DEF IterInv
  <2>2. DoneInv'
    BY <1>4 DEF DoneInv
  <2>3. DeathInv'
    BY <1>4, Zenon DEF Inv, DeathInv, copyVars, spanVars
  <2>4. outputLength' = outputLength
    BY <1>1, FilesKept
  <2>5. Frontier' = outputLength
    BY <1>4, <2>4 DEF Frontier
  <2>6. QED
    BY <1>1, <1>3, <1>4, <2>1, <2>2, <2>3, <2>5, MainKeeps
<1>5. CASE /\ ~ShortForm /\ numProcessors = 0
           /\ UNCHANGED <<files, output, tasks, failed, loopVars, spanVars>>
  <2>1. mainPc' = "start" /\ iter' = iter
    BY <1>1, <1>5 DEF loopVars
  <2>2. IterInv'
    BY <1>2, <2>1 DEF IterInv
  <2>3. DoneInv'
    BY <2>1 DEF DoneInv
  <2>4. DeathInv'
    BY <1>1, <1>5, Zenon DEF DeathInv
  <2>5. Frontier' = Frontier
    BY <1>2, <2>1 DEF Frontier
  <2>6. QED
    BY <1>1, <1>3, <2>2, <2>3, <2>4, <2>5, MainKeeps
<1>6. CASE /\ ~ShortForm /\ numProcessors > 0
           /\ spanLength' = (outputLength \div (TransferBlockSize * numProcessors))
                                * TransferBlockSize
           /\ iter' = Begin(Minimum(spanLength', outputLength))
           /\ mainPc' = "test"
           /\ UNCHANGED <<copyVars, walk, status, numProcessors>>
  <2>1. PICK s : s = (outputLength \div (TransferBlockSize * numProcessors)) * TransferBlockSize
    OBVIOUS
  <2>2. PICK c : c = Begin(Minimum(s, outputLength))
    OBVIOUS
  <2>3. /\ s \in Nat /\ s >= TransferBlockSize /\ s % TransferBlockSize = 0
        /\ Located(c) /\ Pos(c) = 0
        /\ Rest(c) > 0 /\ (Rest(c) = s \/ Rest(c) = outputLength)
        /\ length(c.inputOffset) = blockLength(InFile(c))
    BY <1>2, <1>6, <2>1, <2>2, LoopStarts
  <2>4. spanLength' = s /\ iter' = c
    BY <1>6, <2>1, <2>2
  <2>5. c \in Chunks /\ Pos(c) \in Int /\ Rest(c) \in Int
    BY <2>3, ChunkParts DEF Located, InOutput
  <2>6. AtSpan(iter)'
    <3>1. outputLength' = outputLength
      BY <1>1, FilesKept
    <3>2. 0 % TransferBlockSize = 0
      BY NoRemainder
    <3>3. Rest(c) = spanLength' \/ Pos(c) + Rest(c) = outputLength
      BY <1>2, <2>3, <2>4, <2>5
    <3>4. QED
      BY <2>3, <2>4, <3>1, <3>2, <3>3 DEF AtSpan
  <2>7. OnFiles(iter)'
    <3>1. \A d : Located(d)' <=> Located(d)
      BY <1>1, PlaceKept
    <3>2. \A d : InFile(d)' = InFile(d)
      BY <1>1, PlaceKept DEF InFile
    <3>3. Located(iter)' /\ (length(iter.inputOffset) = blockLength(InFile(iter)))'
      BY <2>3, <2>4, <3>1, <3>2
    <3>4. QED
      BY <2>6, <3>3 DEF OnFiles
  <2>8. SpanOK'
    BY <2>3, <2>4 DEF SpanOK
  <2>9. IterInv'
    BY <1>6, <2>4, <2>5, <2>7, <2>8 DEF IterInv
  <2>10. DoneInv'
    BY <1>6 DEF DoneInv
  <2>11. DeathInv'
    BY <1>6, Zenon DEF Inv, DeathInv, copyVars
  <2>12. Frontier' = Frontier
    BY <1>2, <1>6, <2>3, <2>4 DEF Frontier
  <2>13. QED
    BY <1>1, <1>3, <2>9, <2>10, <2>11, <2>12, MainKeeps
<1>7. QED
  BY <1>4, <1>5, <1>6 DEF Start

LEMMA LoopEndsKeeps == Inv /\ LoopEnds /\ UNCHANGED spanVars => Inv'
<1> SUFFICES ASSUME Inv, LoopEnds, UNCHANGED spanVars PROVE Inv'
  OBVIOUS
<1>1. /\ mainPc = "test" /\ AtLoopEnd /\ mainPc' = "finish"
      /\ UNCHANGED <<files, output, tasks, failed, killed, iter, walk, status>>
      /\ UNCHANGED <<numProcessors, spanLength>>
  BY DEF LoopEnds, copyVars, spanVars
<1>2. IterInv'
  BY <1>1, IterKept DEF Inv, IterInv
<1>3. DoneInv'
  BY <1>1 DEF DoneInv
<1>4. Frontier' = Frontier
  BY <1>1, FilesKept DEF Frontier, AtLoopEnd, Pos
<1>5. Reported => Reported'
  BY <1>1, Zenon DEF Reported
<1>6. DeathInv'
  BY <1>1, Zenon DEF Inv, DeathInv
<1>7. QED
  BY <1>1, <1>2, <1>3, <1>4, <1>5, <1>6, MainKeeps

LEMMA CollectKeeps == Inv /\ Collect /\ UNCHANGED spanVars => Inv'
<1> SUFFICES ASSUME Inv, Collect, UNCHANGED spanVars PROVE Inv'
  OBVIOUS
<1>1. /\ mainPc = "collect" /\ failed' = FALSE
      /\ status' = IF failed THEN "error" ELSE status
      /\ mainPc' = IF failed THEN "finish" ELSE "advance"
      /\ UNCHANGED <<files, output, tasks, killed, iter, walk>>
      /\ UNCHANGED <<numProcessors, spanLength>>
  BY DEF Collect, spanVars
<1>2. IterInv'
  BY <1>1, IterKept DEF Inv, IterInv
<1>3. DoneInv'
  BY <1>1 DEF DoneInv
<1>4. \/ Frontier' = Frontier
      \/ Frontier' = outputLength /\ (status' = "error" \/ ShortForm)
  <2>1. CASE failed
    <3>1. mainPc' = "finish" /\ status' = "error"
      BY <1>1, <2>1, Zenon
    <3>2. outputLength' = outputLength
      BY <1>1, FilesKept
    <3>3. Frontier' = outputLength
      BY <3>1, <3>2 DEF Frontier
    <3>4. QED
      BY <3>1, <3>3
  <2>2. CASE ~failed
    <3>1. mainPc' = "advance"
      BY <1>1, <2>2, Zenon
    <3>2. QED
      BY <1>1, <3>1, IterKept DEF Frontier
  <2>3. QED
    BY <2>1, <2>2
<1>5. Reported => Reported'
  BY <1>1, Zenon DEF Reported
<1>6. DeathInv'
  BY <1>1, Zenon DEF Inv, DeathInv
<1>7. QED
  BY <1>1, <1>2, <1>3, <1>4, <1>5, <1>6, MainKeeps

LEMMA FinishKeeps == Inv /\ Finish /\ UNCHANGED spanVars => Inv'
<1> SUFFICES ASSUME Inv, Finish, UNCHANGED spanVars PROVE Inv'
  OBVIOUS
<1>1. /\ mainPc = "finish" /\ tasks = {} /\ mainPc' = "done"
      /\ status' = IF failed THEN "error" ELSE status
      /\ UNCHANGED <<files, output, tasks, failed, killed, iter, walk>>
      /\ UNCHANGED <<numProcessors, spanLength>>
  BY DEF Finish, copyVars, spanVars
<1>2. IterInv'
  BY <1>1, IterKept DEF Inv, IterInv
<1>3. DoneInv'
  BY <1>1 DEF DoneInv
<1>4. Frontier' = Frontier
  BY <1>1, IterKept DEF Frontier
<1>5. Reported => Reported'
  BY <1>1, Zenon DEF Reported
<1>6. DeathInv'
  BY <1>1, Zenon DEF Inv, DeathInv
<1>7. QED
  BY <1>1, <1>2, <1>3, <1>4, <1>5, <1>6, MainKeeps

LEMMA QueueChunkKeeps == Inv /\ QueueChunk /\ UNCHANGED spanVars => Inv'
<1> SUFFICES ASSUME Inv, QueueChunk, UNCHANGED spanVars PROVE Inv'
  OBVIOUS
<1>1. /\ mainPc = "test" /\ mainPc' = "collect" /\ tasks' = tasks \cup {NewTask(iter)}
      /\ UNCHANGED <<files, output, failed, killed, iter, walk, status>>
      /\ UNCHANGED <<numProcessors, spanLength>>
  BY DEF QueueChunk, spanVars
<1>2. /\ files \in FileSets /\ Tame /\ CopyInv /\ iter \in Chunks
      /\ Pos(iter) \in Int /\ Rest(iter) \in Int
      /\ Frontier = Pos(iter) /\ Behind(Pos(iter)) /\ (ShortForm \/ Covered(Pos(iter)))
  BY <1>1, IterParts DEF Frontier
<1>3. OnFiles(iter) /\ SpanOK
  BY <1>1 DEF Inv, IterInv
<1>4. /\ InOutput(iter) /\ Fits(iter) /\ ChunkOK(iter)
      /\ Rest(iter) > 0 => Pos(iter) % PageSize = 0
  BY <1>2, <1>3, SpanToQueue
<1>5. PICK c : c = iter
  OBVIOUS
<1>6. InOutput(c) /\ Fits(c) /\ (Rest(c) > 0 => Pos(c) % PageSize = 0)
      /\ Behind(Pos(c)) /\ (ShortForm \/ Covered(Pos(c))) /\ tasks' = tasks \cup {NewTask(c)}
  BY <1>1, <1>2, <1>4, <1>5
<1>7. CopyInv' /\ Behind(Pos(c) + Rest(c))' /\ (ShortForm \/ Covered(Pos(c) + Rest(c))')
  BY <1>1, <1>2, <1>6, ChunkQueued
<1>8. FrontierInv'
  <2>1. PICK limit \in Int : limit = Pos(c) + Rest(c)
    BY <1>2, <1>5
  <2>2. Behind(limit)' /\ (ShortForm' \/ Covered(limit)')
    BY <1>1, <1>7, <2>1, FormKept
  <2>3. Frontier' = limit
    BY <1>1, <1>5, <2>1 DEF Frontier
  <2>4. QED
    BY <2>2, <2>3, LimitIs
<1>9. TaskInv'
  <2>1. \A d : ChunkOK(d)' <=> ChunkOK(d)
    BY <1>1, Kept
  <2>2. NewTask(iter).chunk = iter
    BY DEF NewTask
  <2>3. \A t \in tasks' : Rest(t.chunk) > 0 => ChunkOK(t.chunk)
    BY <1>1, <1>4, <2>2 DEF Inv, TaskInv
  <2>4. QED
    BY <2>1, <2>3 DEF TaskInv
<1>10. IterInv'
  BY <1>1, <1>2, <1>3, IterKept DEF IterInv
<1>11. DoneInv'
  BY <1>1 DEF DoneInv
<1>12. DeathInv'
  BY <1>1, Zenon DEF Inv, DeathInv
<1>13. Tame' /\ numProcessors' \in Nat
  BY <1>1, <1>2, FormKept DEF Inv
<1>14. QED
  BY <1>1, <1>2, <1>7, <1>8, <1>9, <1>10, <1>11, <1>12, <1>13 DEF Inv

LEMMA AdvanceKeeps == Inv /\ Advance /\ UNCHANGED spanVars => Inv'
<1> SUFFICES ASSUME Inv, Advance, UNCHANGED spanVars PROVE Inv'
  OBVIOUS
<1>1. /\ mainPc = "advance" /\ walk' = iter
      /\ mainPc' = IF offset(iter.outputOffset) = outputLength THEN "test"
                   ELSE IF length(iter.outputOffset) # length(iter.inputOffset) THEN "walk"
                   ELSE "step"
      /\ UNCHANGED <<files, output, tasks, failed, killed, iter, status>>
      /\ UNCHANGED <<numProcessors, spanLength>>
  BY DEF Advance, copyVars, spanVars
<1>2. /\ files \in FileSets /\ Tame /\ iter \in Chunks /\ OnFiles(iter) /\ SpanOK
      /\ Pos(iter) \in Int /\ Rest(iter) \in Int /\ outputLength \in Nat
  BY <1>1, IterParts DEF Inv, IterInv
<1>3. /\ InOutput(iter) /\ ChunkOK(iter) /\ AtSpan(iter) /\ Pos(iter) <= outputLength
      /\ 0 <= Rest(iter) /\ Pos(iter) + Rest(iter) <= outputLength
  BY <1>2, SpanToQueue DEF OnFiles, InOutput
<1>4. Reported => Reported'
  BY <1>1, Zenon DEF Reported
<1>5. DoneInv'
  BY <1>1 DEF DoneInv
<1>6. DeathInv'
  BY <1>1, Zenon DEF Inv, DeathInv
<1>7. CASE Pos(iter) = outputLength
  <2>1. mainPc' = "test"
    BY <1>1, <1>7 DEF Pos
  <2>2. IterInv'
    BY <1>1, <1>2, <2>1, IterKept DEF IterInv
  <2>3. Rest(iter) = 0
    BY <1>2, <1>3, <1>7
  <2>4. Frontier' = Frontier
    <3>1. Frontier = Pos(iter) + Rest(iter)
      BY <1>1 DEF Frontier
    <3>2. Frontier' = Pos(iter)
      BY <1>1, <2>1, IterKept DEF Frontier
    <3>3. QED
      BY <1>2, <2>3, <3>1, <3>2
  <2>5. QED
    BY <1>1, <1>4, <1>5, <1>6, <2>2, <2>4, MainKeeps
<1>8. CASE Pos(iter) # outputLength
  <2>1. Pos(iter) < outputLength
    BY <1>2, <1>3, <1>8
  <2>2. CASE Rest(iter) # length(iter.inputOffset)
    <3>1. mainPc' = "walk"
      BY <1>1, <1>8, <2>2 DEF Pos, Rest
    <3>2. Walking'
      <4>1. ChunkOK(walk)'
        BY <1>1, <1>3, Kept
      <4>2. /\ InOutput(iter)' /\ AtSpan(iter)' /\ (Pos(iter) < outputLength)'
            /\ (Pos(walk) + Rest(walk) = Pos(iter) + Rest(iter))'
        BY <1>1, <1>3, <2>1, IterKept
      <4>3. QED
        BY <4>1, <4>2 DEF Walking
    <3>3. IterInv'
      BY <1>1, <1>2, <3>1, <3>2, IterKept DEF IterInv
    <3>4. Frontier' = Frontier
      BY <1>1, <3>1, IterKept DEF Frontier
    <3>5. QED
      BY <1>1, <1>4, <1>5, <1>6, <3>3, <3>4, MainKeeps
  <2>3. CASE Rest(iter) = length(iter.inputOffset)
    <3>1. mainPc' = "step"
      BY <1>1, <1>8, <2>3 DEF Pos, Rest
    <3>2. ToStep(iter)
      <4>1. Located(iter) /\ Snug(iter)
        BY <1>3 DEF ChunkOK
      <4>2. /\ length(iter.inputOffset) >= 0
            /\ offset(iter.inputOffset) + length(iter.inputOffset) <= FileLength(iter.file)
        BY <1>2, <4>1, SnugFits
      <4>3. /\ iter.inputLength = FileLength(iter.file) /\ iter.file \in 1..End
            /\ offset(iter.inputOffset) \in Nat
            /\ Pos(iter) = files.start[iter.file] + offset(iter.inputOffset)
        BY <4>1 DEF Located, At
      <4>4. QED
        BY <1>3, <2>1, <2>3, <4>2, <4>3 DEF ToStep
    <3>3. IterInv'
      BY <1>1, <1>2, <3>1, <3>2, IterKept DEF IterInv
    <3>4. Frontier' = Frontier
      BY <1>1, <3>1, IterKept DEF Frontier
    <3>5. QED
      BY <1>1, <1>4, <1>5, <1>6, <3>3, <3>4, MainKeeps
  <2>4. QED
    BY <2>2, <2>3
<1>9. QED
  BY <1>7, <1>8

LEMMA WalkKeeps == Inv /\ Walk(Increment(walk)) /\ UNCHANGED spanVars => Inv'
<1> SUFFICES ASSUME Inv, Walk(Increment(walk)), UNCHANGED spanVars PROVE Inv'
  OBVIOUS
<1>1. /\ mainPc = "walk" /\ ~atEnd(walk) /\ walk' = Increment(walk)
      /\ killed' = (Increment(walk).file > End)
      /\ UNCHANGED <<files, output, tasks, failed, mainPc, iter, status>>
      /\ UNCHANGED <<numProcessors, spanLength>>
  BY DEF Walk, spanVars
<1>2. files \in FileSets /\ Tame /\ iter \in Chunks /\ Walking /\ SpanOK
  BY <1>1, IterParts DEF Inv, IterInv
<1>3. ChunkOK(walk)
  BY <1>2 DEF Walking
<1>4. PICK w : w = walk
  OBVIOUS
<1>5. PICK n : n = Increment(w)
  OBVIOUS
<1>6. Follows(n, w) /\ ChunkOK(n)
  BY <1>1, <1>2, <1>3, <1>4, <1>5, IncrementFollows
<1>7. DeathInv'
  <2>1. n.file \in 1..End /\ End \in Nat
    BY <1>2, <1>6, Layout DEF ChunkOK, Located, At
  <2>2. (n.file > End) = FALSE
    BY <2>1
  <2>3. killed' = (n.file > End)
    BY <1>1, <1>4, <1>5, Zenon
  <2>4. QED
    BY <2>2, <2>3, Zenon DEF DeathInv
<1>8. IterInv'
  <2>1. ChunkOK(n)'
    BY <1>1, <1>6, Kept
  <2>2. ChunkOK(walk)'
    BY <1>1, <1>4, <1>5, <2>1
  <2>3. Pos(n) + Rest(n) = Pos(w) + Rest(w)
    <3>1. w \in Chunks /\ Pos(w) \in Int /\ Rest(w) \in Int /\ length(w.inputOffset) \in Int
      BY <1>3, <1>4, ChunkParts DEF ChunkOK, Located, InOutput
    <3>2. QED
      BY <1>6, <3>1 DEF Follows
  <2>4. InOutput(iter)' /\ AtSpan(iter)' /\ (Pos(iter) < outputLength)'
    BY <1>1, <1>2, IterKept DEF Walking
  <2>5. (Pos(walk) + Rest(walk) = Pos(iter) + Rest(iter))'
    BY <1>1, <1>2, <1>4, <1>5, <2>3 DEF Walking
  <2>6. Walking'
    BY <2>2, <2>4, <2>5 DEF Walking
  <2>7. QED
    BY <1>1, <1>2, <2>6, IterKept DEF IterInv
<1>9. Frontier' = Frontier
  BY <1>1, IterKept DEF Frontier
<1>10. DoneInv'
  BY <1>1 DEF DoneInv
<1>11. Reported => Reported'
  BY <1>1, Zenon DEF Reported
<1>12. QED
  BY <1>1, <1>7, <1>8, <1>9, <1>10, <1>11, MainKeeps

LEMMA WalkEndsKeeps == Inv /\ WalkEnds /\ UNCHANGED spanVars => Inv'
<1> SUFFICES ASSUME Inv, WalkEnds, UNCHANGED spanVars PROVE Inv'
  OBVIOUS
<1>1. /\ mainPc = "walk" /\ atEnd(walk) /\ mainPc' = "step"
      /\ iter' = [walk EXCEPT !.outputOffset = iter.outputOffset]
      /\ UNCHANGED <<files, output, tasks, failed, killed, walk, status>>
      /\ UNCHANGED <<numProcessors, spanLength>>
  BY DEF WalkEnds, copyVars, spanVars
<1>2. /\ files \in FileSets /\ iter \in Chunks /\ Walking /\ SpanOK
      /\ Pos(iter) \in Int /\ Rest(iter) \in Int /\ outputLength \in Nat
  BY <1>1, IterParts DEF Inv, IterInv
<1>3. /\ InOutput(iter) /\ AtSpan(iter) /\ Pos(iter) < outputLength
      /\ Located(walk) /\ Snug(walk) /\ walk \in Chunks
      /\ Pos(walk) + Rest(walk) = Pos(iter) + Rest(iter)
  BY <1>2 DEF Walking, ChunkOK, Located, InOutput
<1>4. PICK c : c = [walk EXCEPT !.outputOffset = iter.outputOffset]
  OBVIOUS
<1>5. /\ c \in Chunks /\ c.file = walk.file /\ c.inputLength = walk.inputLength
      /\ c.inputOffset = walk.inputOffset /\ c.outputOffset = iter.outputOffset
  BY <1>2, <1>3, <1>4 DEF Chunks
<1>6. Pos(c) = Pos(iter) /\ Rest(c) = Rest(iter)
  BY <1>5 DEF Pos, Rest
<1>7. Rest(walk) = 0
  BY <1>1 DEF atEnd, Rest
<1>8. /\ length(walk.inputOffset) \in Int /\ length(walk.inputOffset) >= 0
      /\ length(walk.inputOffset) <= Rest(walk)
      /\ offset(walk.inputOffset) + length(walk.inputOffset) <= FileLength(walk.file)
  BY <1>2, <1>3, SnugFits
<1>9. length(walk.inputOffset) = 0
  BY <1>7, <1>8
<1>10. /\ walk.file \in 1..End /\ walk.inputLength = FileLength(walk.file)
       /\ offset(walk.inputOffset) \in Nat
       /\ Pos(walk) = files.start[walk.file] + offset(walk.inputOffset)
       /\ files.start[walk.file] \in Nat
  <2>1. /\ walk.file \in 1..End /\ walk.inputLength = FileLength(walk.file)
        /\ offset(walk.inputOffset) \in Nat
        /\ Pos(walk) = files.start[walk.file] + offset(walk.inputOffset)
    BY <1>3 DEF Located, At
  <2>2. QED
    BY <1>2, <2>1, FilePlaces
<1>11. Pos(iter) + Rest(iter) = files.start[walk.file] + offset(walk.inputOffset) + 0
  BY <1>2, <1>3, <1>7, <1>10
<1>12. ToStep(c)
  <2>1. InOutput(c) /\ AtSpan(c)
    BY <1>3, <1>5, <1>6 DEF InOutput, AtSpan
  <2>2. QED
    BY <1>3, <1>5, <1>6, <1>8, <1>9, <1>10, <1>11, <2>1 DEF ToStep
<1>13. iter' = c /\ ToStep(iter)' /\ SpanOK'
  BY <1>1, <1>2, <1>4, <1>12, Kept
<1>14. IterInv'
  BY <1>1, <1>5, <1>13 DEF IterInv
<1>15. Frontier' = Frontier
  <2>1. Frontier = Pos(iter) + Rest(iter)
    BY <1>1 DEF Frontier
  <2>2. Frontier' = Pos(c) + Rest(c)
    BY <1>1, <1>13 DEF Frontier
  <2>3. QED
    BY <1>6, <2>1, <2>2
<1>16. DoneInv'
  BY <1>1 DEF DoneInv
<1>17. Reported => Reported'
  BY <1>1, Zenon DEF Reported
<1>18. DeathInv'
  BY <1>1, Zenon DEF Inv, DeathInv
<1>19. QED
  BY <1>1, <1>14, <1>15, <1>16, <1>17, <1>18, MainKeeps

LEMMA StepKeeps == Inv /\ Step => Inv'
<1> SUFFICES ASSUME Inv, Step PROVE Inv'
  OBVIOUS
<1>1. /\ mainPc = "step" /\ mainPc' = "test"
      /\ UNCHANGED <<files, output, tasks, failed, killed, walk, status>>
      /\ UNCHANGED <<numProcessors, spanLength>>
  BY DEF Step, copyVars, spanVars
<1>2. files \in FileSets /\ ToStep(iter) /\ SpanOK
  BY <1>1, IterParts DEF Inv, IterInv
<1>3. PICK c : /\ iter' = c
               /\ OnFiles(c)
               /\ c \in Chunks
               /\ Pos(c) = Pos(iter) + Rest(iter)
  BY <1>2, StepMoves
<1>4. OnFiles(iter)' /\ SpanOK'
  BY <1>1, <1>2, <1>3, Kept
<1>5. IterInv'
  BY <1>1, <1>3, <1>4 DEF IterInv
<1>6. Frontier' = Frontier
  <2>1. Frontier = Pos(iter) + Rest(iter)
    BY <1>1 DEF Frontier
  <2>2. Frontier' = Pos(c)
    BY <1>1, <1>3 DEF Frontier
  <2>3. QED
    BY <1>3, <2>1, <2>2
<1>7. DoneInv'
  BY <1>1 DEF DoneInv
<1>8. Reported => Reported'
  BY <1>1, Zenon DEF Reported
<1>9. DeathInv'
  BY <1>1, Zenon DEF Inv, DeathInv
<1>10. QED
  BY <1>1, <1>5, <1>6, <1>7, <1>8, <1>9, MainKeeps

LEMMA StutterKeeps == Inv /\ UNCHANGED vars => Inv'
<1> SUFFICES ASSUME Inv, UNCHANGED vars PROVE Inv'
  OBVIOUS
<1>1. /\ UNCHANGED <<files, output, tasks, failed, killed, mainPc, iter, walk, status>>
      /\ UNCHANGED <<numProcessors, spanLength>>
  BY DEF vars, copyVars, loopVars, spanVars
<1>2. IterInv'
  <2>1. Walking' <=> Walking
    BY <1>1, IterKept, Kept DEF Walking
  <2>2. QED
    BY <1>1, <2>1, IterKept DEF Inv, IterInv
<1>3. DoneInv'
  BY <1>1 DEF Inv, DoneInv
<1>4. Frontier' = Frontier
  BY <1>1, IterKept DEF Frontier
<1>5. Reported => Reported'
  BY <1>1, Zenon DEF Reported
<1>6. DeathInv'
  BY <1>1, Zenon DEF Inv, DeathInv
<1>7. QED
  BY <1>1, <1>2, <1>3, <1>4, <1>5, <1>6, MainKeeps

(* Inv is inductive.                                                       *)
LEMMA InvKept == Inv /\ [Next]_vars => Inv'
BY WorkersKeep, StartKeeps, LoopEndsKeeps, CollectKeeps, FinishKeeps, QueueChunkKeeps,
   AdvanceKeeps, WalkKeeps, WalkEndsKeeps, StepKeeps, StutterKeeps DEF Next, Main, Loop

(* The input files are fixed once the copy has begun.                      *)
LEMMA FilesFixed == [Next]_vars => files' = files
BY DEF Next, Main, Workers, Start, Step, Loop, LoopEnds, QueueChunk, Collect, Advance, Walk,
       WalkEnds, Finish, CopyStep, MapOutput, CopyBlock, Synchronise, SystemCallFails,
       vars, copyVars, loopVars, spanVars

(* On tame files Inv holds throughout.                                     *)
LEMMA Invariance == Spec => [](Tame => Inv)
<1>1. Init => (Tame => Inv)
  BY InitInv
<1>2. (Tame => Inv) /\ [Next]_vars => (Tame => Inv)'
  <2>1. SUFFICES ASSUME Tame => Inv, [Next]_vars, Tame' PROVE Inv'
    OBVIOUS
  <2>2. Tame
    BY <2>1, FilesFixed DEF Tame
  <2>3. QED
    BY <2>1, <2>2, InvKept
<1>3. QED
  BY <1>1, <1>2, PTL DEF Spec

-----------------------------------------------------------------------------
(* What follows                                                            *)

(* Spans are exact: no worker reads past a file or writes outside its      *)
(* span, spans do not overlap, and no wrong byte is ever written.          *)
THEOREM ExactSpans == Spec => []SpansExact
<1>1. (Tame => Inv) => SpansExact
  BY TasksAreSafe DEF Inv, SpansExact
<1>2. QED
  BY <1>1, Invariance, PTL

(* A zero result of the long form means that all of the output has been    *)
(* written, and rightly.                                                   *)
THEOREM LongFormRight == Spec => []LongFormConcatenates
<1>1. (Tame => Inv) => LongFormConcatenates
  <2>1. SUFFICES ASSUME Inv, ~ShortForm, mainPc = "done", status = "ok"
                 PROVE  \A o \in DOMAIN output : output[o] = o
    BY DEF LongFormConcatenates, SuccessIsConcatenation
  <2>2. files \in FileSets /\ CopyInv /\ Covered(Frontier)
    BY <2>1, IterParts
  <2>3. Frontier = outputLength
    BY <2>1 DEF Frontier
  <2>4. Covered(outputLength)
    BY <2>2, <2>3 DEF Covered
  <2>5. tasks = {} /\ (failed => status = "error")
    BY <2>1 DEF Inv, DoneInv
  <2>6. ~failed
    <3>1. status # "error"
      BY <2>1
    <3>2. QED
      BY <2>5, <3>1, Zenon
  <2>7. QED
    BY <2>1, <2>2, <2>4, <2>5, <2>6, AllCopied
<1>2. QED
  BY <1>1, Invariance, PTL

(* Only a copy without workers (the division by their number) or one of    *)
(* files that are not tame is ended by a signal.                           *)
THEOREM DeathHasAReason == Spec => []DiesForAReason
<1>1. (Tame => Inv) => DiesForAReason
  BY Zenon DEF Inv, DeathInv, DiesForAReason
<1>2. QED
  BY <1>1, Invariance, PTL
-----------------------------------------------------------------------------
(* The iterator stays in inputFiles, whatever the files                    *)

\* A chunkState_t in file f.
StateIn(c, f) == f \in Nat /\ \E len, in, out : c = ChunkState(f, len, in, out)

\* Where the iterator and, as long as the process lives, the walk are.
FilesInv ==
    /\ files \in FileSets
    /\ \E f : StateIn(iter, f) /\ f <= End
    /\ mainPc = "walk" /\ ~killed => \E f : StateIn(walk, f) /\ f <= End

(* A chunkState_t knows its file, and keeps it when its output moves.      *)
LEMMA StateFile ==
  ASSUME NEW c, NEW f, StateIn(c, f), NEW out
  PROVE  c.file = f /\ StateIn([c EXCEPT !.outputOffset = out], f)
<1>1. PICK len, in, o : c = ChunkState(f, len, in, o)
  BY DEF StateIn
<1>2. [c EXCEPT !.outputOffset = out] = ChunkState(f, len, in, out)
  BY <1>1 DEF ChunkState
<1>3. QED
  BY <1>1, <1>2 DEF StateIn, ChunkState

(* operator ++ of chunkState_t stays in the file or goes to the next.      *)
LEMMA IncrementFile ==
  ASSUME NEW c, NEW f, StateIn(c, f)
  PROVE  \E g : StateIn(Increment(c), g)
<1> DEFINE used == length(c.inputOffset)
           rem  == length(c.outputOffset) - used
           out  == WithLength(Plus(c.outputOffset, used), rem)
           d    == [c EXCEPT !.outputOffset = out]
<1>1. CASE atEnd(c)
  BY <1>1 DEF Increment
<1>2. CASE ~atEnd(c)
  <2>1. Increment(c) = NextInputBlock(d, rem)
    BY <1>2 DEF Increment
  <2>2. f \in Nat /\ d.file = f
    <3>1. StateIn(d, f)
      BY StateFile
    <3>2. QED
      BY <3>1, StateFile DEF StateIn
  <2> HIDE DEF d, rem
  <2>3. PICK g \in Nat : \E len, in, o : NextInputBlock(d, rem) = ChunkState(g, len, in, o)
    <3>1. f + 1 \in Nat
      BY <2>2
    <3>2. QED
      BY <2>2, <3>1 DEF NextInputBlock
  <2>4. QED
    BY <2>1, <2>3 DEF StateIn
<1>3. QED
  BY <1>1, <1>2

(* Both sides of the iterator move on: not past the end of inputFiles.     *)
LEMMA StepInFiles ==
  ASSUME FilesInv, Step
  PROVE  \E g : StateIn(iter', g) /\ g <= End
<1> DEFINE from == IF iter.file # End THEN InputAfter ELSE iter
<1>1. PICK f : StateIn(iter, f) /\ f <= End
  BY DEF FilesInv
<1>2. iter.file = f /\ f \in Nat /\ End \in Nat
  BY <1>1, StateFile, Layout DEF StateIn, FilesInv
<1>3. iter' = [from EXCEPT !.outputOffset = NextOutput]
  BY DEF Step
<1>4. \E g : StateIn(from, g) /\ g <= End
  <2>1. CASE iter.file # End
    <3>1. from = InputAfter /\ f + 1 \in Nat /\ f + 1 <= End
      BY <1>1, <1>2, <2>1
    <3>2. \E g \in {f, f + 1} : \E len, in, o : InputAfter = ChunkState(g, len, in, o)
      BY <1>2 DEF InputAfter
    <3>3. QED
      BY <1>1, <1>2, <3>1, <3>2 DEF StateIn
  <2>2. CASE iter.file = End
    BY <1>1, <2>2
  <2>3. QED
    BY <2>1, <2>2
<1> HIDE DEF from
<1>5. QED
  BY <1>3, <1>4, StateFile

(* No step of a living process takes the iterator out of inputFiles.       *)
LEMMA FilesInvKept == FilesInv /\ [Next]_vars => FilesInv'
<1> SUFFICES ASSUME FilesInv, [Next]_vars PROVE FilesInv'
  OBVIOUS
<1>1. files' = files /\ files \in FileSets /\ End' = End /\ End \in Nat
  BY FilesFixed, FilesKept, Layout DEF FilesInv
<1>2. PICK f : StateIn(iter, f) /\ f <= End
  BY DEF FilesInv
<1>3. ASSUME iter' = iter,
             mainPc' = "walk" /\ ~killed' =>
                 \/ walk' = iter
                 \/ walk' = walk /\ mainPc = "walk" /\ ~killed
      PROVE  FilesInv'
  BY <1>1, <1>2, <1>3 DEF FilesInv, StateIn
<1>4. CASE Start
  <2>1. CASE iter' = iter
    <3>1. mainPc' # "walk"
      BY <1>4 DEF Start, loopVars
    <3>2. QED
      BY <1>3, <2>1, <3>1
  <2>2. CASE \E len : iter' = Begin(len) /\ mainPc' = "test"
    <3>1. StateIn(iter', 1) /\ 1 <= End
      BY <1>1, <2>2, Layout DEF StateIn, Begin
    <3>2. QED
      BY <1>1, <2>2, <3>1 DEF FilesInv, StateIn
  <2>3. QED
    BY <1>4, <2>1, <2>2 DEF Start, loopVars
<1>5. CASE Step
  <2>1. PICK g : StateIn(iter', g) /\ g <= End
    BY <1>5, StepInFiles
  <2>2. mainPc' = "test"
    BY <1>5 DEF Step
  <2>3. QED
    BY <1>1, <2>1, <2>2 DEF FilesInv, StateIn
<1>6. CASE LoopEnds \/ QueueChunk \/ Collect \/ Finish
  <2>1. mainPc' # "walk" /\ iter' = iter
    BY <1>6 DEF LoopEnds, QueueChunk, Collect, Finish
  <2>2. QED
    BY <1>3, <2>1
<1>7. CASE Advance
  BY <1>3, <1>7 DEF Advance
<1>8. CASE WalkEnds /\ ~killed
  <2>1. /\ mainPc = "walk" /\ mainPc' = "step"
        /\ iter' = [walk EXCEPT !.outputOffset = iter.outputOffset]
    BY <1>8 DEF WalkEnds
  <2>2. PICK g : StateIn(walk, g) /\ g <= End
    BY <1>8, <2>1 DEF FilesInv
  <2>3. StateIn(iter', g)
    BY <2>1, <2>2, StateFile
  <2>4. QED
    BY <1>1, <2>1, <2>2, <2>3 DEF FilesInv, StateIn
<1>9. CASE Walk(Increment(walk)) /\ ~killed
  <2>1. mainPc = "walk" /\ iter' = iter /\ walk' = Increment(walk)
    BY <1>9 DEF Walk
  <2>2. PICK g : StateIn(walk, g)
    BY <1>9, <2>1 DEF FilesInv
  <2>3. PICK h : StateIn(walk', h)
    BY <2>1, <2>2, IncrementFile
  <2>4. killed' = (Increment(walk).file > End)
    BY <1>9, Zenon DEF Walk
  <2>5. walk'.file = h /\ h \in Nat
    BY <2>3, StateFile DEF StateIn
  <2>6. ASSUME ~killed' PROVE h <= End
    <3>1. ~(h > End)
      BY <2>1, <2>4, <2>5, <2>6, Zenon
    <3>2. QED
      BY <1>1, <2>5, <3>1
  <2>7. QED
    BY <1>1, <1>2, <2>1, <2>3, <2>6 DEF FilesInv, StateIn
<1>10. CASE Workers /\ ~killed
  <2>1. iter' = iter /\ walk' = walk /\ mainPc' = mainPc
    BY <1>10 DEF Workers, loopVars
  <2>2. QED
    BY <1>3, <1>10, <2>1
<1>11. CASE UNCHANGED vars
  <2>1. iter' = iter /\ walk' = walk /\ mainPc' = mainPc /\ killed' = killed
    BY <1>11 DEF vars, copyVars, loopVars
  <2>2. QED
    BY <1>3, <2>1
<1>12. QED
  BY <1>4, <1>5, <1>6, <1>7, <1>8, <1>9, <1>10, <1>11 DEF Next, Main, Loop

(* The iterator of chunkedCopy() never leaves inputFiles, on any files:    *)
(* operator ++ of chunkSpans tests for their end, and a walk of end() that *)
(* leaves them does not come back.                                         *)
THEOREM IteratorStays == Spec => []IteratorInFiles
<1>1. Init => FilesInv
  <2>1. SUFFICES ASSUME Init PROVE FilesInv
    OBVIOUS
  <2>2. files \in FileSets /\ iter = Begin(0) /\ mainPc = "start"
    BY <2>1 DEF Init, CopyInit
  <2>3. StateIn(iter, 1) /\ 1 <= End
    BY <2>2, Layout DEF StateIn, Begin
  <2>4. QED
    BY <2>2, <2>3 DEF FilesInv
<1>2. FilesInv => IteratorInFiles
  BY StateFile DEF FilesInv, IteratorInFiles
<1>3. QED
  BY <1>1, <1>2, FilesInvKept, PTL DEF Spec

-----------------------------------------------------------------------------
(* The loops run out                                                       *)

\* What each loop has left becomes less with every turn and never less than
\* nothing: the range-for loop the rest of the output, end() the rest of the
\* span, copyChunk() the rest of its chunk.  And where nothing of the output is
\* left the range-for loop ends.
EveryTurnShortens ==
    /\ mainPc = "step" =>
           outputLength - offset(NextOutput) \in 0..(outputLength - Pos(iter) - 1)
    /\ mainPc = "test" /\ Pos(iter) = outputLength => AtLoopEnd
    /\ mainPc = "walk" /\ ~atEnd(walk) => Rest(Increment(walk)) \in 0..(Rest(walk) - 1)
    /\ \A t \in tasks : ~atEnd(t.chunk) =>
           Rest(Increment(t.chunk)) \in 0..(Rest(t.chunk) - 1)

(* operator ++ of chunkState_t leaves less of the chunk.                   *)
LEMMA IncrementShortens ==
  ASSUME files \in FileSets, Tame, NEW c, ChunkOK(c), ~atEnd(c)
  PROVE  Rest(Increment(c)) \in 0..(Rest(c) - 1)
<1>1. c \in Chunks /\ InOutput(c) /\ Rest(c) \in Int /\ length(c.inputOffset) \in Int
  BY ChunkParts DEF ChunkOK, Located, InOutput
<1>2. Rest(c) > 0
  BY <1>1 DEF InOutput, atEnd, Rest
<1>3. 0 < length(c.inputOffset) /\ length(c.inputOffset) <= Rest(c)
  BY <1>2, SnugFits DEF ChunkOK, Fits
<1>4. Rest(Increment(c)) = Rest(c) - length(c.inputOffset)
  BY IncrementFollows DEF Follows
<1>5. QED
  BY <1>1, <1>3, <1>4

(* On tame files the loops of chunkedCopy(), end() and copyChunk() end, as *)
(* far as their iterators are concerned, for all block sizes and numbers   *)
(* of workers.                                                             *)
THEOREM LoopsRunOut == Spec => [](Tame => EveryTurnShortens)
<1>1. ASSUME Inv PROVE EveryTurnShortens
  <2>1. files \in FileSets /\ Tame /\ iter \in Chunks /\ outputLength \in Nat /\ CopyInv
    BY <1>1, IterParts
  <2>2. ASSUME mainPc = "step"
        PROVE  outputLength - offset(NextOutput) \in 0..(outputLength - Pos(iter) - 1)
    <3>1. ToStep(iter) /\ SpanOK
      BY <1>1, <2>2 DEF Inv, IterInv
    <3>2. /\ Pos(iter) \in Int /\ Rest(iter) \in Int /\ Rest(iter) > 0
          /\ Pos(iter) + Rest(iter) <= outputLength
          /\ iter.outputOffset \in Offsets
      BY <2>1, <3>1, ChunkParts DEF ToStep, InOutput, AtSpan
    <3>3. PICK out : out = Plus(iter.outputOffset, length(iter.outputOffset))
      OBVIOUS
    <3>4. out \in Offsets /\ offset(out) = Pos(iter) + Rest(iter)
      BY <3>2, <3>3, OffsetAlgebra DEF Pos, Rest
    <3>5. SpanAt(offset(out)) \in Int
      <4>1. outputLength - offset(out) \in Int /\ spanLength \in Int
        BY <2>1, <3>1, <3>2, <3>4 DEF SpanOK
      <4>2. Minimum(spanLength, outputLength - offset(out)) \in Int
        BY <4>1, MinimumOf
      <4>3. QED
        BY <4>1, <4>2 DEF SpanAt, spanOf
    <3>6. NextOutput = WithLength(out, SpanAt(offset(out)))
      BY <3>3 DEF NextOutput
    <3>7. offset(NextOutput) = Pos(iter) + Rest(iter)
      BY <3>4, <3>5, <3>6, OffsetAlgebra
    <3>8. QED
      BY <2>1, <3>2, <3>7
  <2>3. ASSUME mainPc = "test", Pos(iter) = outputLength PROVE AtLoopEnd
    <3>1. At(iter.file, offset(iter.inputOffset), Pos(iter))
      BY <1>1, <2>3 DEF Inv, IterInv, OnFiles, Located
    <3>2. iter.file = End
      BY <2>1, <2>3, <3>1, PlaceInOutput
    <3>3. offset(iter.inputOffset) = 0
      BY <3>1, <3>2 DEF At
    <3>4. QED
      BY <2>3, <3>2, <3>3 DEF AtLoopEnd, Pos
  <2>4. ASSUME mainPc = "walk", ~atEnd(walk)
        PROVE  Rest(Increment(walk)) \in 0..(Rest(walk) - 1)
    <3>1. ChunkOK(walk)
      BY <1>1, <2>4 DEF Inv, IterInv, Walking
    <3>2. QED
      BY <2>1, <2>4, <3>1, IncrementShortens
  <2>5. ASSUME NEW t \in tasks, ~atEnd(t.chunk)
        PROVE  Rest(Increment(t.chunk)) \in 0..(Rest(t.chunk) - 1)
    <3>1. t.chunk \in Chunks /\ InOutput(t.chunk) /\ Rest(t.chunk) \in Int
      BY <2>1, ChunkParts DEF CopyInv, TaskOK, InOutput
    <3>2. Rest(t.chunk) > 0
      BY <2>5, <3>1 DEF InOutput, atEnd, Rest
    <3>3. ChunkOK(t.chunk)
      BY <1>1, <3>2 DEF Inv, TaskInv
    <3>4. QED
      BY <2>1, <2>5, <3>3, IncrementShortens
  <2>6. QED
    BY <2>2, <2>3, <2>4, <2>5 DEF EveryTurnShortens
<1>2. (Tame => Inv) => (Tame => EveryTurnShortens)
  BY <1>1
<1>3. QED
  BY <1>2, Invariance, PTL
=============================================================================
