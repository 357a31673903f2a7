------------------------------ MODULE CopyProofs ------------------------------
(***************************************************************************)
(* What the proofs of both chunking algorithms share, for every page and   *)
(* block size and every collection of files: arithmetic of pages, the      *)
(* algebra of mappingOffset_t, where files lie in the concatenation, and   *)
(* that copyChunk() writes the right bytes as long as operator ++ of the   *)
(* algorithm gives it chunks that fit their files (CopyStepKeeps).         *)
(***************************************************************************)
EXTENDS ChunkedCopy, SequenceFacts

-----------------------------------------------------------------------------
(* Arithmetic                                                              *)

(* Multiples of P are at least P apart.                                    *)
LEMMA MultiplesApart ==
  ASSUME NEW P \in Nat \ {0}, NEW k \in Int, NEW q \in Int, k > q
  PROVE  P * k \in Int /\ P * q \in Int /\ P * k >= P * q + P
<1>1. PICK d \in Nat : k = q + 1 + d
  <2>1. k - q - 1 \in Nat /\ k = q + 1 + (k - q - 1)
    OBVIOUS
  <2>2. QED
    BY <2>1
<1>2. P * k = P * q + P + P * d
  BY <1>1
<1>3. P * d >= 0 /\ P * q \in Int /\ P * d \in Int
  OBVIOUS
<1>4. QED
  BY <1>2, <1>3

(* Quotient and remainder.                                                 *)
LEMMA DivMod ==
  ASSUME NEW P \in Nat \ {0}, NEW a \in Int
  PROVE  \E q \in Int : \E s \in 0..P - 1 : a = P * q + s /\ s = a % P
<1> DEFINE q == a \div P
           s == a % P
<1>1. q \in Int /\ s \in 0..P - 1 /\ a = P * q + s
  OBVIOUS
<1>2. QED
  BY <1>1

(* The remainder is what is left of a number behind a multiple.            *)
LEMMA Remainder ==
  ASSUME NEW P \in Nat \ {0}, NEW k \in Int, NEW r \in 0..P - 1, NEW a, a = P * k + r
  PROVE  a % P = r
<1>1. a \in Int /\ P * k \in Int
  OBVIOUS
<1>2. PICK q \in Int : \E s \in 0..P - 1 : a = P * q + s /\ s = a % P
  BY <1>1, DivMod
<1>3. PICK s \in 0..P - 1 : P * k + r = P * q + s /\ s = a % P
  BY <1>2
<1>4. ~ (k > q)
  BY <1>1, <1>3, MultiplesApart
<1>5. ~ (k < q)
  BY <1>1, <1>3, MultiplesApart
<1>6. k = q
  BY <1>4, <1>5
<1>7. s = r
  BY <1>1, <1>3, <1>6
<1>8. QED
  BY <1>3, <1>7

(* A number without remainder is a multiple.                               *)
LEMMA Multiple ==
  ASSUME NEW P \in Nat \ {0}, NEW a \in Int, a % P = 0
  PROVE  \E q \in Int : a = P * q
<1>1. PICK q \in Int : a = P * q + 0
  BY DivMod
<1>2. P * q \in Int
  OBVIOUS
<1>3. QED
  BY <1>1, <1>2

(* One multiple behind another is a multiple.                              *)
LEMMA NextMultiple ==
  ASSUME NEW P \in Nat \ {0}, NEW a \in Int, NEW b \in Int, a % P = 0, b % P = 0
  PROVE  (a + b) % P = 0
<1>1. PICK i \in Int : a = P * i
  BY Multiple
<1>2. PICK j \in Int : b = P * j
  BY Multiple
<1> DEFINE k == i + j
<1>3. P * k = P * i + P * j /\ P * i \in Int /\ P * j \in Int /\ k \in Int
  OBVIOUS
<1> HIDE DEF k
<1>4. a + b = P * k + 0
  BY <1>1, <1>2, <1>3
<1>5. ASSUME NEW m, m = P * k + 0 PROVE m % P = 0
  BY <1>3, <1>5, Remainder
<1>6. QED
  BY <1>4, <1>5

(* Multiples of a multiple of P are multiples of P.                        *)
LEMMA MultipleOfMultiple ==
  ASSUME NEW P \in Nat \ {0}, NEW T \in Nat \ {0}, NEW a \in Int, T % P = 0, a % T = 0
  PROVE  a % P = 0
<1>1. PICK i \in Int : a = T * i
  BY Multiple
<1>2. PICK j \in Int : T = P * j
  BY Multiple
<1> DEFINE k == j * i
<1>3. P * k = (P * j) * i /\ P * k \in Int /\ k \in Int
  OBVIOUS
<1> HIDE DEF k
<1>4. a = P * k + 0
  BY <1>1, <1>2, <1>3
<1>5. QED
  BY <1>3, <1>4, Remainder

(* The multiple of T at or below a number.                                 *)
LEMMA BlockBelow ==
  ASSUME NEW T \in Nat \ {0}, NEW a \in Int, a % T = 0, NEW r \in 0..T - 1
  PROVE  (a + r) % T = r
<1>1. PICK i \in Int : a = T * i
  BY Multiple
<1>2. QED
  BY <1>1, Remainder

-----------------------------------------------------------------------------
(* mappingOffset_t                                                         *)

Offsets == {MappingOffset(p, l) : p \in Int, l \in Int}

(* The parts of a mappingOffset_t that was just made.                      *)
LEMMA OffsetParts ==
  ASSUME NEW p \in Int, NEW l \in Int
  PROVE  LET m == MappingOffset(p, l) IN
         /\ m \in Offsets
         /\ m.offset_ = p - (p % PageSize) /\ m.adjust_ = p % PageSize /\ m.length_ = l
         /\ p % PageSize \in 0..PageSize - 1
         /\ offset(m) = p /\ length(m) = l
<1>1. p % PageSize \in 0..PageSize - 1
  BY PageSizeAssumption
<1>2. LET m == MappingOffset(p, l) IN
         m.offset_ = p - (p % PageSize) /\ m.adjust_ = p % PageSize /\ m.length_ = l
  BY DEF MappingOffset
<1>3. MappingOffset(p, l) \in Offsets
  BY DEF Offsets
<1>4. QED
  BY <1>1, <1>2, <1>3 DEF offset, length

(* Every mappingOffset_t denotes a position and a length; += moves the     *)
(* position and length() sets the length, and neither disturbs the other,  *)
(* although what is stored is rounded down to a page.                      *)
THEOREM OffsetAlgebra ==
  ASSUME NEW m \in Offsets, NEW a \in Int
  PROVE  /\ offset(m) \in Int /\ length(m) \in Int
         /\ m = MappingOffset(offset(m), length(m))
         /\ Plus(m, a) \in Offsets
         /\ offset(Plus(m, a)) = offset(m) + a /\ length(Plus(m, a)) = length(m)
         /\ WithLength(m, a) \in Offsets
         /\ offset(WithLength(m, a)) = offset(m) /\ length(WithLength(m, a)) = a
         /\ adjustment(m) \in 0..PageSize - 1
         /\ offset(m) % PageSize = 0 => adjustment(m) = 0
         /\ adjustedOffset(m) = offset(m) - adjustment(m)
         /\ adjustedLength(m) = length(m) + adjustment(m)
<1>1. PICK p \in Int, l \in Int : m = MappingOffset(p, l)
  BY DEF Offsets
<1>2. /\ m.offset_ = p - (p % PageSize) /\ m.adjust_ = p % PageSize /\ m.length_ = l
      /\ p % PageSize \in 0..PageSize - 1
      /\ offset(m) = p /\ length(m) = l
  BY <1>1, OffsetParts
<1>3. Plus(m, a) = MappingOffset(p + a, l)
  <2>1. m.offset_ + a + m.adjust_ = p + a
    BY <1>2
  <2>2. QED
    BY <2>1, <1>2 DEF Plus
<1>4. WithLength(m, a) = MappingOffset(p, a)
  BY <1>1 DEF WithLength, MappingOffset
<1>5. /\ offset(Plus(m, a)) = p + a /\ length(Plus(m, a)) = l /\ Plus(m, a) \in Offsets
  BY <1>3, OffsetParts
<1>6. /\ offset(WithLength(m, a)) = p /\ length(WithLength(m, a)) = a /\ WithLength(m, a) \in Offsets
  BY <1>4, OffsetParts
<1>7. /\ adjustment(m) \in 0..PageSize - 1
      /\ offset(m) % PageSize = 0 => adjustment(m) = 0
      /\ adjustedOffset(m) = offset(m) - adjustment(m)
      /\ adjustedLength(m) = length(m) + adjustment(m)
  BY <1>2 DEF adjustment, adjustedOffset, adjustedLength
<1>8. QED
  BY <1>1, <1>2, <1>5, <1>6, <1>7

(* mappingOffset_t{}                                                       *)
LEMMA NoOffsetParts == NoOffset \in Offsets /\ offset(NoOffset) = 0 /\ length(NoOffset) = 0
BY OffsetParts DEF NoOffset

-----------------------------------------------------------------------------
(* The files in the concatenation                                          *)

count == Len(files.length)

(* Minimum() is one of its arguments and at most the other.                *)
LEMMA MinimumOf ==
  ASSUME NEW a \in Int, NEW b \in Int
  PROVE  /\ Minimum(a, b) \in Int /\ Minimum(a, b) <= a /\ Minimum(a, b) <= b
         /\ Minimum(a, b) = a \/ Minimum(a, b) = b
BY DEF Minimum

(* Where each file starts.                                                 *)
LEMMA Layout ==
  ASSUME files \in FileSets
  PROVE  /\ count \in Nat /\ End = count + 1
         /\ \A f \in 1..count : /\ files.length[f] \in Nat \ {0}
                                /\ FileLength(f) = files.length[f]
                                /\ files.start[f + 1] = files.start[f] + files.length[f]
         /\ FileLength(End) = 0
         /\ \A f \in 1..End : files.start[f] \in Nat
         /\ files.start[1] = 0
         /\ outputLength = files.start[End] /\ outputLength \in Nat
<1>1. WellFormed(files)
  BY CopyAssumption
<1>2. count \in Nat /\ End = count + 1
  BY <1>1, LenProperties DEF WellFormed, count, End
<1>3. QED
  BY <1>1, <1>2 DEF WellFormed, count, End, FileLength, outputLength

(* The files do not overlap: each ends where a later one starts, or before. *)
LEMMA FilesInOrder ==
  ASSUME files \in FileSets, NEW f \in 1..count, NEW g \in f + 1..End
  PROVE  files.start[f] + files.length[f] <= files.start[g]
<1> DEFINE T == {h \in f + 1..End : files.start[h] < files.start[f] + files.length[f]}
<1>1. /\ count \in Nat /\ End = count + 1
      /\ files.start[f] \in Nat /\ files.length[f] \in Nat
      /\ files.start[f + 1] = files.start[f] + files.length[f]
  BY Layout
<1>2. SUFFICES ASSUME T # {} PROVE FALSE
  <2>1. files.start[g] \in Nat
    BY <1>1, Layout
  <2>2. QED
    BY <1>1, <2>1
<1>3. T \subseteq Nat
  BY <1>1
<1>4. PICK h \in T : \A x \in T : h <= x
  BY <1>2, <1>3, LeastElement
<1>5. h \in f + 1..End /\ files.start[h] < files.start[f] + files.length[f] /\ h # f + 1
  BY <1>1, <1>4
<1>6. h - 1 \in f + 1..End /\ h - 1 \in 1..count /\ ~(h <= h - 1)
  BY <1>1, <1>5
<1>7. /\ files.start[h - 1] \in Nat /\ files.length[h - 1] \in Nat
      /\ files.start[h - 1 + 1] = files.start[h - 1] + files.length[h - 1]
      /\ h - 1 + 1 = h
  BY <1>1, <1>6, Layout
<1>8. h - 1 \in T
  BY <1>1, <1>5, <1>6, <1>7
<1>9. QED
  BY <1>4, <1>6, <1>8

-----------------------------------------------------------------------------
(* copyChunk()                                                             *)

Chunks == [file : Nat, inputLength : Int, inputOffset : Offsets, outputOffset : Offsets]

Tasks == [chunk : Chunks, phase : {"map", "copy"}, base : Int, size : Int, offset : Int,
          outputLength : Int]

\* Where a chunk is in the output, and what is left of it.
Pos(c) == offset(c.outputOffset)
Rest(c) == length(c.outputOffset)

\* The output range of a chunk is part of the file.
InOutput(c) == c \in Chunks /\ 0 <= Pos(c) /\ 0 <= Rest(c) /\ Pos(c) + Rest(c) <= outputLength

\* The next block of a chunk lies in one file, under the place in the output
\* where it belongs, and is no longer than what is left of the chunk.
Fits(c) ==
    Rest(c) > 0 =>
        /\ c.file \in 1..count
        /\ offset(c.inputOffset) >= 0
        /\ Pos(c) = files.start[c.file] + offset(c.inputOffset)
        /\ 0 < length(c.inputOffset) /\ length(c.inputOffset) <= Rest(c)
        /\ offset(c.inputOffset) + length(c.inputOffset) <= files.length[c.file]

\* A task's mapping ends where its chunk ends, and the place copyChunk() has
\* reached in it is the chunk's position.
TaskOK(t) ==
    /\ t \in Tasks
    /\ InOutput(t.chunk)
    /\ Fits(t.chunk)
    /\ t.phase = "map" /\ Rest(t.chunk) > 0 =>
           /\ Pos(t.chunk) % PageSize = 0
           /\ t.outputLength = Rest(t.chunk)
    /\ t.phase = "copy" =>
           /\ t.offset >= 0
           /\ t.base + t.offset = Pos(t.chunk)
           /\ t.base + t.size = Pos(t.chunk) + Rest(t.chunk)
           /\ Rest(t.chunk) > 0 => t.offset + Rest(t.chunk) = t.outputLength

\* Every task is behind the place limit of the output.
Behind(limit) == \A t \in tasks : Pos(t.chunk) + Rest(t.chunk) <= limit

OutputOK == output \in [0..outputLength - 1 -> Int] /\ NoWrongByte

CopyInv == OutputOK /\ TasksDisjoint /\ \A t \in tasks : TaskOK(t)

\* A byte of the output has been written or is going to be.
Done(o) == \/ output[o] = o
           \/ \E t \in tasks : Pos(t.chunk) <= o /\ o < Pos(t.chunk) + Rest(t.chunk)

\* Every byte before limit is, unless a failure is or will be reported.
Covered(limit) == failed \/ status = "error" \/ \A o \in 0..outputLength - 1 : o < limit => Done(o)

\* What operator ++ has to make of a chunk.
Follows(next, c) ==
    /\ InOutput(next) /\ Fits(next)
    /\ Pos(next) = Pos(c) + length(c.inputOffset)
    /\ Rest(next) = Rest(c) - length(c.inputOffset)

(* The parts of a chunk are integers.                                      *)
LEMMA ChunkParts ==
  ASSUME NEW c \in Chunks
  PROVE  /\ c.file \in Nat /\ c.inputLength \in Int
         /\ c.inputOffset \in Offsets /\ c.outputOffset \in Offsets
         /\ offset(c.inputOffset) \in Int /\ length(c.inputOffset) \in Int
         /\ Pos(c) \in Int /\ Rest(c) \in Int
BY OffsetAlgebra DEF Chunks, Pos, Rest

(* A chunk put together from its parts.                                    *)
LEMMA ChunkMade ==
  ASSUME NEW file \in Nat, NEW len \in Int, NEW in \in Offsets, NEW out \in Offsets
  PROVE  LET c == ChunkState(file, len, in, out) IN
         /\ c \in Chunks
         /\ c.file = file /\ c.inputLength = len /\ c.inputOffset = in /\ c.outputOffset = out
         /\ Pos(c) = offset(out) /\ Rest(c) = length(out)
BY DEF ChunkState, Chunks, Pos, Rest

(* The definitions of CopyChunk in terms of a task's chunk.                *)
LEMMA TaskParts ==
  ASSUME NEW t, TaskOK(t)
  PROVE  /\ t.chunk \in Chunks /\ Pos(t.chunk) \in Int /\ Rest(t.chunk) \in Int
         /\ t.base \in Int /\ t.size \in Int /\ t.offset \in Int /\ t.outputLength \in Int
         /\ t.phase \in {"map", "copy"}
         /\ Position(t) = Pos(t.chunk) /\ Left(t) = Rest(t.chunk)
         /\ atEnd(t.chunk) <=> Rest(t.chunk) = 0
         /\ ~atEnd(t.chunk) => Rest(t.chunk) > 0
<1>1. t \in Tasks /\ 0 <= Rest(t.chunk)
  BY DEF TaskOK, InOutput
<1>2. /\ t.chunk \in Chunks
      /\ t.base \in Int /\ t.size \in Int /\ t.offset \in Int /\ t.outputLength \in Int
      /\ t.phase \in {"map", "copy"}
  BY <1>1 DEF Tasks
<1>3. Pos(t.chunk) \in Int /\ Rest(t.chunk) \in Int
  BY <1>2, ChunkParts
<1>4. QED
  BY <1>1, <1>2, <1>3 DEF Position, Left, Pos, Rest, atEnd

(* A mapped task put together from its parts.                              *)
LEMMA TaskMade ==
  ASSUME NEW t \in Tasks, NEW c \in Chunks, NEW base \in Int, NEW size \in Int, NEW o \in Int
  PROVE  LET u == Mapped(t, c, base, size, o) IN
         /\ u \in Tasks /\ u.chunk = c /\ u.phase = "copy"
         /\ u.base = base /\ u.size = size /\ u.offset = o /\ u.outputLength = t.outputLength
BY DEF Mapped, Tasks

(* A task that has read the end of its chunk's file or left its mapping    *)
(* would be ended by a signal; one whose chunk fits does neither.          *)
LEMMA BlockIsSafe ==
  ASSUME files \in FileSets, NEW t, TaskOK(t), t.phase = "copy", ~atEnd(t.chunk)
  PROVE  LET in == t.chunk.inputOffset
             len == length(in)
         IN  /\ ~(len <= 0 \/ t.offset >= t.size)
             /\ ~Faults(t.chunk.file, offset(in) + len - 1)
             /\ ~(t.offset + len > PagesOf(t.size))
             /\ t.offset + len <= t.size
<1> DEFINE in == t.chunk.inputOffset
           len == length(in)
<1>1. /\ t.chunk \in Chunks /\ Pos(t.chunk) \in Int /\ Rest(t.chunk) \in Int /\ Rest(t.chunk) > 0
      /\ t.base \in Int /\ t.size \in Int /\ t.offset \in Int
  BY TaskParts
<1>2. offset(in) \in Int /\ len \in Int
  BY <1>1, ChunkParts
<1>3. /\ t.chunk.file \in 1..count
      /\ 0 < len /\ len <= Rest(t.chunk)
      /\ offset(in) + len <= files.length[t.chunk.file]
      /\ t.base + t.offset = Pos(t.chunk)
      /\ t.base + t.size = Pos(t.chunk) + Rest(t.chunk)
  BY <1>1 DEF TaskOK, Fits
<1>4. FileLength(t.chunk.file) = files.length[t.chunk.file] /\ FileLength(t.chunk.file) \in Nat
  BY <1>3, Layout
<1> HIDE DEF len, in
<1>5. ASSUME NEW n \in Int PROVE PagesOf(n) \in Int /\ PagesOf(n) >= n
  <2>1. n % PageSize \in 0..PageSize - 1
    BY PageSizeAssumption
  <2>2. PageSize - (n % PageSize) \in Int
    BY <2>1, PageSizeAssumption
  <2>3. (PageSize - (n % PageSize)) % PageSize \in 0..PageSize - 1
    BY <2>2, PageSizeAssumption
  <2>4. QED
    BY <2>3, PageSizeAssumption DEF PagesOf
<1>6. ~(len <= 0 \/ t.offset >= t.size) /\ t.offset + len <= t.size
  BY <1>1, <1>2, <1>3
<1>7. ~Faults(t.chunk.file, offset(in) + len - 1)
  <2>1. PagesOf(FileLength(t.chunk.file)) \in Int
        /\ PagesOf(FileLength(t.chunk.file)) >= FileLength(t.chunk.file)
    BY <1>4, <1>5
  <2>2. QED
    BY <2>1, <1>2, <1>3, <1>4 DEF Faults
<1>8. ~(t.offset + len > PagesOf(t.size))
  <2>1. PagesOf(t.size) \in Int /\ PagesOf(t.size) >= t.size
    BY <1>1, <1>5
  <2>2. QED
    BY <2>1, <1>1, <1>2, <1>6
<1>9. QED
  BY <1>6, <1>7, <1>8 DEF len, in

(* What is said of a chunk or a task depends on the files and on it alone. *)
LEMMA FilesKept ==
  ASSUME files' = files, NEW c, NEW t
  PROVE  /\ InOutput(c)' <=> InOutput(c)
         /\ Fits(c)' <=> Fits(c)
         /\ TaskOK(t)' <=> TaskOK(t)
         /\ count' = count /\ outputLength' = outputLength /\ End' = End
<1>1. outputLength' = outputLength /\ count' = count /\ End' = End
  BY DEF outputLength, count, End
<1>2. InOutput(c)' <=> InOutput(c)
  BY <1>1 DEF InOutput
<1>3. Fits(c)' <=> Fits(c)
  BY <1>1 DEF Fits
<1>4. InOutput(t.chunk)' <=> InOutput(t.chunk)
  BY <1>1 DEF InOutput
<1>5. Fits(t.chunk)' <=> Fits(t.chunk)
  BY <1>1 DEF Fits
<1>6. QED
  BY <1>1, <1>2, <1>3, <1>4, <1>5 DEF TaskOK

(* mmap() of the output range: the task is mapped, or there was nothing to map. *)
LEMMA MapOutputDoes ==
  ASSUME files \in FileSets, NEW t, TaskOK(t), MapOutput(t)
  PROVE  /\ UNCHANGED <<files, output, killed>>
         /\ \/ tasks' = tasks \ {t} /\ failed'
            \/ /\ failed' = failed
               /\ \E u : /\ tasks' = (tasks \ {t}) \cup {u}
                         /\ TaskOK(u) /\ u.chunk = t.chunk
<1> DEFINE out == t.chunk.outputOffset
           u == Mapped(t, t.chunk, adjustedOffset(out), adjustedLength(out), adjustment(out))
<1>1. UNCHANGED <<files, output, killed>> /\ t.phase = "map"
  BY DEF MapOutput
<1>2. CASE adjustedLength(out) = 0
  <2>1. Return(t, 22)
    BY <1>2 DEF MapOutput
  <2>2. tasks' = tasks \ {t} /\ failed' = (failed \/ 22 # 0)
    BY <2>1, Zenon DEF Return
  <2>3. failed'
    <3>1. 22 # 0
      OBVIOUS
    <3>2. QED
      BY <2>2, <3>1, Zenon
  <2>4. QED
    BY <1>1, <2>2, <2>3
<1>3. CASE adjustedLength(out) # 0
  <2>1. tasks' = (tasks \ {t}) \cup {u} /\ failed' = failed
    BY <1>3 DEF MapOutput
  <2>2. /\ t \in Tasks /\ t.chunk \in Chunks /\ out \in Offsets
        /\ Pos(t.chunk) \in Int /\ Rest(t.chunk) \in Int
        /\ InOutput(t.chunk) /\ Fits(t.chunk)
    BY ChunkParts, TaskParts DEF TaskOK
  <2>3. /\ adjustment(out) \in 0..PageSize - 1
        /\ Pos(t.chunk) % PageSize = 0 => adjustment(out) = 0
        /\ adjustedOffset(out) = Pos(t.chunk) - adjustment(out)
        /\ adjustedLength(out) = Rest(t.chunk) + adjustment(out)
    BY <2>2, OffsetAlgebra DEF Pos, Rest
  <2>4. adjustment(out) \in Int /\ adjustedOffset(out) \in Int /\ adjustedLength(out) \in Int
    BY <2>2, <2>3, PageSizeAssumption
  <2>5. /\ u \in Tasks /\ u.chunk = t.chunk /\ u.phase = "copy"
        /\ u.base = adjustedOffset(out) /\ u.size = adjustedLength(out)
        /\ u.offset = adjustment(out) /\ u.outputLength = t.outputLength
    BY <2>2, <2>4, TaskMade
  <2> HIDE DEF u, out
  <2>6. Rest(t.chunk) > 0 => Pos(t.chunk) % PageSize = 0 /\ t.outputLength = Rest(t.chunk)
    BY <1>1 DEF TaskOK
  <2>7. TaskOK(u)
    BY <2>2, <2>3, <2>4, <2>5, <2>6, PageSizeAssumption DEF TaskOK
  <2>8. QED
    BY <1>1, <2>1, <2>5, <2>7
<1>4. QED
  BY <1>2, <1>3

(* copyTo() of a block that fits writes the bytes that belong there, all   *)
(* of them and no others.                                                  *)
LEMMA CopiedRight ==
  ASSUME files \in FileSets, OutputOK, NEW c \in Chunks, Rest(c) > 0, InOutput(c), Fits(c)
  PROVE  LET in  == c.inputOffset
             new == Copied(c.file, offset(in), Pos(c), length(in))
         IN  /\ new \in [0..outputLength - 1 -> Int]
             /\ \A o \in 0..outputLength - 1 :
                   new[o] = IF Pos(c) <= o /\ o < Pos(c) + length(in) THEN o ELSE output[o]
<1> DEFINE in  == c.inputOffset
           new == Copied(c.file, offset(in), Pos(c), length(in))
<1>1. /\ offset(in) \in Int /\ length(in) \in Int /\ Pos(c) \in Int /\ Rest(c) \in Int
  BY ChunkParts
<1>2. /\ c.file \in 1..count
      /\ offset(in) >= 0
      /\ Pos(c) = files.start[c.file] + offset(in)
      /\ offset(in) + length(in) <= files.length[c.file]
  BY DEF Fits
<1>3. /\ FileLength(c.file) = files.length[c.file] /\ FileLength(c.file) \in Nat
      /\ files.start[c.file] \in Nat
  BY <1>2, Layout
<1>4. DOMAIN output = 0..outputLength - 1 /\ outputLength \in Nat
  BY Layout DEF OutputOK
<1> HIDE DEF in
<1>5. new = [o \in 0..outputLength - 1 |->
               IF Pos(c) <= o /\ o < Pos(c) + length(in)
               THEN ByteAt(c.file, offset(in) + (o - Pos(c))) ELSE output[o]]
  BY <1>4 DEF Copied
<1>6. ASSUME NEW o \in 0..outputLength - 1, Pos(c) <= o, o < Pos(c) + length(in)
      PROVE  ByteAt(c.file, offset(in) + (o - Pos(c))) = o
  <2> DEFINE a == offset(in)
             n == length(in)
             b == files.start[c.file]
             l == FileLength(c.file)
             q == Pos(c)
  <2>1. /\ a \in Int /\ n \in Int /\ b \in Int /\ l \in Int /\ q \in Int /\ o \in Int
        /\ q = b + a /\ a + n <= l /\ q <= o /\ o < q + n
    BY <1>1, <1>2, <1>3, <1>4, <1>6
  <2>2. ByteAt(c.file, a + (o - q)) = IF a + (o - q) < l THEN b + (a + (o - q)) ELSE Filler
    BY DEF ByteAt
  <2> HIDE DEF a, n, b, l, q
  <2>3. a + (o - q) < l /\ b + (a + (o - q)) = o
    BY <2>1
  <2>4. ByteAt(c.file, a + (o - q)) = o
    BY <2>2, <2>3
  <2>5. QED
    BY <2>4 DEF a, q
<1> HIDE DEF new
<1>7. \A o \in 0..outputLength - 1 :
          new[o] = IF Pos(c) <= o /\ o < Pos(c) + length(in) THEN o ELSE output[o]
  BY <1>5, <1>6
<1>8. new \in [0..outputLength - 1 -> Int]
  <2>1. \A o \in 0..outputLength - 1 : new[o] \in Int
    BY <1>4, <1>7 DEF OutputOK
  <2>2. QED
    BY <2>1, <1>5
<1>9. QED
  BY <1>7, <1>8 DEF new, in

(* The tasks in order, in terms of their chunks.                           *)
LEMMA DisjointChunks ==
  ASSUME \A t \in tasks : TaskOK(t)
  PROVE  TasksDisjoint <=> \A r, t \in tasks : r # t =>
             \/ Pos(r.chunk) + Rest(r.chunk) <= Pos(t.chunk)
             \/ Pos(t.chunk) + Rest(t.chunk) <= Pos(r.chunk)
BY DEF TasksDisjoint, Position, Left, Pos, Rest

(* A task that has moved on keeps clear of the others, which stay where    *)
(* they are.                                                               *)
LEMMA TaskMoved ==
  ASSUME files \in FileSets, CopyInv, files' = files,
         NEW t \in tasks, NEW u, TaskOK(u),
         Pos(t.chunk) <= Pos(u.chunk),
         Pos(u.chunk) + Rest(u.chunk) = Pos(t.chunk) + Rest(t.chunk),
         tasks' = (tasks \ {t}) \cup {u}
  PROVE  /\ TasksDisjoint'
         /\ \A r \in tasks' : TaskOK(r)'
         /\ \A limit \in Int : Behind(limit) => Behind(limit)'
<1>1. \A r \in tasks' : TaskOK(r)
  BY DEF CopyInv
<1>2. \A r \in tasks' : TaskOK(r)'
  BY <1>1, FilesKept
<1>3. \A r \in tasks \cup tasks' : Pos(r.chunk) \in Int /\ Rest(r.chunk) \in Int
                                   /\ Rest(r.chunk) >= 0
  BY <1>1, TaskParts DEF CopyInv, TaskOK, InOutput
<1>4. \A r, x \in tasks : r # x =>
             \/ Pos(r.chunk) + Rest(r.chunk) <= Pos(x.chunk)
             \/ Pos(x.chunk) + Rest(x.chunk) <= Pos(r.chunk)
  BY DisjointChunks DEF CopyInv
<1>5. ASSUME NEW r \in tasks', NEW x \in tasks', r # x
      PROVE  \/ Pos(r.chunk) + Rest(r.chunk) <= Pos(x.chunk)
             \/ Pos(x.chunk) + Rest(x.chunk) <= Pos(r.chunk)
  <2>1. u \in tasks'
    OBVIOUS
  <2>2. CASE r # u /\ x # u
    BY <1>4, <1>5, <2>2
  <2>3. CASE r = u
    <3>1. x \in tasks /\ x # t
      BY <1>5, <2>3
    <3>2. \/ Pos(t.chunk) + Rest(t.chunk) <= Pos(x.chunk)
          \/ Pos(x.chunk) + Rest(x.chunk) <= Pos(t.chunk)
      BY <1>4, <3>1
    <3>3. QED
      BY <1>3, <2>1, <2>3, <3>1, <3>2
  <2>4. CASE x = u
    <3>1. r \in tasks /\ r # t
      BY <1>5, <2>4
    <3>2. \/ Pos(t.chunk) + Rest(t.chunk) <= Pos(r.chunk)
          \/ Pos(r.chunk) + Rest(r.chunk) <= Pos(t.chunk)
      BY <1>4, <3>1
    <3>3. QED
      BY <1>3, <2>1, <2>4, <3>1, <3>2
  <2>5. QED
    BY <2>2, <2>3, <2>4
<1>6. TasksDisjoint'
  BY <1>5 DEF TasksDisjoint, Position, Left, Pos, Rest
<1>7. ASSUME NEW limit \in Int, Behind(limit) PROVE Behind(limit)'
  BY <1>3, <1>7 DEF Behind
<1>8. QED
  BY <1>2, <1>6, <1>7

(* Nor does a task that returns disturb the others.                        *)
LEMMA TaskReturned ==
  ASSUME CopyInv, files' = files, NEW t, tasks' = tasks \ {t}
  PROVE  /\ TasksDisjoint'
         /\ \A r \in tasks' : TaskOK(r)'
         /\ \A limit \in Int : Behind(limit) => Behind(limit)'
<1>1. \A r \in tasks' : TaskOK(r)'
  BY FilesKept DEF CopyInv
<1>2. TasksDisjoint'
  BY DEF CopyInv, TasksDisjoint
<1>3. ASSUME NEW limit \in Int, Behind(limit) PROVE Behind(limit)'
  BY <1>3 DEF Behind
<1>4. QED
  BY <1>1, <1>2, <1>3

(* memcpy() of a block: the task writes what belongs there and moves on.   *)
LEMMA CopyBlockDoes ==
  ASSUME files \in FileSets, OutputOK, NEW t, TaskOK(t), NEW next,
         ~atEnd(t.chunk) => Follows(next, t.chunk),
         CopyBlock(t, next)
  PROVE  /\ UNCHANGED <<files, failed, killed>>
         /\ ~atEnd(t.chunk) /\ length(t.chunk.inputOffset) > 0
         /\ output' \in [0..outputLength - 1 -> Int]
         /\ \A o \in 0..outputLength - 1 :
               output'[o] = IF /\ Pos(t.chunk) <= o
                               /\ o < Pos(t.chunk) + length(t.chunk.inputOffset)
                            THEN o ELSE output[o]
         /\ \E u : /\ tasks' = (tasks \ {t}) \cup {u}
                   /\ TaskOK(u) /\ u.chunk = next
<1> DEFINE in  == t.chunk.inputOffset
           len == length(in)
           u   == Mapped(t, next, t.base, t.size, t.offset + len)
<1>1. t.phase = "copy" /\ ~atEnd(t.chunk) /\ Follows(next, t.chunk)
  BY DEF CopyBlock
<1>2. /\ ~(len <= 0 \/ t.offset >= t.size)
      /\ ~(\/ Faults(t.chunk.file, offset(in) + len - 1)
           \/ t.offset + len > PagesOf(t.size))
  BY <1>1, BlockIsSafe
<1>3. /\ output' = Copied(t.chunk.file, offset(in), Destination(t), len)
      /\ tasks' = (tasks \ {t}) \cup {u}
      /\ UNCHANGED <<files, failed, killed>>
  BY <1>2 DEF CopyBlock
<1>4. /\ t \in Tasks /\ t.chunk \in Chunks /\ Pos(t.chunk) \in Int /\ Rest(t.chunk) \in Int
      /\ Rest(t.chunk) > 0
      /\ t.base \in Int /\ t.size \in Int /\ t.offset \in Int /\ t.outputLength \in Int
  BY <1>1, TaskParts DEF TaskOK
<1>5. len \in Int
  BY <1>4, ChunkParts
<1>6. /\ InOutput(t.chunk) /\ Fits(t.chunk)
      /\ 0 < len /\ len <= Rest(t.chunk)
      /\ t.offset >= 0
      /\ t.base + t.offset = Pos(t.chunk)
      /\ t.base + t.size = Pos(t.chunk) + Rest(t.chunk)
      /\ t.offset + Rest(t.chunk) = t.outputLength
  BY <1>1, <1>4 DEF TaskOK, Fits
<1>7. Destination(t) = Pos(t.chunk)
  BY <1>6 DEF Destination
<1>8. /\ output' \in [0..outputLength - 1 -> Int]
      /\ \A o \in 0..outputLength - 1 :
            output'[o] = IF Pos(t.chunk) <= o /\ o < Pos(t.chunk) + len THEN o ELSE output[o]
  BY <1>3, <1>4, <1>6, <1>7, CopiedRight
<1>9. /\ InOutput(next) /\ Fits(next) /\ next \in Chunks
      /\ Pos(next) = Pos(t.chunk) + len /\ Rest(next) = Rest(t.chunk) - len
  BY <1>1 DEF Follows, InOutput
<1>10. /\ u \in Tasks /\ u.chunk = next /\ u.phase = "copy"
       /\ u.base = t.base /\ u.size = t.size /\ u.offset = t.offset + len
       /\ u.outputLength = t.outputLength
  <2>1. t.offset + len \in Int
    BY <1>4, <1>5
  <2>2. QED
    BY <2>1, <1>4, <1>9, TaskMade
<1> HIDE DEF u, len
<1>11. TaskOK(u)
  BY <1>4, <1>5, <1>6, <1>9, <1>10 DEF TaskOK
<1>12. QED
  BY <1>1, <1>3, <1>6, <1>8, <1>10, <1>11 DEF len

(* The tasks behind a limit and the bytes before it, when a task moves on  *)
(* and everything it had to write is in the output or still ahead of it.   *)
LEMMA CoverageMoves ==
  ASSUME files \in FileSets, CopyInv, files' = files, status' = status, failed' = failed,
         NEW t \in tasks, NEW u, TaskOK(u), tasks' = (tasks \ {t}) \cup {u},
         Pos(u.chunk) + Rest(u.chunk) = Pos(t.chunk) + Rest(t.chunk),
         \A o \in 0..outputLength - 1 :
             /\ output[o] = o => output'[o] = o
             /\ Pos(t.chunk) <= o /\ o < Pos(u.chunk) => output'[o] = o
  PROVE  \A limit \in Int : Covered(limit) => Covered(limit)'
<1> SUFFICES ASSUME NEW limit \in Int, Covered(limit), ~failed, status # "error",
                    NEW o \in 0..outputLength - 1, o < limit
             PROVE  Done(o)'
  BY FilesKept DEF Covered
<1>1. Done(o)
  BY DEF Covered
<1>2. TaskOK(t) /\ TaskOK(u)
  BY DEF CopyInv
<1>3. /\ Pos(t.chunk) \in Int /\ Rest(t.chunk) \in Int
      /\ Pos(u.chunk) \in Int /\ Rest(u.chunk) \in Int
  BY <1>2, TaskParts
<1>4. o \in Int
  BY Layout
<1>5. CASE output[o] = o
  BY <1>5 DEF Done
<1>6. CASE \E r \in tasks : Pos(r.chunk) <= o /\ o < Pos(r.chunk) + Rest(r.chunk)
  <2>1. PICK r \in tasks : Pos(r.chunk) <= o /\ o < Pos(r.chunk) + Rest(r.chunk)
    BY <1>6
  <2>2. CASE r # t
    BY <2>1, <2>2 DEF Done
  <2>3. CASE r = t /\ o < Pos(u.chunk)
    BY <2>1, <2>3 DEF Done
  <2>4. CASE r = t /\ ~(o < Pos(u.chunk))
    <3>1. Pos(u.chunk) <= o /\ o < Pos(u.chunk) + Rest(u.chunk)
      BY <1>3, <1>4, <2>1, <2>4
    <3>2. QED
      BY <3>1 DEF Done
  <2>5. QED
    BY <2>2, <2>3, <2>4
<1>7. QED
  BY <1>1, <1>5, <1>6 DEF Done

(* No step of a worker spoils the output, a range or a limit, nor is any   *)
(* ended by a signal, if operator ++ follows its chunk with one that fits. *)
LEMMA CopyStepKeeps ==
  ASSUME files \in FileSets, CopyInv, status' = status,
         NEW t \in tasks, NEW next,
         ~atEnd(t.chunk) => Follows(next, t.chunk),
         CopyStep(t, next)
  PROVE  /\ files' = files /\ killed' = killed
         /\ CopyInv'
         /\ \A limit \in Int : /\ Behind(limit) => Behind(limit)'
                               /\ Covered(limit) => Covered(limit)'
         /\ \A u \in tasks' : \/ u \in tasks
                              \/ u.chunk = t.chunk
                              \/ ~atEnd(t.chunk) /\ u.chunk = next
<1>1. TaskOK(t) /\ Pos(t.chunk) \in Int /\ Rest(t.chunk) \in Int
  BY TaskParts DEF CopyInv
<1>2. OutputOK /\ outputLength \in Nat
  BY Layout DEF CopyInv
<1>3. ASSUME files' = files, output' = output PROVE OutputOK'
  BY <1>2, <1>3, FilesKept DEF OutputOK, NoWrongByte
<1>4. ASSUME files' = files, failed' PROVE \A limit \in Int : Covered(limit)'
  BY <1>4 DEF Covered
<1>5. CASE MapOutput(t)
  <2>1. UNCHANGED <<files, output, killed>>
    BY <1>1, <1>5, MapOutputDoes
  <2>2. CASE tasks' = tasks \ {t} /\ failed'
    BY <1>3, <1>4, <2>1, <2>2, TaskReturned DEF CopyInv
  <2>3. ASSUME NEW u, tasks' = (tasks \ {t}) \cup {u}, TaskOK(u), u.chunk = t.chunk,
               failed' = failed
        PROVE  /\ TasksDisjoint' /\ \A r \in tasks' : TaskOK(r)'
               /\ \A limit \in Int : /\ Behind(limit) => Behind(limit)'
                                     /\ Covered(limit) => Covered(limit)'
    <3>1. Pos(t.chunk) <= Pos(u.chunk)
          /\ Pos(u.chunk) + Rest(u.chunk) = Pos(t.chunk) + Rest(t.chunk)
      BY <1>1, <2>3
    <3>2. \A o \in 0..outputLength - 1 : ~(Pos(t.chunk) <= o /\ o < Pos(u.chunk))
      BY <1>1, <1>2, <2>3
    <3>3. \A limit \in Int : Covered(limit) => Covered(limit)'
      BY <2>1, <2>3, <3>1, <3>2, CoverageMoves
    <3>4. QED
      BY <2>1, <2>3, <3>1, <3>3, TaskMoved
  <2>4. \/ tasks' = tasks \ {t} /\ failed'
        \/ /\ failed' = failed
           /\ \E u : /\ tasks' = (tasks \ {t}) \cup {u}
                     /\ TaskOK(u) /\ u.chunk = t.chunk
    BY <1>1, <1>5, MapOutputDoes
  <2>5. QED
    BY <1>3, <2>1, <2>2, <2>3, <2>4 DEF CopyInv
<1>6. CASE CopyBlock(t, next)
  <2> DEFINE len == length(t.chunk.inputOffset)
  <2>1. /\ UNCHANGED <<files, failed, killed>>
        /\ ~atEnd(t.chunk) /\ len > 0
        /\ output' \in [0..outputLength - 1 -> Int]
        /\ \A o \in 0..outputLength - 1 :
              output'[o] = IF Pos(t.chunk) <= o /\ o < Pos(t.chunk) + len THEN o ELSE output[o]
        /\ \E u : /\ tasks' = (tasks \ {t}) \cup {u}
                  /\ TaskOK(u) /\ u.chunk = next
    BY <1>1, <1>2, <1>6, CopyBlockDoes
  <2>2. PICK u : tasks' = (tasks \ {t}) \cup {u} /\ TaskOK(u) /\ u.chunk = next
    BY <2>1
  <2>3. len \in Int
    BY <1>1, ChunkParts, TaskParts
  <2>4. Pos(next) = Pos(t.chunk) + len /\ Rest(next) = Rest(t.chunk) - len
    BY <2>1 DEF Follows
  <2> HIDE DEF len
  <2>5. Pos(t.chunk) <= Pos(u.chunk)
        /\ Pos(u.chunk) + Rest(u.chunk) = Pos(t.chunk) + Rest(t.chunk)
    BY <1>1, <2>1, <2>2, <2>3, <2>4
  <2>6. OutputOK'
    <3>1. DOMAIN output = 0..outputLength - 1 /\ DOMAIN output' = 0..outputLength - 1
      BY <1>2, <2>1 DEF OutputOK
    <3>2. \A o \in 0..outputLength - 1 : output'[o] \in {Unwritten, o}
      BY <1>2, <2>1, <3>1 DEF OutputOK, NoWrongByte
    <3>3. NoWrongByte'
      BY <3>1, <3>2 DEF NoWrongByte, Unwritten
    <3>4. QED
      BY <2>1, <3>3, FilesKept DEF OutputOK
  <2>7. \A limit \in Int : Covered(limit) => Covered(limit)'
    <3>1. \A o \in 0..outputLength - 1 :
             /\ output[o] = o => output'[o] = o
             /\ Pos(t.chunk) <= o /\ o < Pos(u.chunk) => output'[o] = o
      BY <2>1, <2>2, <2>4
    <3>2. QED
      BY <2>1, <2>2, <2>5, <3>1, CoverageMoves
  <2>8. /\ TasksDisjoint' /\ \A r \in tasks' : TaskOK(r)'
        /\ \A limit \in Int : Behind(limit) => Behind(limit)'
    BY <2>1, <2>2, <2>5, TaskMoved
  <2>9. QED
    BY <2>1, <2>2, <2>6, <2>7, <2>8 DEF CopyInv
<1>7. CASE Synchronise(t)
  <2>1. UNCHANGED <<files, output, killed>> /\ atEnd(t.chunk) /\ Return(t, 0)
    BY <1>7 DEF Synchronise
  <2>2. tasks' = tasks \ {t} /\ failed' = (failed \/ 0 # 0)
    BY <2>1, Zenon DEF Return
  <2>3. failed => failed'
    BY <2>2, Zenon
  <2>4. Rest(t.chunk) = 0
    BY <1>1, <2>1, TaskParts
  <2>5. ASSUME NEW limit \in Int, Covered(limit) PROVE Covered(limit)'
    <3>1. SUFFICES ASSUME ~failed, status # "error",
                          NEW o \in 0..outputLength - 1, o < limit
                   PROVE  Done(o)'
      BY <2>1, <2>3, <2>5, FilesKept DEF Covered
    <3>2. Done(o)
      BY <2>5, <3>1 DEF Covered
    <3>3. ~(Pos(t.chunk) <= o /\ o < Pos(t.chunk) + Rest(t.chunk))
      BY <1>1, <1>2, <2>4
    <3>4. QED
      BY <2>1, <2>2, <3>2, <3>3 DEF Done
  <2>6. QED
    BY <1>3, <2>1, <2>2, <2>5, TaskReturned DEF CopyInv
<1>8. CASE SystemCallFails(t)
  <2>1. UNCHANGED <<files, output, killed>> /\ Return(t, 5)
    BY <1>8 DEF SystemCallFails
  <2>2. tasks' = tasks \ {t} /\ failed' = (failed \/ 5 # 0)
    BY <2>1, Zenon DEF Return
  <2>3. 5 # 0
    OBVIOUS
  <2>4. failed'
    BY <2>2, <2>3, Zenon
  <2>5. QED
    BY <1>3, <1>4, <2>1, <2>2, <2>4, TaskReturned DEF CopyInv
<1>9. QED
  BY <1>5, <1>6, <1>7, <1>8 DEF CopyStep

(* Queueing a chunk that fits, behind which nothing is queued yet.         *)
LEMMA ChunkQueued ==
  ASSUME files \in FileSets, CopyInv, UNCHANGED <<files, output, failed, status>>,
         NEW c, InOutput(c), Fits(c), Rest(c) > 0 => Pos(c) % PageSize = 0,
         Behind(Pos(c)),
         tasks' = tasks \cup {NewTask(c)}
  PROVE  /\ CopyInv'
         /\ Behind(Pos(c) + Rest(c))'
         /\ Covered(Pos(c)) => Covered(Pos(c) + Rest(c))'
<1> DEFINE u == NewTask(c)
<1>1. c \in Chunks /\ 0 <= Rest(c)
  BY DEF InOutput
<1>2. Pos(c) \in Int /\ Rest(c) \in Int
  BY <1>1, ChunkParts
<1>3. u \in Tasks /\ u.chunk = c /\ u.phase = "map" /\ u.outputLength = Rest(c)
  BY <1>1, <1>2 DEF NewTask, Tasks, Rest
<1>4. TaskOK(u)
  BY <1>2, <1>3 DEF TaskOK
<1> HIDE DEF u
<1>5. \A r \in tasks' : TaskOK(r) /\ TaskOK(r)'
  BY <1>4, FilesKept DEF CopyInv, u
<1>6. \A r \in tasks : Pos(r.chunk) \in Int /\ Rest(r.chunk) \in Int /\ Rest(r.chunk) >= 0
                       /\ Pos(r.chunk) + Rest(r.chunk) <= Pos(c)
  BY TaskParts DEF CopyInv, TaskOK, InOutput, Behind
<1>7. TasksDisjoint'
  <2>1. \A r, x \in tasks : r # x =>
             \/ Pos(r.chunk) + Rest(r.chunk) <= Pos(x.chunk)
             \/ Pos(x.chunk) + Rest(x.chunk) <= Pos(r.chunk)
    BY DisjointChunks DEF CopyInv
  <2>2. ASSUME NEW r \in tasks', NEW x \in tasks', r # x
        PROVE  \/ Pos(r.chunk) + Rest(r.chunk) <= Pos(x.chunk)
               \/ Pos(x.chunk) + Rest(x.chunk) <= Pos(r.chunk)
    BY <1>3, <1>6, <2>1, <2>2 DEF u
  <2>3. QED
    BY <2>2 DEF TasksDisjoint, Position, Left, Pos, Rest
<1>8. OutputOK'
  BY FilesKept DEF CopyInv, OutputOK, NoWrongByte
<1>9. Behind(Pos(c) + Rest(c))'
  <2>1. \A r \in tasks' : Pos(r.chunk) + Rest(r.chunk) <= Pos(c) + Rest(c)
    BY <1>1, <1>2, <1>3, <1>6 DEF u
  <2>2. QED
    BY <2>1 DEF Behind
<1>10. ASSUME Covered(Pos(c)) PROVE Covered(Pos(c) + Rest(c))'
  <2>1. SUFFICES ASSUME ~failed, status # "error",
                        NEW o \in 0..outputLength - 1, o < Pos(c) + Rest(c)
                 PROVE  Done(o)'
    BY FilesKept DEF Covered
  <2>2. o \in Int
    BY Layout
  <2>3. CASE o < Pos(c)
    <3>1. Done(o)
      BY <1>10, <2>1, <2>3 DEF Covered
    <3>2. QED
      BY <3>1 DEF Done
  <2>4. CASE ~(o < Pos(c))
    <3>1. u \in tasks' /\ Pos(u.chunk) <= o /\ o < Pos(u.chunk) + Rest(u.chunk)
      BY <1>2, <1>3, <2>1, <2>2, <2>4 DEF u
    <3>2. QED
      BY <3>1 DEF Done
  <2>5. QED
    BY <2>3, <2>4
<1>11. QED
  BY <1>5, <1>7, <1>8, <1>9, <1>10 DEF CopyInv

(* What the runs check of the chunks in flight.                            *)
LEMMA TasksAreSafe ==
  ASSUME files \in FileSets, CopyInv
  PROVE  NoWrongByte /\ BlocksInBounds /\ OffsetWithinLength /\ TasksDisjoint
<1>1. ASSUME NEW t \in tasks, ~atEnd(t.chunk)
      PROVE  LET in == t.chunk.inputOffset IN
             /\ t.chunk.file \in 1..Len(files.length)
             /\ length(in) > 0
             /\ offset(in) + length(in) <= files.length[t.chunk.file]
             /\ length(in) <= Left(t)
             /\ t.phase = "copy" => /\ length(in) <= t.size - t.offset
                                    /\ t.offset + length(in) <= t.outputLength
  <2> DEFINE len == length(t.chunk.inputOffset)
  <2>1. TaskOK(t)
    BY DEF CopyInv
  <2>2. /\ Rest(t.chunk) \in Int /\ Rest(t.chunk) > 0 /\ Left(t) = Rest(t.chunk)
        /\ t.size \in Int /\ t.offset \in Int /\ t.outputLength \in Int
        /\ len \in Int
    BY <1>1, <2>1, TaskParts, ChunkParts
  <2>3. /\ t.chunk.file \in 1..count
        /\ 0 < len /\ len <= Rest(t.chunk)
        /\ offset(t.chunk.inputOffset) + len <= files.length[t.chunk.file]
    BY <2>1, <2>2 DEF TaskOK, Fits
  <2>4. ASSUME t.phase = "copy" PROVE t.offset + len <= t.size
    BY <1>1, <2>1, <2>4, BlockIsSafe
  <2>5. ASSUME t.phase = "copy" PROVE t.offset + Rest(t.chunk) = t.outputLength
    BY <2>1, <2>2, <2>5 DEF TaskOK
  <2> HIDE DEF len
  <2>6. t.phase = "copy" => len <= t.size - t.offset /\ t.offset + len <= t.outputLength
    BY <2>2, <2>3, <2>4, <2>5
  <2>7. QED
    BY <2>2, <2>3, <2>6 DEF count, len
<1>2. NoWrongByte /\ TasksDisjoint
  BY DEF CopyInv, OutputOK
<1>3. BlocksInBounds
  BY <1>1 DEF BlocksInBounds
<1>4. OffsetWithinLength
  BY <1>1 DEF OffsetWithinLength
<1>5. QED
  BY <1>2, <1>3, <1>4

(* An output file that was just resized, and no chunk in flight.           *)
LEMMA CopyStarts ==
  ASSUME CopyInit
  PROVE  files \in FileSets /\ CopyInv /\ Behind(0) /\ Covered(0) /\ ~failed /\ ~killed
<1>1. /\ files \in FileSets /\ tasks = {} /\ failed = FALSE /\ killed = FALSE
      /\ output = [o \in 0..outputLength - 1 |-> Unwritten]
  BY DEF CopyInit
<1>2. OutputOK
  BY <1>1 DEF OutputOK, NoWrongByte, Unwritten
<1>3. outputLength \in Nat
  BY <1>1, Layout
<1>4. Covered(0)
  <2>1. \A o \in 0..outputLength - 1 : ~(o < 0)
    BY <1>3
  <2>2. QED
    BY <2>1 DEF Covered
<1>5. QED
  BY <1>1, <1>2, <1>4 DEF CopyInv, TasksDisjoint, Behind

(* A step of the loop copies nothing.                                      *)
LEMMA NothingCopied ==
  ASSUME UNCHANGED <<files, output, tasks>>,
         failed \/ status = "error" => failed' \/ status' = "error"
  PROVE  /\ CopyInv => CopyInv'
         /\ \A limit \in Int : /\ Behind(limit) => Behind(limit)'
                               /\ Covered(limit) => Covered(limit)'
<1>1. OutputOK => OutputOK'
  BY FilesKept DEF OutputOK, NoWrongByte
<1>2. TasksDisjoint => TasksDisjoint'
  BY DEF TasksDisjoint
<1>3. (\A t \in tasks : TaskOK(t)) => \A t \in tasks' : TaskOK(t)'
  BY FilesKept
<1>4. ASSUME NEW limit \in Int
      PROVE  /\ Behind(limit) => Behind(limit)'
             /\ Covered(limit) => Covered(limit)'
  <2>1. Behind(limit) => Behind(limit)'
    BY DEF Behind
  <2>2. \A o : Done(o) => Done(o)'
    BY DEF Done
  <2>3. Covered(limit) => Covered(limit)'
    BY <2>2, FilesKept DEF Covered
  <2>4. QED
    BY <2>1, <2>3
<1>5. QED
  BY <1>1, <1>2, <1>3, <1>4 DEF CopyInv

(* No task is behind the end of the output, and there every byte of a      *)
(* finished copy has been written.                                         *)
LEMMA AllCopied ==
  ASSUME files \in FileSets, CopyInv
  PROVE  /\ Behind(outputLength)
         /\ Covered(outputLength) /\ tasks = {} /\ ~failed /\ status = "ok" =>
                \A o \in DOMAIN output : output[o] = o
<1>1. Behind(outputLength)
  BY DEF CopyInv, TaskOK, InOutput, Behind
<1>2. ASSUME Covered(outputLength), tasks = {}, ~failed, status = "ok",
             NEW o \in DOMAIN output
      PROVE  output[o] = o
  <2>1. outputLength \in Nat /\ o \in 0..outputLength - 1
    BY Layout DEF CopyInv, OutputOK
  <2>2. Done(o)
    BY <1>2, <2>1 DEF Covered
  <2>3. QED
    BY <1>2, <2>2 DEF Done
<1>3. QED
  BY <1>1, <1>2

-----------------------------------------------------------------------------
(* Chunks that are where they should be                                    *)

\* Place p of the output is byte o of file f; the end of the output is the
\* start of inputFiles.end().
At(f, o, p) ==
    /\ f \in 1..End
    /\ o \in Nat
    /\ p = files.start[f] + o
    /\ IF f = End THEN o = 0 ELSE o < FileLength(f)

\* The input side of a chunk is at the same place as its output side.
Located(c) ==
    /\ InOutput(c)
    /\ c.inputLength = FileLength(c.file)
    /\ At(c.file, offset(c.inputOffset), Pos(c))

\* Where the input side is, one block further on.
InAfter(c) == Plus(c.inputOffset, length(c.inputOffset))
OverAfter(c) == offset(InAfter(c)) = c.inputLength
FileAfter(c) == IF OverAfter(c) THEN c.file + 1 ELSE c.file
PosAfter(c) == IF OverAfter(c) THEN NoOffset ELSE InAfter(c)

(* The places in one file, and the file behind it.                         *)
LEMMA FilePlaces ==
  ASSUME files \in FileSets, NEW f \in 1..End
  PROVE  /\ FileLength(f) \in Nat /\ files.start[f] \in Nat /\ f \in Nat
         /\ files.start[f] + FileLength(f) <= outputLength
         /\ f = End => FileLength(f) = 0 /\ files.start[f] = outputLength
         /\ f # End => /\ f \in 1..count /\ f + 1 \in 1..End
                       /\ FileLength(f) = files.length[f] /\ FileLength(f) > 0
                       /\ files.start[f + 1] = files.start[f] + FileLength(f)
         /\ f = count => files.start[f] + FileLength(f) = outputLength
<1>1. count \in Nat /\ End = count + 1 /\ outputLength \in Nat /\ outputLength = files.start[End]
  BY Layout
<1>2. CASE f = End
  <2>1. FileLength(f) = 0 /\ files.start[f] = outputLength /\ f \in Nat /\ f # count
    BY <1>1, <1>2, Layout
  <2>2. QED
    BY <1>1, <1>2, <2>1
<1>3. CASE f # End
  <2>1. f \in 1..count /\ f + 1 \in 1..End /\ f \in Nat /\ End \in f + 1..End
    BY <1>1, <1>3
  <2>2. /\ FileLength(f) = files.length[f] /\ files.length[f] \in Nat /\ files.length[f] > 0
        /\ files.start[f + 1] = files.start[f] + files.length[f]
        /\ files.start[f] \in Nat
    BY <1>1, <2>1, Layout
  <2>3. files.start[f] + files.length[f] <= outputLength
    BY <1>1, <2>1, FilesInOrder
  <2>4. f = count => files.start[f] + FileLength(f) = outputLength
    BY <1>1, <2>2
  <2>5. QED
    BY <1>3, <2>1, <2>2, <2>3, <2>4
<1>4. QED
  BY <1>2, <1>3

(* A place is part of the output unless it is the end, and the file there  *)
(* ends in the output too.                                                 *)
LEMMA PlaceInOutput ==
  ASSUME files \in FileSets, NEW f, NEW o, NEW p, At(f, o, p)
  PROVE  /\ p \in Nat /\ p <= outputLength /\ o \in Nat /\ FileLength(f) \in Nat
         /\ p < outputLength => f # End /\ FileLength(f) - o > 0
         /\ p = outputLength => f = End
         /\ o <= FileLength(f)
         /\ p + (FileLength(f) - o) <= outputLength
         /\ f = count => p + (FileLength(f) - o) = outputLength
<1>1. f \in 1..End /\ o \in Nat /\ p = files.start[f] + o
      /\ IF f = End THEN o = 0 ELSE o < FileLength(f)
  BY DEF At
<1>2. /\ FileLength(f) \in Nat /\ files.start[f] \in Nat /\ outputLength \in Nat
      /\ files.start[f] + FileLength(f) <= outputLength
      /\ f = End => FileLength(f) = 0 /\ files.start[f] = outputLength
      /\ f = count => files.start[f] + FileLength(f) = outputLength
  BY <1>1, FilePlaces, Layout
<1>3. QED
  BY <1>1, <1>2

(* One block further on the input side is again at a place of the output.  *)
LEMMA PlaceAfter ==
  ASSUME files \in FileSets, NEW c \in Chunks,
         c.file \in 1..End, c.file # End, c.inputLength = FileLength(c.file),
         offset(c.inputOffset) >= 0, length(c.inputOffset) >= 0,
         offset(c.inputOffset) + length(c.inputOffset) <= FileLength(c.file)
  PROVE  /\ FileAfter(c) \in 1..End /\ FileAfter(c) \in Nat
         /\ PosAfter(c) \in Offsets
         /\ At(FileAfter(c), offset(PosAfter(c)),
               files.start[c.file] + offset(c.inputOffset) + length(c.inputOffset))
         /\ OverAfter(c) => FileAfter(c) = c.file + 1 /\ offset(PosAfter(c)) = 0
         /\ ~OverAfter(c) =>
                /\ FileAfter(c) = c.file
                /\ offset(PosAfter(c)) = offset(c.inputOffset) + length(c.inputOffset)
         /\ OverAfter(c) <=> offset(c.inputOffset) + length(c.inputOffset) = FileLength(c.file)
<1> DEFINE o == offset(c.inputOffset)
           l == length(c.inputOffset)
<1>1. o \in Int /\ l \in Int /\ c.inputOffset \in Offsets
  BY ChunkParts
<1>2. InAfter(c) \in Offsets /\ offset(InAfter(c)) = o + l
  BY <1>1, OffsetAlgebra DEF InAfter
<1>3. /\ FileLength(c.file) \in Nat /\ files.start[c.file] \in Nat /\ c.file + 1 \in 1..End
      /\ files.start[c.file + 1] = files.start[c.file] + FileLength(c.file)
      /\ c.file \in Nat
  BY FilePlaces
<1>4. OverAfter(c) <=> o + l = FileLength(c.file)
  BY <1>2 DEF OverAfter
<1>5. CASE OverAfter(c)
  <2>1. FileAfter(c) = c.file + 1 /\ PosAfter(c) = NoOffset
    BY <1>5 DEF FileAfter, PosAfter
  <2>2. PosAfter(c) \in Offsets /\ offset(PosAfter(c)) = 0
    BY <2>1, NoOffsetParts
  <2>3. FileLength(c.file + 1) > 0 \/ c.file + 1 = End
    BY <1>3, FilePlaces
  <2>4. At(c.file + 1, 0, files.start[c.file] + o + l)
    <3>1. files.start[c.file] + o + l = files.start[c.file + 1] + 0
      BY <1>1, <1>3, <1>4, <1>5
    <3>2. QED
      BY <1>3, <2>3, <3>1 DEF At
  <2>5. QED
    BY <1>3, <1>4, <1>5, <2>1, <2>2, <2>4
<1>6. CASE ~OverAfter(c)
  <2>1. FileAfter(c) = c.file /\ PosAfter(c) = InAfter(c)
    BY <1>6 DEF FileAfter, PosAfter
  <2>2. offset(PosAfter(c)) = o + l /\ PosAfter(c) \in Offsets
    BY <1>2, <2>1
  <2> HIDE DEF o, l
  <2>3. o + l \in Nat /\ o + l < FileLength(c.file)
    BY <1>1, <1>3, <1>4, <1>6 DEF o, l
  <2>4. files.start[c.file] + o + l = files.start[c.file] + (o + l)
    BY <1>1, <1>3
  <2>5. At(c.file, o + l, files.start[c.file] + o + l)
    BY <2>3, <2>4 DEF At
  <2>6. QED
    BY <1>3, <1>4, <1>6, <2>1, <2>2, <2>5 DEF o, l
<1>7. QED
  BY <1>5, <1>6

(* A place and a chunk's being there depend on the files alone.            *)
LEMMA PlaceKept ==
  ASSUME files' = files
  PROVE  /\ \A f, o, p : At(f, o, p)' <=> At(f, o, p)
         /\ \A c : Located(c)' <=> Located(c)
         /\ \A f : FileLength(f)' = FileLength(f)
<1>1. End' = End
  BY FilesKept
<1>2. \A f : FileLength(f)' = FileLength(f)
  BY DEF FileLength
<1>3. \A f, o, p : At(f, o, p)' <=> At(f, o, p)
  BY <1>1, <1>2 DEF At
<1>4. \A c : InOutput(c)' <=> InOutput(c)
  BY FilesKept
<1>5. \A c : At(c.file, offset(c.inputOffset), Pos(c))' <=> At(c.file, offset(c.inputOffset), Pos(c))
  BY <1>3
<1>6. \A c : Located(c)' <=> Located(c)
  BY <1>2, <1>4, <1>5 DEF Located
<1>7. QED
  BY <1>2, <1>3, <1>6

(* blockLength() of a natural number.                                      *)
LEMMA BlockLengthOf ==
  ASSUME NEW n \in Nat
  PROVE  /\ blockLength(n) \in Nat /\ blockLength(n) <= n
         /\ blockLength(n) <= TransferBlockSize
         /\ blockLength(n) = TransferBlockSize \/ blockLength(n) = n
         /\ n > 0 => blockLength(n) > 0
<1>1. TransferBlockSize \in Nat /\ TransferBlockSize > 0
  BY CopyAssumption
<1>2. blockLength(n) = Minimum(TransferBlockSize, n)
  BY DEF blockLength
<1>3. QED
  BY <1>1, <1>2 DEF Minimum

\* The length of the file one block further on, as nextInputBlock() knows it.
LengthAfter(c) == IF OverAfter(c) THEN FileLength(FileAfter(c)) ELSE c.inputLength

(* The chunk one block further on is where it should be, whatever length   *)
(* nextInputBlock() gives to its next block.                               *)
LEMMA ChunkAfter ==
  ASSUME files \in FileSets, NEW c, Located(c), c.file # End,
         length(c.inputOffset) >= 0, length(c.inputOffset) <= Rest(c),
         offset(c.inputOffset) + length(c.inputOffset) <= FileLength(c.file),
         NEW b \in Int, NEW n,
         n = ChunkState(FileAfter(c), LengthAfter(c), WithLength(PosAfter(c), b),
                 WithLength(Plus(c.outputOffset, length(c.inputOffset)),
                            length(c.outputOffset) - length(c.inputOffset)))
  PROVE  /\ Located(n)
         /\ n \in Chunks
         /\ Pos(n) = Pos(c) + length(c.inputOffset)
         /\ Rest(n) = Rest(c) - length(c.inputOffset)
         /\ n.file = FileAfter(c) /\ length(n.inputOffset) = b
         /\ FileLength(n.file) = LengthAfter(c)
         /\ OverAfter(c) => n.file = c.file + 1 /\ offset(n.inputOffset) = 0
         /\ ~OverAfter(c) =>
                /\ n.file = c.file
                /\ offset(n.inputOffset) = offset(c.inputOffset) + length(c.inputOffset)
                /\ length(c.inputOffset) # FileLength(c.file) - offset(c.inputOffset)
<1> DEFINE used == length(c.inputOffset)
           o    == offset(c.inputOffset)
           rem  == length(c.outputOffset) - used
           out  == WithLength(Plus(c.outputOffset, used), rem)
           in   == WithLength(PosAfter(c), b)
<1>1. /\ c \in Chunks /\ InOutput(c) /\ At(c.file, o, Pos(c))
      /\ c.inputLength = FileLength(c.file) /\ c.file \in 1..End
  BY DEF Located, InOutput, At
<1>2. /\ o \in Int /\ used \in Int /\ Pos(c) \in Int /\ Rest(c) \in Int
      /\ c.outputOffset \in Offsets
      /\ Pos(c) >= 0 /\ Pos(c) + Rest(c) <= outputLength
  BY <1>1, ChunkParts DEF InOutput
<1>3. /\ files.start[c.file] \in Nat /\ FileLength(c.file) \in Nat
      /\ outputLength \in Nat
      /\ o \in Nat /\ Pos(c) = files.start[c.file] + o
  BY <1>1, FilePlaces, Layout DEF At
<1>4. rem = Rest(c) - used /\ rem \in Int /\ rem >= 0
  BY <1>2 DEF Rest
<1>5. /\ FileAfter(c) \in 1..End /\ FileAfter(c) \in Nat
      /\ PosAfter(c) \in Offsets
      /\ At(FileAfter(c), offset(PosAfter(c)), files.start[c.file] + o + used)
      /\ OverAfter(c) => FileAfter(c) = c.file + 1 /\ offset(PosAfter(c)) = 0
      /\ ~OverAfter(c) => FileAfter(c) = c.file /\ offset(PosAfter(c)) = o + used
      /\ OverAfter(c) <=> o + used = FileLength(c.file)
  BY <1>1, <1>3, PlaceAfter
<1>6. LengthAfter(c) = FileLength(FileAfter(c)) /\ LengthAfter(c) \in Nat
  BY <1>1, <1>5, FilePlaces DEF LengthAfter
<1>7. out \in Offsets /\ offset(out) = Pos(c) + used /\ length(out) = rem
  <2>1. Plus(c.outputOffset, used) \in Offsets
        /\ offset(Plus(c.outputOffset, used)) = Pos(c) + used
    BY <1>2, OffsetAlgebra DEF Pos
  <2>2. QED
    BY <1>4, <2>1, OffsetAlgebra
<1>8. in \in Offsets /\ offset(in) = offset(PosAfter(c)) /\ length(in) = b
  BY <1>5, OffsetAlgebra
<1>9. n = ChunkState(FileAfter(c), LengthAfter(c), in, out)
  OBVIOUS
<1> HIDE DEF in, out
<1>10. /\ n \in Chunks /\ n.file = FileAfter(c) /\ n.inputLength = LengthAfter(c)
       /\ n.inputOffset = in /\ Pos(n) = Pos(c) + used /\ Rest(n) = rem
  BY <1>5, <1>6, <1>7, <1>8, <1>9, ChunkMade
<1> HIDE DEF rem
<1>11. InOutput(n)
  BY <1>2, <1>4, <1>10 DEF InOutput
<1>12. files.start[c.file] + o + used = Pos(n)
  BY <1>2, <1>3, <1>10
<1>13. Located(n)
  BY <1>5, <1>6, <1>8, <1>10, <1>11, <1>12 DEF Located
<1>14. ~OverAfter(c) => used # FileLength(c.file) - o
  BY <1>2, <1>3, <1>5
<1>15. QED
  BY <1>4, <1>5, <1>6, <1>8, <1>10, <1>13, <1>14
=============================================================================
