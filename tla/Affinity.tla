------------------------------ MODULE Affinity ------------------------------
(***************************************************************************)
(* affinity_t for Linux and for Windows (src/linux/affinity.hxx,           *)
(* src/windows/affinity.hxx): which processors the pool's workers run on,  *)
(* from the machine and from the -t and -c of the tree that Args builds.   *)
(* The constructor looks at one bit of a mask per step; then every worker  *)
(* pins itself.                                                            *)
(*                                                                         *)
(* A processor is <<group, bit>>, on Linux with group 0.  A mask is the    *)
(* set of its bits.  On Windows all groups are in one record, the first of *)
(* the buffer; the rest of the buffer is that record's tail, which does    *)
(* not read as RelationGroup and is skipped.                               *)
(***************************************************************************)
EXTENDS Args, FiniteSets

CONSTANTS
    MaskBits,    \* CPU_SETSIZE, or the bits of a KAFFINITY
    MaxGroups,   \* bound: the most processor groups of a Windows machine
    Masks        \* the masks a group (or the process, on Linux) may have

ASSUME AffinityAssumption ==
    /\ MaskBits \in Nat \ {0}
    /\ MaxGroups \in Nat \ {0}
    /\ \A mask \in Masks : mask # {} /\ mask \subseteq 0..MaskBits - 1

VARIABLES
    phase,        \* where the constructor is
    system,       \* the operating system
    groups,       \* the masks the kernel knows
    room,         \* how many groups the buffer has room for
    info,         \* the masks the constructor works on
    group, bit,   \* groupIndex and i, the counters of its loops
    seen,         \* count: the processors passed so far
    processors,   \* the list being built
    pinned        \* where each worker may run

scanVars == <<system, groups, room, info>>
vars == <<argsVars, phase, scanVars, group, bit, seen, processors, pinned>>

Processors == (0..MaxGroups - 1) \X (0..MaskBits - 1)
NotPinned  == {}    \* still on its way to pinThreadTo()
Workers    == 1..Len(processors)

TypeOK ==
    /\ result \in {"parsing", "true", "false", "noMemory"}
    /\ lexer.type \in {"unknown", "arg", "space", "equals"}
    /\ lexer.arg \in 1..count + 1
    /\ phase \in {"args", "retrieve", "scan", "ready", "threw"}
    /\ system \in {"linux", "windows"}
    /\ groups \in Seq(Masks) /\ Len(groups) <= MaxGroups
    /\ room \in 0..MaxGroups
    /\ info \in Seq(SUBSET (0..MaskBits - 1))
    /\ group \in 0..Len(info)
    /\ bit \in 0..MaskBits
    /\ seen \in Nat
    /\ processors \in Seq(Processors)
    /\ \A w \in DOMAIN pinned : pinned[w] \subseteq Processors

Init ==
    /\ ArgsInit
    /\ phase = "args"
    /\ system = "linux"
    /\ groups = <<>>
    /\ room = 0
    /\ info = <<>>
    /\ group = 0
    /\ bit = 0
    /\ seen = 0
    /\ processors = <<>>
    /\ pinned = <<>>

\* main() goes on to chunkedCopy() and does not exit.
Copies ==
    /\ result = "true"
    /\ find("version") = <<>> /\ find("help") = <<>>
    /\ find("outputFile") # <<>>

\* chunkedCopy() builds a pool and its affinity_t on some machine.
Construct ==
    /\ phase = "args"
    /\ Copies
    /\ phase' = "retrieve"
    /\ system' \in {"linux", "windows"}
    /\ \E mask \in Masks : groups' = <<mask>>
    /\ UNCHANGED <<argsVars, room, info, group, bit, seen, processors, pinned>>

\* sched_getaffinity() fills in the mask of the process.
GetAffinity ==
    /\ phase = "retrieve"
    /\ system = "linux"
    /\ info' = groups
    /\ phase' = "scan"
    /\ UNCHANGED <<argsVars, system, groups, room, group, bit, seen, processors, pinned>>

\* Mutant: the buffer is always one record.
Grown_OneRecord == 1

\* Mutant: one record too many.
Grown_RoundsUp == Len(groups) + 1

\* How much room ERROR_INSUFFICIENT_BUFFER leads to.
Grown == Len(groups)

\* retrieveProcessorInfo(): the first call has no buffer; one that is too
\* small is replaced by one of the size the kernel asked for.
RetrieveProcessorInfo ==
    /\ phase = "retrieve"
    /\ system = "windows"
    /\ IF Len(groups) > room
       THEN room' = Grown /\ UNCHANGED <<info, phase>>
       ELSE info' = groups /\ phase' = "scan" /\ UNCHANGED room
    /\ UNCHANGED <<argsVars, system, groups, group, bit, seen, processors, pinned>>

\* Processors are added to a running Windows machine.
GroupAdded ==
    /\ system = "windows"
    /\ phase = "retrieve"
    /\ Len(groups) < MaxGroups
    /\ \E mask \in Masks : groups' = Append(groups, mask)
    /\ UNCHANGED <<argsVars, phase, system, room, info, group, bit, seen, processors, pinned>>

\* Either call fails for another reason: std::system_error.
RetrieveFails ==
    /\ phase = "retrieve"
    /\ phase' = "threw"
    /\ UNCHANGED <<argsVars, scanVars, group, bit, seen, processors, pinned>>

\* What -t and -c ask for, if they are given.
Capped == find("threads") # <<>>
Pinned == find("pinning") # <<>>
cap  == threads(Head(find("threads")).value)
pins == ToSet(cores(Head(find("pinning")).value))

\* Mutant: one more processor than the cap.
Keep_OneMore(number) ==
    /\ ~Capped \/ Len(processors) <= cap
    /\ ~Pinned \/ number \in pins

\* The condition under which the processor of that number joins the list.
Keep(number) ==
    /\ ~Capped \/ Len(processors) < cap
    /\ ~Pinned \/ number \in pins

\* Linux: bits are cleared as they are passed, until none is left.
ScanMask ==
    /\ phase = "scan"
    /\ system = "linux"
    /\ LET mask == info[1] IN
       \/ /\ bit < MaskBits /\ bit \in mask
          /\ processors' = IF Keep(bit) THEN Append(processors, <<0, bit>>) ELSE processors
          /\ info' = <<mask \ {bit}>>
          /\ bit' = bit + 1
          /\ UNCHANGED <<phase, pinned>>
       \/ /\ bit < MaskBits /\ bit \notin mask /\ mask # {}
          /\ bit' = bit + 1
          /\ UNCHANGED <<phase, info, processors, pinned>>
       \/ /\ bit = MaskBits \/ mask = {}
          /\ phase' = "ready"
          /\ pinned' = [w \in Workers |-> NotPinned]
          /\ UNCHANGED <<info, bit, processors>>
    /\ UNCHANGED <<argsVars, system, groups, room, group, seen>>

\* Mutant: the group is forgotten.
Processor_NoGroup(g, b) == <<0, b>>

\* Windows: what emplace_back() makes of groupIndex and i.
Processor(g, b) == <<g, b>>

\* Windows: one turn of the inner loop.  The pins count active processors
\* across groups.  The mask is shifted; without bits left the next group comes.
ScanGroups ==
    /\ phase = "scan"
    /\ system = "windows"
    /\ IF group = Len(info)
       THEN /\ phase' = "ready"
            /\ pinned' = [w \in Workers |-> NotPinned]
            /\ UNCHANGED <<group, bit, seen, processors>>
       ELSE LET mask == info[group + 1]
                last == bit = MaskBits - 1 \/ \A b \in mask : b <= bit
            IN  /\ processors' = IF bit \in mask /\ Keep(seen)
                                 THEN Append(processors, Processor(group, bit)) ELSE processors
                /\ seen' = IF bit \in mask THEN seen + 1 ELSE seen
                /\ bit' = IF last THEN 0 ELSE bit + 1
                /\ group' = IF last THEN group + 1 ELSE group
                /\ UNCHANGED <<phase, pinned>>
    /\ UNCHANGED <<argsVars, scanVars>>

\* The processors of the machine.
Available == {p \in Processors : p[1] < Len(groups) /\ p[2] \in groups[p[1] + 1]}

\* Worker w calls pinThreadTo() with its index.  Should the system refuse, it
\* stays where the process may run: nobody looks at the result.
PinThreadTo(w) ==
    /\ phase = "ready"
    /\ w \in Workers
    /\ pinned[w] = NotPinned
    /\ \E where \in {{processors[w]}, Available} : pinned' = [pinned EXCEPT ![w] = where]
    /\ UNCHANGED <<argsVars, phase, scanVars, group, bit, seen, processors>>

ConstructStep == Construct \/ GetAffinity \/ RetrieveProcessorInfo \/ ScanMask \/ ScanGroups

Next ==
    \/ ParseStep /\ UNCHANGED <<phase, scanVars, group, bit, seen, processors, pinned>>
    \/ ConstructStep
    \/ GroupAdded
    \/ RetrieveFails
    \/ \E w \in Workers : PinThreadTo(w)

\* The program goes on; the machine need not change and no call need fail.
Fairness ==
    /\ WF_vars(ParseStep /\ UNCHANGED <<phase, scanVars, group, bit, seen, processors, pinned>>)
    /\ WF_vars(ConstructStep)

Spec == Init /\ [][Next]_vars /\ Fairness

-----------------------------------------------------------------------------
Before(p, q) == p[1] < q[1] \/ (p[1] = q[1] /\ p[2] < q[2])

\* The number -c knows a processor by: its bit on Linux, on Windows its rank.
NumberOf(p) ==
    IF system = "linux" THEN p[2] ELSE Cardinality({q \in Available : Before(q, p)})

\* Those the first -c on the command line allows.
Allowed == {p \in Available : Pinned => NumberOf(p) \in pins}

\* The workers' processors are the lowest ones that -c allows, each once and in
\* order, as many as -t admits and there are: on both systems, for masks with
\* gaps, for pins out of order, repeated or not on the machine, and when the
\* machine grew between two calls of retrieveProcessorInfo().  In particular
\* the list is empty, and no worker is started, only if every pin misses.
ProcessorsAsAsked ==
    phase = "ready" =>
        /\ \A k \in 1..Len(processors) :
              /\ processors[k] \in Allowed
              /\ Cardinality({p \in Allowed : Before(p, processors[k])}) = k - 1
        /\ LET n == Cardinality(Allowed) IN
           Len(processors) = IF Capped /\ cap < n THEN cap ELSE n

\* No two workers are pinned to one processor, in whatever order they start,
\* and none to one the machine does not have.
WorkersApart ==
    \A v, w \in DOMAIN pinned :
        v # w /\ Cardinality(pinned[v]) = 1 => pinned[v] \subseteq Available /\ pinned[v] # pinned[w]

\* Every command line is refused or ends in a list of processors: each call of
\* parseArgument() gets further, the retries of retrieveProcessorInfo() end, and
\* so do the loops over the masks.
FrontEndEnds ==
    <>(\/ result \in {"false", "noMemory"}
       \/ phase \in {"ready", "threw"}
       \/ result = "true" /\ ~Copies)
=============================================================================
