----------------------------- MODULE CopyService -----------------------------
(***************************************************************************)
(* What chunkedCopy() promises its caller in src/pcat.cxx, whatever threads *)
(* carry it out: chunks are submitted one after the other, each of them is *)
(* run at most once, and the verdict is given once, after every submitted  *)
(* chunk was run.  The verdict is zero exactly if every chunk was copied;  *)
(* otherwise it is the error of some chunk.  A service that cannot start   *)
(* gives its verdict before anything is submitted.                         *)
(***************************************************************************)
EXTENDS Integers

CONSTANTS MaxChunks, Errors, StartErrors

Ok      == 0
NotRun  == -1
Pending == -1

VARIABLES
    submitted,   \* how many chunks were handed over
    outcome,     \* what running each chunk gave
    verdict      \* what the caller is told, Pending until then

vars == <<submitted, outcome, verdict>>

Init ==
    /\ submitted = 0
    /\ outcome = [c \in 1..MaxChunks |-> NotRun]
    /\ verdict = Pending

Submit ==
    /\ verdict = Pending
    /\ submitted < MaxChunks
    /\ submitted' = submitted + 1
    /\ UNCHANGED <<outcome, verdict>>

Execute(c) ==
    /\ verdict = Pending
    /\ outcome[c] = NotRun
    /\ \E r \in {Ok} \cup Errors : outcome' = [outcome EXCEPT ![c] = r]
    /\ UNCHANGED <<submitted, verdict>>

Conclude ==
    /\ verdict = Pending
    /\ \A c \in 1..submitted : outcome[c] # NotRun
    /\ \/ verdict' = Ok /\ \A c \in 1..submitted : outcome[c] = Ok
       \/ \E c \in 1..submitted : outcome[c] # Ok /\ verdict' = outcome[c]
    /\ UNCHANGED <<submitted, outcome>>

Refuse ==
    /\ verdict = Pending
    /\ submitted = 0
    /\ verdict' \in StartErrors
    /\ UNCHANGED <<submitted, outcome>>

Next == Submit \/ Conclude \/ Refuse \/ \E c \in 1..submitted : Execute(c)

Spec == Init /\ [][Next]_vars
=============================================================================
