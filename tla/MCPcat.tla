------------------------------- MODULE MCPcat -------------------------------
(***************************************************************************)
(* Two pcat processes for TLC.  Their command lines name inputs in either  *)
(* order, twice, or not at all, and an output that may be an input of      *)
(* theirs or of the other process.                                         *)
(***************************************************************************)
EXTENDS Pcat

CONSTANTS a, b, out   \* the files

Copy(in, o) == [parsed |-> TRUE, version |-> FALSE, help |-> FALSE,
                inputs |-> in, output |-> o]

MCCommands ==
    {Copy(<<a, b>>, out), Copy(<<b, a>>, out), Copy(<<a, a>>, b), Copy(<<b, a>>, b),
     Copy(<<>>, out), Copy(<<a>>, NoFile),
     [Copy(<<a>>, out) EXCEPT !.help = TRUE],
     [Copy(<<a>>, out) EXCEPT !.help = TRUE, !.version = TRUE],
     [Copy(<<a>>, out) EXCEPT !.parsed = FALSE]}
=============================================================================
