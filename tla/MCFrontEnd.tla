----------------------------- MODULE MCFrontEnd -----------------------------
(***************************************************************************)
(* The front end for TLC: every command line of up to three words out of   *)
(* those below, and machines with one to two groups of one or two          *)
(* processors, with gaps.                                                  *)
(***************************************************************************)
EXTENDS Affinity

MCOptions ==
    "-o" :> "outputFile" @@ "-t" :> "threads" @@ "-c" :> "pinning"
    @@ "--algorithm" :> "algorithm" @@ "-h" :> "help" @@ "--version" :> "version"
    @@ "--async" :> "async"

MCNumbers == "0" :> 0 @@ "1" :> 1 @@ "2" :> 2
MCLists ==
    "0" :> <<0>> @@ "1" :> <<1>> @@ "2" :> <<2>> @@ "2,0,2" :> <<2, 0, 2>>
    @@ "1," :> <<1, Nothing>> @@ "a" :> <<NotDecimal>>

\* name=value
Equals(name, value) == <<name, "=", value>>

\* Words that are part of any command line, and values after an equals sign.
PlainWords == {<<"a">>, <<"2">>, <<"-o">>, <<"-t">>, <<"-c">>, <<"-h">>, Equals("a", "b")}
Settings ==
    {Equals("-o", "a"), Equals("-t", "0"), Equals("-t", "1"),
     Equals("-c", "2,0,2"), Equals("-c", "1"), Equals("-c", "1,"),
     Equals("--algorithm", "blockLinear"), Equals("--algorithm", "a"),
     <<"--algorithm">>, <<"--async">>, <<"--version">>, Equals("-h", "a")}

\* Empty words and equals signs where none belong.
OddWords ==
    {<<>>, <<"=", "a">>, <<"a", "=">>, <<"-o", "=">>,
     <<"a", "=", "=", "b">>, <<"a", "=", "b", "=", "2">>}

MCWords == PlainWords \cup Settings \cup OddWords
MCArgLists == UNION {[1..n -> MCWords] : n \in 0..3}
MCMasks == {{0, 2}, {0, 1}, {1}}
=============================================================================
