--------------------------- MODULE FrontEndProofs ---------------------------
(***************************************************************************)
(* Proofs about Args and Affinity, for every option table, every command   *)
(* line and every machine.                                                 *)
(*                                                                         *)
(* The parser: the tokenizer never leaves the words (LexerOK), and a node  *)
(* joins the tree only after its value was found usable (ParserInv); at an *)
(* argument the tokenizer is where a word begins, so that files are whole  *)
(* words (WordsInv); and names and values alternate as its grammar says    *)
(* (GrammarInv, for every set of words that can be the names).  The        *)
(* affinity: while the masks are scanned, every processor in the list is   *)
(* one of the machine, is behind the scan and is ahead of those that       *)
(* joined before it (ScanInv, ListInv), and the list is the lowest of the  *)
(* processors passed that -c allows, as many as -t admits (AskedInv).      *)
(***************************************************************************)
EXTENDS Affinity, FiniteSetTheorems, SequenceTheorems, SequenceFacts, TLAPS

Results    == {"parsing", "true", "false", "noMemory"}
TokenTypes == {"unknown", "arg", "space", "equals"}
IsSeq(s)   == \E S : s \in Seq(S)

\* A tokenizer inside the words, or behind the last one.
LexerOK(l) ==
    /\ l.type \in TokenTypes
    /\ l.arg \in 1..count + 1
    /\ l.offset \in Nat
    /\ l.arg <= count => l.offset <= Len(words[l.arg])

TreeOK == IsSeq(tree) /\ LimitsUsable

\* What LimitsUsable says of a node.
Held(node) ==
    /\ GoodValue(node.type, node.value)
    /\ node.type = "threads" => threads(node.value) > 0
    /\ node.type = "pinning" => cores(node.value) = Lists[Head(node.value)]

ParserInv ==
    /\ words \in Seq(Seq(STRING))
    /\ result \in Results
    /\ LexerOK(lexer)
    /\ TreeOK

-----------------------------------------------------------------------------
(* The parser                                                              *)

(* The state of the tokenizer has the parts it was made of.                *)
LEMMA TokenParts ==
  ASSUME NEW arg, NEW offset, NEW type, NEW value
  PROVE  /\ Token(arg, offset, type, value).arg = arg
         /\ Token(arg, offset, type, value).offset = offset
         /\ Token(arg, offset, type, value).type = type
         /\ Token(arg, offset, type, value).value = value
BY DEF Token

(* Reading a token leaves the tokenizer inside the words.                  *)
LEMMA NextOK ==
  ASSUME words \in Seq(Seq(STRING)), NEW l, LexerOK(l)
  PROVE  LexerOK(next(l))
<1> DEFINE word == words[l.arg]
           text == SubSeq(word, l.offset + 1, Len(word))
<1>0. count \in Nat /\ l.arg \in 1..count + 1 /\ l.offset \in Nat
  BY LenProperties DEF LexerOK, count
<1>1. CASE l.arg > count
  <2>1. next(l) = Token(l.arg, l.offset, "unknown", Null)
    BY <1>1, <1>0 DEF next
  <2>2. QED
    BY <2>1, <1>0, <1>1, TokenParts DEF LexerOK, TokenTypes
<1>2. CASE l.arg <= count /\ l.offset = Len(word)
  <2>1. next(l) = Token(l.arg + 1, 0, IF l.arg = count THEN "unknown" ELSE "space", Null)
    BY <1>2, <1>0 DEF next
  <2>2. l.arg + 1 <= count => Len(words[l.arg + 1]) \in Nat
    BY <1>0, ElementOfSeq, LenProperties DEF count
  <2>3. QED
    BY <2>1, <2>2, <1>0, <1>2, TokenParts DEF LexerOK, TokenTypes
<1>3. CASE l.arg <= count /\ l.offset < Len(word)
  <2>1. next(l) = IF Head(text) = "=" THEN Token(l.arg, l.offset + 1, "equals", <<"=">>)
                                      ELSE Token(l.arg, l.offset + 1, "arg", text)
    BY <1>3, <1>0 DEF next
  <2>2. Len(word) \in Nat
    BY <1>3, <1>0, ElementOfSeq, LenProperties DEF count
  <2> HIDE DEF text
  <2>3. /\ next(l).arg = l.arg
        /\ next(l).offset = l.offset + 1
        /\ next(l).type \in {"equals", "arg"}
    <3>1. CASE Head(text) = "="
      BY <3>1, <2>1, TokenParts
    <3>2. CASE Head(text) # "="
      BY <3>2, <2>1, TokenParts
    <3>3. QED
      BY <3>1, <3>2
  <2>4. QED
    BY <2>2, <2>3, <1>0, <1>3 DEF LexerOK, TokenTypes
<1>4. QED
  BY <1>0, <1>1, <1>2, <1>3, ElementOfSeq, LenProperties DEF LexerOK, count

(* What argThreads_t makes of a view is a natural number.                  *)
LEMMA ThreadsNat == ASSUME NEW view PROVE threads(view) \in Nat
BY ArgsAssumption DEF threads

(* What the parse functions find usable in the result of a conversion is   *)
(* what was good in the text: the conversions drop nothing.                *)
LEMMA UsableIsGood ==
  ASSUME NEW type, NEW view
  PROVE  /\ Usable(type, view) <=> GoodValue(type, view)
         /\ type = "pinning" /\ GoodValue(type, view) => cores(view) = Lists[Head(view)]
<1>1. CASE type = "threads"
  BY <1>1, ArgsAssumption DEF Usable, GoodValue, threads
<1>2. CASE type = "pinning"
  <2>1. ASSUME view # Null, Head(view) \in DOMAIN Lists
        PROVE  /\ Lists[Head(view)] \in Seq(Nat)
                     <=> \A k \in 1..Len(Lists[Head(view)]) : Lists[Head(view)][k] \in Nat
    <3>1. Lists[Head(view)] \in Seq(Nat \cup {NotDecimal, Nothing})
      BY <2>1, ArgsAssumption
    <3>2. ASSUME NEW L \in Seq(Nat \cup {NotDecimal, Nothing})
          PROVE  L \in Seq(Nat) <=> \A k \in 1..Len(L) : L[k] \in Nat
      <4>1. ASSUME L \in Seq(Nat) PROVE \A k \in 1..Len(L) : L[k] \in Nat
        BY <4>1, ElementOfSeq
      <4>2. ASSUME \A k \in 1..Len(L) : L[k] \in Nat PROVE L \in Seq(Nat)
        <5>1. Len(L) \in Nat /\ L = [k \in 1..Len(L) |-> L[k]]
          BY LenProperties
        <5>2. [k \in 1..Len(L) |-> L[k]] \in [1..Len(L) -> Nat]
          BY <4>2
        <5>3. QED
          BY <5>1, <5>2, SeqDef
      <4>3. QED
        BY <4>1, <4>2
    <3>3. QED
      BY <3>1, <3>2
  <2>2. QED
    BY <1>2, <2>1 DEF Usable, GoodValue, cores
<1>3. CASE type = "algorithm"
  BY <1>3 DEF Usable, GoodValue, validAlgorithm
<1>4. CASE type \notin {"threads", "pinning", "algorithm"}
  BY <1>4 DEF Usable, GoodValue
<1>5. QED
  BY <1>1, <1>2, <1>3, <1>4

(* A node with a usable value keeps the tree usable.                       *)
LEMMA AddUsable ==
  ASSUME ParserInv, NEW node, Add(node), Usable(node.type, node.value)
  PROVE  TreeOK'
<1>0. PICK S : tree \in Seq(S)
  BY DEF ParserInv, TreeOK, IsSeq
<1>1. tree' = Append(tree, node) /\ tree \in Seq(S \cup {node})
  BY <1>0 DEF Add
<1>2. /\ tree' \in Seq(S \cup {node})
      /\ Len(tree') = Len(tree) + 1
      /\ tree'[Len(tree) + 1] = node
      /\ \A k \in 1..Len(tree) : tree'[k] = tree[k]
  BY <1>1, AppendProperties
<1>3. Len(tree) \in Nat
  BY <1>0, LenProperties
<1>4. Held(node)
  BY ThreadsNat, UsableIsGood DEF Usable, Held
<1>5. LimitsUsable'
  <2> SUFFICES ASSUME NEW k \in 1..Len(tree') PROVE Held(tree'[k])
    BY DEF LimitsUsable, Held, GoodValue, threads, cores, Null
  <2>1. CASE k \in 1..Len(tree)
    BY <2>1, <1>2 DEF ParserInv, TreeOK, LimitsUsable, Held
  <2>2. CASE k = Len(tree) + 1
    BY <2>2, <1>2, <1>4
  <2>3. QED
    BY <1>2, <1>3, <2>1, <2>2
<1>6. QED
  BY <1>2, <1>5 DEF TreeOK, IsSeq

(* A step that leaves the tree alone keeps what is said about it.          *)
LEMMA KeepTree == ASSUME TreeOK, tree' = tree PROVE TreeOK'
BY DEF TreeOK, IsSeq, LimitsUsable, GoodValue, threads, cores, Null

(* The tokenizer moved to a place inside the words.                        *)
LEMMA MoveLexer ==
  ASSUME NEW l, LexerOK(l), lexer' = l, words' = words
  PROVE  LexerOK(lexer)'
BY DEF LexerOK, count

(* Refusing the command line, with the tokenizer inside the words.         *)
LEMMA RefuseKeeps ==
  ASSUME ParserInv, NEW why \in Results, Refuse(why), NEW l, LexerOK(l), lexer' = l
  PROVE  ParserInv'
BY KeepTree, MoveLexer DEF ParserInv, Refuse

(* A usable node joins, with the tokenizer inside the words.               *)
LEMMA AddKeeps ==
  ASSUME ParserInv, NEW node, Add(node), Usable(node.type, node.value),
         NEW l, LexerOK(l), lexer' = l
  PROVE  ParserInv'
<1>1. TreeOK'
  BY AddUsable
<1>2. words' = words /\ result' = result
  BY DEF Add
<1>3. LexerOK(lexer)'
  BY <1>2, MoveLexer
<1>4. QED
  BY <1>1, <1>2, <1>3 DEF ParserInv

(* Every call of parseArgument() keeps ParserInv.                          *)
LEMMA ParseStepKeeps == ASSUME ParserInv, ParseStep PROVE ParserInv'
<1> DEFINE after == next(Here)
           value == next(after)
<1>0. /\ words \in Seq(Seq(STRING))
      /\ LexerOK(lexer) /\ LexerOK(Here) /\ LexerOK(after) /\ LexerOK(value) /\ LexerOK(next(value))
  BY NextOK DEF ParserInv, Here
<1>r. {"false", "true", "noMemory"} \subseteq Results
  BY DEF Results
<1> HIDE DEF after, value
<1>1. CASE Flag
  <2>1. /\ Add(Node(OptionType, Null, Null))
        /\ lexer' = after
        /\ OptionType \notin {"threads", "pinning", "algorithm"}
    BY <1>1 DEF Flag, Flags, after
  <2>2. Usable(Node(OptionType, Null, Null).type, Node(OptionType, Null, Null).value)
    BY <2>1 DEF Usable, Node
  <2>3. QED
    BY <2>1, <2>2, <1>0, AddKeeps
<1>2. CASE ValuedOption
  <2>1. CASE Refuse("false") /\ lexer' \in {after, value}
    BY <2>1, <1>0, <1>r, RefuseKeeps
  <2>2. CASE /\ Usable(OptionType, value.value)
             /\ Add(Node(OptionType, value.value, Null))
             /\ lexer' = next(value)
    <3>1. /\ Node(OptionType, value.value, Null).type = OptionType
          /\ Node(OptionType, value.value, Null).value = value.value
      BY DEF Node
    <3>2. QED
      BY <2>2, <3>1, <1>0, AddKeeps
  <2>3. QED
    BY <1>2, <2>1, <2>2 DEF ValuedOption, Value, after, value
<1>3. CASE Unrecognised
  <2>1. ASSUME NEW parameter, Add(Node("unrecognised", argument, parameter)),
               lexer' \in {after, value, next(value)}
        PROVE  ParserInv'
    <3>1. Usable(Node("unrecognised", argument, parameter).type,
                 Node("unrecognised", argument, parameter).value)
      BY DEF Usable, Node
    <3>2. QED
      BY <2>1, <3>1, <1>0, AddKeeps
  <2>2. QED
    BY <1>3, <2>1 DEF Unrecognised, after, value
<1>4. CASE InvalidToken \/ OutOfMemory \/ ParseEnds
  BY <1>4, <1>0, <1>r, RefuseKeeps DEF InvalidToken, OutOfMemory, ParseEnds
<1>5. QED
  BY <1>1, <1>2, <1>3, <1>4 DEF ParseStep

(* parseArguments() starts on the first word.                              *)
LEMMA ParserStarts == ASSUME ArgsInit PROVE ParserInv
<1> DEFINE start == Token(1, 0, "unknown", Null)
<1>1. words \in Seq(Seq(STRING))
  BY ArgsAssumption DEF ArgsInit
<1>2. count \in Nat /\ (1 <= count => Len(words[1]) \in Nat)
  BY <1>1, LenProperties, ElementOfSeq DEF count
<1>3. LexerOK(start)
  BY <1>2, TokenParts DEF LexerOK, TokenTypes
<1>4. LexerOK(lexer)
  BY <1>1, <1>3, NextOK DEF ArgsInit
<1>5. tree = <<>> /\ Len(tree) = 0 /\ tree \in Seq({})
  BY EmptySeq DEF ArgsInit
<1>6. QED
  BY <1>1, <1>4, <1>5 DEF ArgsInit, ParserInv, TreeOK, IsSeq, LimitsUsable, Results

(* The affinity leaves the parser alone.                                   *)
LEMMA ParserKept == ASSUME ParserInv, UNCHANGED argsVars PROVE ParserInv'
BY KeepTree, MoveLexer DEF ParserInv, argsVars

(* parseArgument(): every step keeps the tokenizer inside the words and    *)
(* the tree usable.                                                        *)
LEMMA ParserStep == ASSUME ParserInv, [Next]_vars PROVE ParserInv'
<1>1. CASE ParseStep
  BY <1>1, ParseStepKeeps
<1>2. CASE UNCHANGED argsVars
  BY <1>2, ParserKept
<1>3. QED
  BY <1>1, <1>2 DEF Next, ConstructStep, Construct, GetAffinity, RetrieveProcessorInfo, ScanMask,
     ScanGroups, GroupAdded, RetrieveFails, PinThreadTo, vars

(* No tree, whether or not its parse succeeds, holds a thread count of     *)
(* zero, an empty or a mutilated list of cores or an unknown algorithm.    *)
THEOREM OnlyUsableLimits == Spec => []LimitsUsable
<1>1. Init => ParserInv
  BY ParserStarts DEF Init
<1>2. ParserInv /\ [Next]_vars => ParserInv'
  BY ParserStep
<1>3. ParserInv => LimitsUsable
  BY DEF ParserInv, TreeOK
<1>4. QED
  BY <1>1, <1>2, <1>3, PTL DEF Spec

-----------------------------------------------------------------------------
(* The words                                                               *)

\* The token ends in the middle of a word, or at its end; its view is the rest.
InWord(l) ==
    LET word == words[l.arg]
    IN  /\ l.offset \in 1..Len(word)
        /\ l.type = "equals" <=> word[l.offset] = "="
        /\ l.type = "arg" => l.value = SubSeq(word, l.offset, Len(word))

\* A tokenizer as next() leaves it.
Reads(l) ==
    /\ LexerOK(l)
    /\ l.type = "unknown" <=> l.arg = count + 1
    /\ l.type \in {"unknown", "space"} => l.offset = 0 /\ l.value = Null
    /\ l.type \in {"arg", "equals"} => InWord(l)

\* The tokenizer where the loop of parseArguments() looks at it.
AtWord(l) == Reads(l) /\ (l.type = "arg" => l.offset = 1)

\* Where a word is cut there is an equals sign.
Split == \A i \in 1..count : \A k \in 2..Len(words[i]) : "=" \in {words[i][k - 1], words[i][k]}

(* What next() makes of a tokenizer, part by part.                         *)
LEMMA NextIs ==
  ASSUME words \in Seq(Seq(STRING)), NEW l, LexerOK(l), l.arg <= count
  PROVE  LET word == words[l.arg]
         IN  /\ word \in Seq(STRING) /\ Len(word) \in Nat /\ count \in Nat
             /\ l.offset = Len(word) =>
                    /\ next(l).type = IF l.arg = count THEN "unknown" ELSE "space"
                    /\ next(l).arg = l.arg + 1
                    /\ next(l).offset = 0
                    /\ next(l).value = Null
             /\ l.offset # Len(word) =>
                    /\ l.offset + 1 \in 1..Len(word)
                    /\ next(l).type = IF word[l.offset + 1] = "=" THEN "equals" ELSE "arg"
                    /\ next(l).arg = l.arg
                    /\ next(l).offset = l.offset + 1
                    /\ next(l).type = "arg" =>
                           next(l).value = SubSeq(word, l.offset + 1, Len(word))
<1> DEFINE word == words[l.arg]
           text == SubSeq(word, l.offset + 1, Len(word))
<1>0. count \in Nat /\ l.arg \in 1..count /\ l.offset \in Nat /\ l.offset <= Len(word)
  BY LenProperties DEF LexerOK, count
<1>1. word \in Seq(STRING) /\ Len(word) \in Nat
  BY <1>0, ElementOfSeq, LenProperties DEF count
<1>2. CASE l.offset = Len(word)
  <2>1. next(l) = Token(l.arg + 1, 0, IF l.arg = count THEN "unknown" ELSE "space", Null)
    BY <1>2, <1>0 DEF next
  <2>2. QED
    BY <1>0, <1>1, <1>2, <2>1, TokenParts
<1>3. CASE l.offset # Len(word)
  <2>1. l.offset < Len(word) /\ l.offset + 1 \in 1..Len(word)
    BY <1>0, <1>1, <1>3
  <2>2. next(l) = IF Head(text) = "=" THEN Token(l.arg, l.offset + 1, "equals", <<"=">>)
                                      ELSE Token(l.arg, l.offset + 1, "arg", text)
    BY <1>0, <2>1 DEF next
  <2>3. text \in Seq(STRING) /\ Len(text) > 0 /\ text[1] = word[l.offset + 1]
    <3> DEFINE m == l.offset + 1
               n == Len(word)
    <3>1. m \in Int /\ n \in Int /\ m <= n /\ n - m + 1 > 0
      BY <1>0, <1>1, <2>1
    <3>2. \A i \in m..n : word[i] \in STRING
      BY <1>0, <1>1, ElementOfSeq
    <3>3. 1 \in 1..n - m + 1 /\ m + 1 - 1 = m
      BY <3>1
    <3> HIDE DEF m, n, word
    <3>4. /\ SubSeq(word, m, n) \in Seq(STRING)
          /\ Len(SubSeq(word, m, n)) = n - m + 1
          /\ SubSeq(word, m, n)[1] = word[m]
      BY <3>1, <3>2, <3>3, SubSeqProperties
    <3>5. QED
      BY <3>1, <3>4 DEF m, n
  <2>4. Head(text) = word[l.offset + 1]
    BY <2>3, HeadTailProperties, EmptySeq
  <2> HIDE DEF text
  <2>5. CASE word[l.offset + 1] = "="
    <3>1. next(l) = Token(l.arg, l.offset + 1, "equals", <<"=">>)
      BY <2>2, <2>4, <2>5
    <3>2. QED
      BY <1>0, <1>1, <1>3, <2>1, <2>5, <3>1, TokenParts
  <2>6. CASE word[l.offset + 1] # "="
    <3>1. next(l) = Token(l.arg, l.offset + 1, "arg", text)
      BY <2>2, <2>4, <2>6
    <3>2. /\ next(l).type = "arg" /\ next(l).arg = l.arg
          /\ next(l).offset = l.offset + 1 /\ next(l).value = text
      BY <3>1, TokenParts
    <3>3. QED
      BY <1>0, <1>1, <1>3, <2>1, <2>6, <3>2 DEF text
  <2>7. QED
    BY <2>5, <2>6
<1>4. QED
  BY <1>2, <1>3

(* Behind the last word the tokenizer stays where it is.                   *)
LEMMA NextStays ==
  ASSUME count \in Nat, NEW l, l.arg \in Nat, l.arg > count
  PROVE  next(l).type = "unknown" /\ next(l).arg = l.arg /\ next(l).offset = l.offset
         /\ next(l).value = Null
<1>1. next(l) = Token(l.arg, l.offset, "unknown", Null)
  BY DEF next
<1>2. QED
  BY <1>1, TokenParts

(* The tokens of a word that is neither empty at its equals signs nor      *)
(* starts with one alternate between texts and equals signs.               *)
LEMMA NextReads ==
  ASSUME words \in Seq(Seq(STRING)), NEW l, Reads(l)
  PROVE  /\ Reads(next(l))
         /\ l.arg <= next(l).arg
         /\ next(l).type \in {"unknown", "space"} \/ (next(l).arg = l.arg /\ next(l).offset = l.offset + 1)
         /\ l.type # "unknown" /\ next(l).type \in {"unknown", "space"} =>
                next(l).arg = l.arg + 1 /\ l.offset = Len(words[l.arg])
<1>0. LexerOK(l) /\ LexerOK(next(l)) /\ count \in Nat /\ l.arg \in 1..count + 1
  BY NextOK, LenProperties DEF Reads, LexerOK, count
<1>1. CASE l.arg > count
  <2>1. l.arg = count + 1
    BY <1>0, <1>1
  <2>2. l.type = "unknown" /\ l.offset = 0
    BY <2>1 DEF Reads
  <2>3. /\ next(l).type = "unknown" /\ next(l).arg = l.arg
        /\ next(l).offset = 0 /\ next(l).value = Null
    BY <1>0, <1>1, <2>2, NextStays
  <2>4. Reads(next(l))
    BY <1>0, <2>1, <2>3 DEF Reads
  <2>5. QED
    BY <1>0, <2>2, <2>3, <2>4
<1>2. CASE l.arg <= count
  <2> DEFINE word == words[l.arg]
  <2>1. CASE l.offset = Len(word)
    <3>1. /\ next(l).type = IF l.arg = count THEN "unknown" ELSE "space"
          /\ next(l).arg = l.arg + 1
          /\ next(l).offset = 0
          /\ next(l).value = Null
      BY <1>0, <1>2, <2>1, NextIs
    <3>2. Reads(next(l))
      BY <1>0, <1>2, <3>1 DEF Reads
    <3>3. next(l).type \in {"unknown", "space"}
      BY <3>1
    <3>4. l.arg \in Nat /\ l.arg <= l.arg + 1
      BY <1>0
    <3>5. QED
      BY <2>1, <3>1, <3>2, <3>3, <3>4
  <2>2. CASE l.offset # Len(word)
    <3>1. /\ next(l).type = IF word[l.offset + 1] = "=" THEN "equals" ELSE "arg"
          /\ next(l).arg = l.arg
          /\ next(l).offset = l.offset + 1
          /\ l.offset + 1 \in 1..Len(word)
          /\ next(l).type = "arg" => next(l).value = SubSeq(word, l.offset + 1, Len(word))
      BY <1>0, <1>2, <2>2, NextIs
    <3>2. InWord(next(l))
      BY <3>1 DEF InWord
    <3>3. Reads(next(l))
      BY <1>0, <1>2, <3>1, <3>2 DEF Reads
    <3>4. QED
      BY <1>0, <3>1, <3>3
  <2>3. QED
    BY <2>1, <2>2
<1>3. QED
  BY <1>0, <1>1, <1>2

(* Texts and equals signs alternate: where a word begins there is no       *)
(* equals sign, behind one there is a text, and behind a text none.        *)
LEMMA NextTidy ==
  ASSUME words \in Seq(Seq(STRING)), Tidy, Split, NEW l, Reads(l)
  PROVE  /\ l.type = "arg" => next(l).type # "arg"
         /\ l.type # "arg" => next(l).type # "equals"
         /\ l.type = "unknown" => next(l).type = "unknown"
<1> DEFINE m == next(l)
           word == words[l.arg]
<1>0. /\ Reads(m) /\ count \in Nat /\ l.arg \in 1..count + 1 /\ m.arg \in 1..count + 1
      /\ l.offset \in Nat /\ l.type \in TokenTypes /\ m.type \in TokenTypes
  BY NextReads, LenProperties DEF Reads, LexerOK, count
<1>1. m.type \in {"unknown", "space"} \/ (m.arg = l.arg /\ m.offset = l.offset + 1)
  BY NextReads
<1>2. CASE m.type \in {"unknown", "space"}
  <2>1. l.type = "unknown" => l.arg > count /\ l.arg \in Nat
    BY <1>0 DEF Reads
  <2>2. l.type = "unknown" => m.type = "unknown"
    BY <1>0, <2>1, NextStays
  <2>3. QED
    BY <1>2, <2>2
<1>3. CASE m.type \in {"arg", "equals"}
  <2>1. m.arg = l.arg /\ m.offset = l.offset + 1
    BY <1>1, <1>3
  <2>2. m.arg # count + 1
    BY <1>0, <1>3 DEF Reads
  <2>3. l.arg \in 1..count /\ l.type # "unknown"
    BY <1>0, <2>1, <2>2 DEF Reads
  <2>4. m.offset \in 1..Len(word) /\ (m.type = "equals" <=> word[m.offset] = "=")
    BY <1>0, <1>3, <2>1 DEF Reads, InWord
  <2>5. Len(word) \in Nat
    BY <2>3, ElementOfSeq, LenProperties DEF count
  <2> HIDE DEF m
  <2>6. CASE l.type = "arg"
    <3>1. l.offset \in 1..Len(word) /\ word[l.offset] # "="
      BY <2>6 DEF Reads, InWord
    <3>2. m.offset \in 2..Len(word) /\ m.offset - 1 = l.offset
      BY <1>0, <2>1, <2>4, <2>5, <3>1
    <3>3. word[m.offset] = "="
      BY <2>3, <3>1, <3>2 DEF Split
    <3>4. QED
      BY <2>3, <2>4, <2>6, <3>3 DEF m
  <2>7. CASE l.type = "equals"
    <3>1. l.offset \in 1..Len(word) /\ word[l.offset] = "="
      BY <2>7 DEF Reads, InWord
    <3>2. m.offset - 1 = l.offset
      BY <1>0, <2>1
    <3>3. word[m.offset] # "="
      BY <2>3, <2>4, <3>1, <3>2 DEF Tidy
    <3>4. QED
      BY <2>3, <2>4, <2>7, <3>3 DEF m
  <2>8. CASE l.type = "space"
    <3>1. m.offset = 1
      BY <1>0, <2>1, <2>8 DEF Reads
    <3>2. word[m.offset] # "="
      BY <2>3, <2>4, <3>1 DEF Tidy
    <3>3. QED
      BY <2>3, <2>4, <2>8, <3>2 DEF m
  <2>9. QED
    BY <1>0, <2>3, <2>6, <2>7, <2>8 DEF TokenTypes
<1>4. QED
  BY <1>0, <1>2, <1>3 DEF TokenTypes

\* Word i has been begun, and the token is not an equals sign of it.
Past(l, i) ==
    /\ Reads(l)
    /\ l.type # "equals"
    /\ IF l.type = "arg" THEN i <= l.arg ELSE i < l.arg

\* Word i has been read up to its end, or up to an equals sign.
Ahead(l, i) ==
    /\ AtWord(l)
    /\ IF l.type = "equals" THEN i <= l.arg ELSE i < l.arg

(* One token on from a text or a space.                                    *)
LEMMA PastAhead ==
  ASSUME words \in Seq(Seq(STRING)), Tidy, Split, NEW l, NEW i \in Nat, Past(l, i)
  PROVE  Ahead(next(l), i)
<1> DEFINE m == next(l)
<1>0. /\ Reads(l) /\ Reads(m) /\ count \in Nat /\ l.arg \in Nat /\ m.arg \in Nat
      /\ l.type \in TokenTypes /\ m.type \in TokenTypes
  BY NextReads, LenProperties DEF Past, Reads, LexerOK, count
<1>1. /\ l.arg <= m.arg
      /\ m.type \in {"unknown", "space"} \/ (m.arg = l.arg /\ m.offset = l.offset + 1)
      /\ l.type # "unknown" /\ m.type \in {"unknown", "space"} => m.arg = l.arg + 1
  BY <1>0, NextReads
<1>2. /\ l.type = "arg" => m.type # "arg"
      /\ l.type # "arg" => m.type # "equals"
      /\ l.type = "unknown" => m.type = "unknown"
  BY <1>0, NextTidy
<1> HIDE DEF m
<1>3. CASE l.type = "arg"
  <2>1. i <= l.arg
    BY <1>3 DEF Past
  <2>2. IF m.type = "equals" THEN i <= m.arg ELSE i < m.arg
    BY <1>0, <1>1, <1>2, <1>3, <2>1 DEF TokenTypes
  <2>3. QED
    BY <1>0, <1>2, <1>3, <2>2 DEF Ahead, AtWord, m
<1>4. CASE l.type \in {"space", "unknown"}
  <2>1. i < l.arg /\ l.offset = 0
    BY <1>0, <1>4 DEF Past, Reads
  <2>2. i < m.arg /\ m.type # "equals"
    BY <1>0, <1>1, <1>2, <1>4, <2>1
  <2>3. m.type = "arg" => m.offset = 1
    BY <1>1, <2>1
  <2>4. QED
    BY <1>0, <2>2, <2>3 DEF Ahead, AtWord, m
<1>5. QED
  BY <1>0, <1>3, <1>4 DEF Past, TokenTypes

(* One token on from what separates a name from a value.                   *)
LEMMA AheadPast ==
  ASSUME words \in Seq(Seq(STRING)), Tidy, Split, NEW l, NEW i \in Nat, Ahead(l, i),
         l.type # "arg"
  PROVE  Past(next(l), i)
<1> DEFINE m == next(l)
<1>0. /\ Reads(l) /\ Reads(m) /\ count \in Nat /\ l.arg \in Nat /\ m.arg \in Nat
      /\ l.type \in TokenTypes /\ m.type \in TokenTypes
  BY NextReads, LenProperties DEF Ahead, AtWord, Reads, LexerOK, count
<1>1. /\ l.arg <= m.arg
      /\ l.type # "unknown" /\ m.type \in {"unknown", "space"} => m.arg = l.arg + 1
  BY <1>0, NextReads
<1>2. m.type # "equals" /\ (l.type = "unknown" => m.type = "unknown")
  BY <1>0, NextTidy
<1> HIDE DEF m
<1>3. IF l.type = "equals" THEN i <= l.arg ELSE i < l.arg
  BY DEF Ahead
<1>4. IF m.type = "arg" THEN i <= m.arg ELSE i < m.arg
  BY <1>0, <1>1, <1>2, <1>3 DEF TokenTypes
<1>5. QED
  BY <1>0, <1>2, <1>4 DEF Past, m

(* The argument the loop looks at is a whole word.                         *)
LEMMA ArgumentIsWord ==
  ASSUME words \in Seq(Seq(STRING)), Tidy, Split, AtWord(lexer), Parsing
  PROVE  /\ lexer.arg \in 1..count
         /\ argument = words[lexer.arg]
         /\ Past(Here, lexer.arg)
         /\ argument # Null => Here.type = "arg" /\ Here.arg = lexer.arg /\ Here.offset = 1
<1> DEFINE i == lexer.arg
<1>0. /\ Reads(lexer) /\ count \in Nat /\ i \in 1..count + 1
      /\ lexer.type \in {"space", "arg"}
  BY LenProperties DEF AtWord, Reads, LexerOK, count, Parsing
<1>1. i \in 1..count
  BY <1>0 DEF Reads
<1>2. words[i] \in Seq(STRING) /\ SubSeq(words[i], 1, Len(words[i])) = words[i]
  BY <1>1, ElementOfSeq, SubSeqFull DEF count
<1>3. CASE lexer.type = "arg"
  <2>1. Here = lexer /\ lexer.offset = 1
    BY <1>3 DEF Here, AtWord
  <2>2. lexer.value = words[i]
    BY <1>0, <1>2, <1>3, <2>1 DEF Reads, InWord
  <2>3. QED
    BY <1>0, <1>1, <1>3, <2>1, <2>2 DEF Past, argument
<1>4. CASE lexer.type = "space"
  <2> DEFINE m == next(lexer)
  <2>1. Here = m /\ lexer.offset = 0
    BY <1>0, <1>4 DEF Here, Reads
  <2>2. /\ Reads(m) /\ m.type \in TokenTypes /\ m.type # "equals" /\ m.arg \in Nat
        /\ m.type \in {"unknown", "space"} \/ (m.arg = i /\ m.offset = 1)
        /\ m.type \in {"unknown", "space"} => m.arg = i + 1 /\ Len(words[i]) = 0
    <3>1. /\ Reads(m)
          /\ m.type \in {"unknown", "space"} \/ (m.arg = i /\ m.offset = lexer.offset + 1)
          /\ lexer.type # "unknown" /\ m.type \in {"unknown", "space"} =>
                 m.arg = i + 1 /\ lexer.offset = Len(words[i])
      BY <1>0, NextReads
    <3>2. m.type # "equals"
      BY <1>0, <1>4, NextTidy
    <3>3. m.type \in TokenTypes /\ m.arg \in Nat
      BY <1>0, <3>1 DEF Reads, LexerOK
    <3> HIDE DEF m
    <3>4. QED
      BY <1>4, <2>1, <3>1, <3>2, <3>3
  <2> HIDE DEF m
  <2>3. CASE m.type = "arg"
    <3>1. m.arg = i /\ m.offset = 1
      BY <2>2, <2>3
    <3>2. m.value = words[i]
      BY <1>2, <2>2, <2>3, <3>1 DEF Reads, InWord
    <3>3. QED
      BY <1>0, <1>1, <2>1, <2>2, <2>3, <3>1, <3>2 DEF Past, argument
  <2>4. CASE m.type \in {"unknown", "space"}
    <3>1. m.value = Null /\ words[i] = Null
      BY <1>2, <2>2, <2>4, EmptySeq DEF Reads, Null
    <3>2. i < m.arg
      BY <1>1, <2>2, <2>4
    <3>3. QED
      BY <1>1, <2>1, <2>2, <2>4, <3>1, <3>2 DEF Past, argument
  <2>5. QED
    BY <2>2, <2>3, <2>4 DEF TokenTypes
<1>5. QED
  BY <1>0, <1>3, <1>4

\* The files of a tree.
Inputs(t) == {k \in 1..Len(t) : t[k].type = "unrecognised"}

\* Every file of tree t has a place among the first n - 1 words, and its name is
\* the word at its place.
PlacesBefore(t, n) ==
    \E place \in [Inputs(t) -> 1..count] :
        /\ Increasing(place)
        /\ \A k \in Inputs(t) : t[k].value = words[place[k]] /\ place[k] < n

\* The words ahead of this one have been read, if only up to an equals sign.
Limit(l) == IF l.type = "equals" THEN l.arg + 1 ELSE l.arg

\* At an argument the tokenizer is where a word begins, and the files so far are
\* words it has passed.
WordsInv ==
    /\ words \in ArgLists
    /\ Tidy /\ result \in {"parsing", "true"} =>
           AtWord(lexer) /\ PlacesBefore(tree, Limit(lexer))

(* What is assumed of every command line.                                  *)
LEMMA ListsSplit ==
  ASSUME words \in ArgLists
  PROVE  words \in Seq(Seq(STRING)) /\ Split
<1>1. words \in Seq(Seq(STRING)) /\ DOMAIN words = 1..count
  BY ArgsAssumption, LenProperties DEF count
<1>2. QED
  BY <1>1, ArgsAssumption DEF Split

(* A node has the parts it was made of.                                    *)
LEMMA NodeParts ==
  ASSUME NEW type, NEW value, NEW parameter
  PROVE  /\ Node(type, value, parameter).type = type
         /\ Node(type, value, parameter).value = value
         /\ Node(type, value, parameter).parameter = parameter
BY DEF Node

(* A longer limit.                                                         *)
LEMMA PlacesFurther ==
  ASSUME count \in Nat, NEW t, NEW n \in Nat, NEW m \in Nat, n <= m, PlacesBefore(t, n)
  PROVE  PlacesBefore(t, m)
<1>1. PICK place \in [Inputs(t) -> 1..count] :
        /\ Increasing(place)
        /\ \A k \in Inputs(t) : t[k].value = words[place[k]] /\ place[k] < n
  BY DEF PlacesBefore
<1>2. \A k \in Inputs(t) : place[k] < m
  BY <1>1
<1>3. QED
  BY <1>1, <1>2 DEF PlacesBefore

(* An option joins the tree.                                               *)
LEMMA PlacesOption ==
  ASSUME NEW S, NEW t \in Seq(S), NEW node, node.type # "unrecognised", NEW n,
         PlacesBefore(t, n)
  PROVE  PlacesBefore(Append(t, node), n)
<1> DEFINE u == Append(t, node)
<1>1. t \in Seq(S \cup {node})
  OBVIOUS
<1>2. /\ Len(u) = Len(t) + 1 /\ u[Len(t) + 1] = node
      /\ \A k \in 1..Len(t) : u[k] = t[k]
  BY <1>1, AppendProperties
<1>3. Len(t) \in Nat
  BY LenProperties
<1> HIDE DEF u
<1>4. Inputs(u) = Inputs(t)
  BY <1>2, <1>3 DEF Inputs
<1>5. \A k \in Inputs(t) : u[k] = t[k]
  BY <1>2 DEF Inputs
<1>6. PlacesBefore(u, n)
  BY <1>4, <1>5 DEF PlacesBefore
<1>7. QED
  BY <1>6 DEF u

(* Word i joins the tree as a file.                                        *)
LEMMA PlacesFile ==
  ASSUME count \in Nat, NEW S, NEW t \in Seq(S), NEW i \in 1..count, PlacesBefore(t, i),
         NEW node, node.type = "unrecognised", node.value = words[i]
  PROVE  PlacesBefore(Append(t, node), i + 1)
<1> DEFINE u == Append(t, node)
           e == Len(t) + 1
<1>1. t \in Seq(S \cup {node})
  OBVIOUS
<1>2. Len(u) = Len(t) + 1 /\ u[Len(t) + 1] = node /\ \A k \in 1..Len(t) : u[k] = t[k]
  BY <1>1, AppendProperties
<1>3. Len(t) \in Nat
  BY LenProperties
<1> HIDE DEF u
<1>4. Inputs(u) = Inputs(t) \cup {e} /\ Inputs(t) \subseteq 1..Len(t)
  BY <1>2, <1>3 DEF Inputs
<1>5. PICK place \in [Inputs(t) -> 1..count] :
        /\ Increasing(place)
        /\ \A k \in Inputs(t) : t[k].value = words[place[k]] /\ place[k] < i
  BY DEF PlacesBefore
<1> DEFINE longer == [k \in Inputs(u) |-> IF k = e THEN i ELSE place[k]]
<1>6. \A k \in Inputs(t) : k # e /\ k < e /\ ~(e < k) /\ k \in Nat
  BY <1>3, <1>4
<1>7. longer \in [Inputs(u) -> 1..count] /\ DOMAIN longer = Inputs(u)
  BY <1>4, <1>5
<1>8. longer[e] = i /\ \A k \in Inputs(t) : longer[k] = place[k]
  BY <1>4, <1>6
<1>9. ~(e < e)
  BY <1>3
<1> HIDE DEF longer, e
<1>10. Increasing(longer)
  <2> SUFFICES ASSUME NEW j \in Inputs(u), NEW k \in Inputs(u), j < k
               PROVE  longer[j] < longer[k]
    BY <1>7 DEF Increasing
  <2>1. CASE k = e
    <3>1. j \in Inputs(t)
      BY <2>1, <1>4, <1>9
    <3>2. QED
      BY <2>1, <3>1, <1>5, <1>8
  <2>2. CASE k # e
    <3>1. k \in Inputs(t) /\ j \in Inputs(t)
      BY <2>2, <1>4, <1>6
    <3>2. place[j] < place[k]
      BY <3>1, <1>5 DEF Increasing
    <3>3. QED
      BY <3>1, <3>2, <1>8
  <2>3. QED
    BY <2>1, <2>2
<1>11. ASSUME NEW k \in Inputs(u)
       PROVE  u[k].value = words[longer[k]] /\ longer[k] < i + 1
  <2>1. CASE k = e
    BY <2>1, <1>2, <1>8 DEF e
  <2>2. CASE k # e
    <3>1. k \in Inputs(t) /\ u[k] = t[k]
      BY <2>2, <1>2, <1>4
    <3>2. place[k] \in 1..count
      BY <3>1, <1>5
    <3>3. QED
      BY <3>1, <3>2, <1>5, <1>8
  <2>3. QED
    BY <2>1, <2>2
<1>12. PlacesBefore(u, i + 1)
  BY <1>7, <1>10, <1>11 DEF PlacesBefore
<1>13. QED
  BY <1>12 DEF u

(* What is said about words alone stays true.                              *)
LEMMA WordsKept ==
  ASSUME words' = words
  PROVE  /\ Tidy' <=> Tidy
         /\ WellFormed' <=> WellFormed
         /\ count' = count
BY DEF Tidy, WellFormed, Plain, Assigned, count

(* The tokenizer has read up to l.                                         *)
LEMMA AtWordMoves ==
  ASSUME NEW l, AtWord(l), lexer' = l, words' = words
  PROVE  AtWord(lexer)'
BY DEF AtWord, Reads, InWord, LexerOK, count, Null

(* A step that reads on, and what the tree is then.                        *)
LEMMA PlacesMove ==
  ASSUME count \in Nat, NEW l, AtWord(l), lexer' = l, words' = words, WordsInv,
         NEW t, tree' = t, NEW n \in Nat, PlacesBefore(t, n), n <= Limit(l)
  PROVE  WordsInv'
<1>1. PlacesBefore(t, Limit(l))
  <2>1. l.arg \in Nat
    BY DEF AtWord, Reads, LexerOK
  <2>2. Limit(l) \in Nat
    BY <2>1 DEF Limit
  <2>3. QED
    BY <2>2, PlacesFurther
<1>2. PlacesBefore(tree, Limit(lexer))'
  BY <1>1 DEF PlacesBefore, Inputs, Limit, count, Increasing
<1>3. AtWord(lexer)'
  BY AtWordMoves
<1>4. QED
  BY <1>2, <1>3 DEF WordsInv

(* A step that leaves the tree and the tokenizer alone.                    *)
LEMMA WordsStay ==
  ASSUME WordsInv, words' = words, tree' = tree, lexer' = lexer,
         result' \in {"parsing", "true"} => result \in {"parsing", "true"}
  PROVE  WordsInv'
<1>1. Tidy /\ result \in {"parsing", "true"} =>
          AtWord(lexer)' /\ PlacesBefore(tree, Limit(lexer))'
  <2>1. SUFFICES ASSUME Tidy, result \in {"parsing", "true"}
                 PROVE  AtWord(lexer)' /\ PlacesBefore(tree, Limit(lexer))'
    OBVIOUS
  <2>2. AtWord(lexer) /\ PlacesBefore(tree, Limit(lexer))
    BY <2>1 DEF WordsInv
  <2>3. PlacesBefore(tree, Limit(lexer))'
    BY <2>2 DEF PlacesBefore, Inputs, Limit, count, Increasing
  <2>4. AtWord(lexer)'
    BY <2>2 DEF AtWord, Reads, InWord, LexerOK, count, Null
  <2>5. QED
    BY <2>3, <2>4
<1>2. QED
  BY <1>1, WordsKept DEF WordsInv

(* An argument is read: where the tokenizer is, and what joins the tree.   *)
LEMMA WordsStep ==
  ASSUME ParserInv, WordsInv, ParseStep
  PROVE  WordsInv'
<1> DEFINE i == lexer.arg
<1>0. /\ words \in Seq(Seq(STRING)) /\ Split /\ words' = words /\ count \in Nat
      /\ words \in ArgLists
  BY ListsSplit, LenProperties
     DEF WordsInv, count, ParseStep, Flag, ValuedOption, Unrecognised, InvalidToken,
         OutOfMemory, ParseEnds, Add, Refuse
<1>1. CASE ~Tidy
  BY <1>0, <1>1, WordsKept DEF WordsInv
<1>2. CASE InvalidToken \/ OutOfMemory \/ ParseEnds
  BY <1>2, WordsStay DEF InvalidToken, OutOfMemory, ParseEnds, Refuse, Parsing
<1>3. CASE Tidy /\ (Flag \/ ValuedOption \/ Unrecognised)
  <2>1. Parsing /\ result = "parsing"
    BY <1>3 DEF Flag, ValuedOption, Unrecognised, Parsing
  <2>2. /\ AtWord(lexer) /\ PlacesBefore(tree, Limit(lexer)) /\ Limit(lexer) = i
    BY <1>3, <2>1 DEF WordsInv, Parsing, Limit
  <2>3. /\ i \in 1..count /\ i \in Nat /\ argument = words[i] /\ Past(Here, i)
        /\ argument # Null => Here.type = "arg" /\ Here.arg = i /\ Here.offset = 1
    BY <1>0, <1>3, <2>1, <2>2, ArgumentIsWord
  <2>4. Ahead(next(Here), i)
    BY <1>0, <1>3, <2>3, PastAhead
  <2>5. ASSUME NEW m, Ahead(m, i) PROVE AtWord(m) /\ i <= Limit(m) /\ i + 1 <= Limit(m)
    <3>1. AtWord(m) /\ m.arg \in Nat /\ IF m.type = "equals" THEN i <= m.arg ELSE i < m.arg
      BY <2>5 DEF Ahead, AtWord, Reads, LexerOK
    <3>2. QED
      BY <2>3, <3>1 DEF Limit
  <2>6. PICK S : tree \in Seq(S)
    BY DEF ParserInv, TreeOK, IsSeq
  <2>7. OptionType \in Flags \cup Valued => argument # Null /\ OptionType # "unrecognised"
    BY DEF OptionType, Flags, Valued
  <2>8. ASSUME NEW m, Ahead(m, i), lexer' = m, NEW node, tree' = Append(tree, node),
               node.type # "unrecognised"
        PROVE  WordsInv'
    <3>1. PlacesBefore(Append(tree, node), i)
      BY <2>2, <2>6, <2>8, PlacesOption
    <3>2. AtWord(m) /\ i <= Limit(m)
      BY <2>5, <2>8
    <3>3. QED
      BY <1>0, <2>3, <2>8, <3>1, <3>2, PlacesMove
  <2>9. ASSUME NEW m, Ahead(m, i), lexer' = m, NEW node, tree' = Append(tree, node),
               node.type = "unrecognised", node.value = words[i]
        PROVE  WordsInv'
    <3>1. PlacesBefore(Append(tree, node), i + 1)
      BY <1>0, <2>2, <2>3, <2>6, <2>9, PlacesFile
    <3>2. AtWord(m) /\ i + 1 <= Limit(m) /\ i + 1 \in Nat
      BY <2>3, <2>5, <2>9
    <3>3. QED
      BY <1>0, <2>9, <3>1, <3>2, PlacesMove
  <2>10. CASE Flag
    <3>1. /\ lexer' = next(Here) /\ tree' = Append(tree, Node(OptionType, Null, Null))
          /\ OptionType # "unrecognised"
      BY <2>7, <2>10 DEF Flag, Add
    <3>2. QED
      BY <2>4, <2>8, <3>1, NodeParts
  <2>11. CASE ValuedOption
    <3> DEFINE separator == next(Here)
               value     == Value(separator)
    <3>1. OptionType # "unrecognised" /\ argument # Null
      BY <2>7, <2>11 DEF ValuedOption
    <3>2. CASE result' = "false"
      BY <1>0, <3>2, WordsKept DEF WordsInv
    <3>3. CASE result' # "false"
      <4>1. lexer' = next(value) /\ tree' = Append(tree, Node(OptionType, value.value, Null))
        BY <2>11, <3>3 DEF ValuedOption, Add, Refuse
      <4>2. separator.type # "arg"
        <5>1. Reads(Here) /\ Here.type = "arg"
          BY <2>3, <3>1 DEF Past
        <5>2. QED
          BY <1>0, <1>3, <5>1, NextTidy
      <4>3. Past(value, i)
        BY <1>0, <1>3, <2>3, <2>4, <4>2, AheadPast DEF Value
      <4>4. Ahead(next(value), i)
        BY <1>0, <1>3, <2>3, <4>3, PastAhead
      <4>5. QED
        BY <2>8, <3>1, <4>1, <4>4, NodeParts
    <3>4. QED
      BY <3>2, <3>3
  <2>12. CASE Unrecognised
    <3> DEFINE after     == next(Here)
               parameter == next(after)
    <3>1. CASE after.type # "equals"
      <4>1. lexer' = after /\ tree' = Append(tree, Node("unrecognised", argument, Null))
        BY <2>12, <3>1 DEF Unrecognised, Add
      <4>2. QED
        BY <2>3, <2>4, <2>9, <4>1, NodeParts
    <3>2. CASE after.type = "equals"
      <4>1. Past(parameter, i)
        BY <1>0, <1>3, <2>3, <2>4, <3>2, AheadPast
      <4>2. CASE parameter.type = "space"
        <5>1. lexer' = parameter /\ tree' = Append(tree, Node("unrecognised", argument, Null))
          BY <2>12, <3>2, <4>2 DEF Unrecognised, Add
        <5>2. Ahead(parameter, i)
          BY <4>1, <4>2 DEF Past, Ahead, AtWord
        <5>3. QED
          BY <2>3, <2>9, <5>1, <5>2, NodeParts
      <4>3. CASE parameter.type # "space"
        <5>1. /\ lexer' = next(parameter)
              /\ tree' = Append(tree, Node("unrecognised", argument, parameter.value))
          BY <2>12, <3>2, <4>3 DEF Unrecognised, Add
        <5>2. Ahead(next(parameter), i)
          BY <1>0, <1>3, <2>3, <4>1, PastAhead
        <5>3. QED
          BY <2>3, <2>9, <5>1, <5>2, NodeParts
      <4>4. QED
        BY <4>2, <4>3
    <3>3. QED
      BY <3>1, <3>2
  <2>13. QED
    BY <1>3, <2>10, <2>11, <2>12
<1>4. QED
  BY <1>1, <1>2, <1>3 DEF ParseStep

(* The tokenizer starts at the first word.                                 *)
LEMMA WordsStart == ASSUME ArgsInit PROVE WordsInv
<1> DEFINE start == Token(1, 0, "space", Null)
           m     == next(start)
<1>0. words \in ArgLists /\ words \in Seq(Seq(STRING)) /\ Split /\ count \in Nat
  BY ListsSplit, LenProperties DEF ArgsInit, count
<1>1. CASE words = <<>>
  BY <1>0, <1>1 DEF ArgsInit, WordsInv
<1>2. CASE words # <<>> /\ ~Tidy
  BY <1>0, <1>2 DEF WordsInv
<1>3. CASE words # <<>> /\ Tidy
  <2>1. count > 0
    BY <1>0, <1>3, EmptySeq DEF count
  <2>2. start.arg = 1 /\ start.offset = 0 /\ start.type = "space" /\ start.value = Null
    BY TokenParts
  <2>3. lexer = m
    <3>1. LET l == Token(1, 0, "unknown", Null) IN l.arg = start.arg /\ l.offset = start.offset
      BY <2>2, TokenParts
    <3> HIDE DEF start
    <3>2. next(Token(1, 0, "unknown", Null)) = m
      BY <3>1 DEF next
    <3>3. QED
      BY <3>2 DEF ArgsInit
  <2> HIDE DEF start
  <2>4. Reads(start)
    <3>1. Len(words[1]) \in Nat
      BY <1>0, <2>1, ElementOfSeq, LenProperties DEF count
    <3>2. QED
      BY <1>0, <2>1, <2>2, <3>1 DEF Reads, LexerOK, TokenTypes
  <2>5. /\ Reads(m) /\ m.type # "equals" /\ m.arg \in Nat
        /\ m.type \in {"unknown", "space"} \/ (m.arg = 1 /\ m.offset = 1)
    <3>1. Reads(m) /\ (m.type \in {"unknown", "space"} \/ (m.arg = 1 /\ m.offset = 1))
      BY <1>0, <2>2, <2>4, NextReads
    <3>2. m.type # "equals"
      BY <1>0, <1>3, <2>2, <2>4, NextTidy
    <3>3. QED
      BY <3>1, <3>2 DEF Reads, LexerOK
  <2>6. AtWord(lexer)
    BY <2>3, <2>5 DEF AtWord
  <2>7. PlacesBefore(tree, Limit(lexer))
    <3>1. tree = <<>> /\ Len(tree) = 0
      BY EmptySeq DEF ArgsInit
    <3>2. Inputs(tree) = {}
      BY <3>1 DEF Inputs
    <3>3. [k \in {} |-> 1] \in [Inputs(tree) -> 1..count] /\ Increasing([k \in {} |-> 1])
      BY <3>2 DEF Increasing
    <3>4. QED
      BY <3>2, <3>3 DEF PlacesBefore
  <2>8. QED
    BY <1>0, <2>6, <2>7 DEF WordsInv
<1>4. QED
  BY <1>1, <1>2, <1>3

(* Of the steps of the front end those of the parser change its variables. *)
LEMMA WhoParses == ASSUME [Next]_vars PROVE ParseStep \/ UNCHANGED argsVars
BY DEF Next, ConstructStep, Construct, GetAffinity, RetrieveProcessorInfo, ScanMask,
   ScanGroups, GroupAdded, RetrieveFails, PinThreadTo, vars

(* Every step keeps the files words of their own.                          *)
LEMMA WordsNext == ASSUME ParserInv, WordsInv, [Next]_vars PROVE WordsInv'
<1>1. CASE UNCHANGED argsVars
  BY <1>1, WordsStay DEF argsVars
<1>2. CASE ParseStep
  BY <1>2, WordsStep
<1>3. QED
  BY <1>1, <1>2, WhoParses

(* On a tidy command line the files of an accepted tree are words of it,   *)
(* each used once and in order.                                            *)
THEOREM FilesAreWords == Spec => []InputsAreWords
<1>1. Init => ParserInv /\ WordsInv
  BY ParserStarts, WordsStart DEF Init
<1>2. ParserInv /\ WordsInv /\ [Next]_vars => (ParserInv /\ WordsInv)'
  BY ParserStep, WordsNext
<1>3. ParserInv /\ WordsInv => InputsAreWords
  BY DEF WordsInv, PlacesBefore, Inputs, InputsAreWords
<1>4. QED
  BY <1>1, <1>2, <1>3, PTL DEF Spec

-----------------------------------------------------------------------------
(* The grammar                                                             *)

\* Word i is an option that takes the next word for its value.
Takes(i) == Plain(words[i]) /\ TypeOf(words[i]) \in Valued

\* S holds those of the first n words that are no values.
NamesTo(S, n) ==
    /\ S \subseteq 1..n
    /\ \A i \in 1..n : i \in S <=> ~(i > 1 /\ i - 1 \in S /\ Takes(i - 1))

\* Tree t is what belongs there for the names in S ahead of word n.
Listed(t, S, n) ==
    \E place \in [1..Len(t) -> S] :
        /\ Increasing(place)
        /\ {place[k] : k \in 1..Len(t)} = {j \in S : j < n}
        /\ \A k \in 1..Len(t) : t[k] = NodeOf(place[k])

\* How far the parser is in step with the words, S being the names.
InStep(S) ==
    /\ result \in {"parsing", "true"} /\ lexer.type # "equals" =>
           /\ \A j \in S : j < lexer.arg => Acceptable(j)
           /\ lexer.arg <= count => lexer.arg \in S
           /\ Listed(tree, S, lexer.arg)
    /\ result = "false" \/ lexer.type = "equals" => \E j \in S : ~Acceptable(j)
    /\ result = "true" => lexer.type = "unknown"

\* The parser is in step with the words, whatever set of them the names are.
GrammarInv == WellFormed /\ words # <<>> => \A S : NamesTo(S, count) => InStep(S)

(* The words that are no values can be told, one after the other.          *)
LEMMA NamesExist == ASSUME NEW n \in Nat PROVE \E S : NamesTo(S, n)
<1> DEFINE T == {k \in Nat : ~ \E S : NamesTo(S, k)}
<1>1. SUFFICES ASSUME T # {} PROVE FALSE
  OBVIOUS
<1>2. PICK k \in T : \A x \in T : k <= x
  BY <1>1, LeastElement
<1>3. k \in Nat /\ ~ \E S : NamesTo(S, k)
  OBVIOUS
<1>4. NamesTo({}, 0)
  BY DEF NamesTo
<1>5. k # 0
  BY <1>3, <1>4
<1>6. k - 1 \in Nat /\ ~(k <= k - 1)
  BY <1>3, <1>5
<1>7. PICK R : NamesTo(R, k - 1)
  BY <1>2, <1>6
<1> DEFINE last == ~(k > 1 /\ k - 1 \in R /\ Takes(k - 1))
           S == {i \in 1..k : IF i = k THEN last ELSE i \in R}
<1>8. /\ R \subseteq 1..k - 1
      /\ \A i \in 1..k - 1 : i \in R <=> ~(i > 1 /\ i - 1 \in R /\ Takes(i - 1))
  BY <1>7 DEF NamesTo
<1>9. k \in S <=> last
  BY <1>3, <1>5
<1>10. \A i \in 1..k - 1 : i \in S <=> i \in R
  BY <1>3
<1>11. S \subseteq 1..k
  OBVIOUS
<1> HIDE DEF S
<1>12. ASSUME NEW i \in 1..k PROVE i \in S <=> ~(i > 1 /\ i - 1 \in S /\ Takes(i - 1))
  <2>1. i > 1 => i - 1 \in 1..k - 1
    BY <1>3
  <2>2. CASE i = k
    BY <2>1, <2>2, <1>9, <1>10
  <2>3. CASE i # k
    <3>1. i \in 1..k - 1
      BY <1>3, <2>3
    <3>2. QED
      BY <2>1, <3>1, <1>8, <1>10
  <2>4. QED
    BY <2>2, <2>3
<1>13. NamesTo(S, k)
  BY <1>11, <1>12 DEF NamesTo
<1>14. QED
  BY <1>3, <1>13

(* IsValue tells the values from the names.                                *)
LEMMA ValuesKnown ==
  ASSUME count \in Nat
  PROVE  NamesTo({i \in 1..count : ~IsValue[i]}, count)
<1>1. PICK S : NamesTo(S, count)
  BY NamesExist
<1>2. \A i \in 1..count : i \in S <=> ~(i > 1 /\ i - 1 \in S /\ Takes(i - 1))
  BY <1>1 DEF NamesTo
<1> DEFINE f == [i \in 1..count |-> i \notin S]
           Step(g) == [i \in 1..count |-> /\ i > 1
                                          /\ ~g[i - 1]
                                          /\ Plain(words[i - 1])
                                          /\ TypeOf(words[i - 1]) \in Valued]
<1>3. f = Step(f)
  <2>1. ASSUME NEW i \in 1..count PROVE f[i] = Step(f)[i]
    <3>1. i > 1 => i - 1 \in 1..count
      OBVIOUS
    <3>2. i > 1 => (~f[i - 1] <=> i - 1 \in S)
      BY <3>1
    <3>3. Step(f)[i] <=> (i > 1 /\ i - 1 \in S /\ Takes(i - 1))
      BY <3>2 DEF Takes
    <3>4. f[i] <=> i \notin S
      OBVIOUS
    <3>5. f[i] <=> Step(f)[i]
      BY <3>3, <3>4, <1>2
    <3>6. QED
      BY <3>5
  <2>2. QED
    BY <2>1
<1>4. IsValue = CHOOSE g : g = Step(g)
  BY DEF IsValue
<1>5. IsValue = Step(IsValue)
  <2> HIDE DEF Step, f
  <2>1. \E g : g = Step(g)
    BY <1>3
  <2>2. QED
    BY <1>4, <2>1
<1>6. ASSUME NEW i \in 1..count
      PROVE  IsValue[i] <=> (i > 1 /\ ~IsValue[i - 1] /\ Takes(i - 1))
  BY <1>5 DEF Takes
<1> HIDE DEF f, Step
<1>7. \A i \in 1..count : i > 1 => i - 1 \in 1..count
  OBVIOUS
<1>8. QED
  BY <1>6, <1>7 DEF NamesTo

(* What the grammar says of a word stays the same.                         *)
LEMMA GrammarKept ==
  ASSUME words' = words
  PROVE  /\ \A i : NodeOf(i)' = NodeOf(i)
         /\ \A i : Acceptable(i)' <=> Acceptable(i)
         /\ \A S : NamesTo(S, count)' <=> NamesTo(S, count)
<1>1. count' = count
  BY DEF count
<1>2. ASSUME NEW i PROVE NodeOf(i)' = NodeOf(i)
  BY <1>1 DEF NodeOf, Node, ValueOf, Assigned, TypeOf, Null
<1>3. ASSUME NEW i PROVE Acceptable(i)' <=> Acceptable(i)
  BY <1>1 DEF Acceptable, Plain, ValueOf, Assigned, TypeOf, GoodValue, Null
<1>4. ASSUME NEW S PROVE NamesTo(S, count)' <=> NamesTo(S, count)
  BY <1>1 DEF NamesTo, Takes, Plain, TypeOf
<1>5. QED
  BY <1>2, <1>3, <1>4

(* name and name=value are tidy words.                                     *)
LEMMA WellFormedTidy ==
  ASSUME WellFormed, words \in Seq(Seq(STRING))
  PROVE  /\ Tidy
         /\ \A i \in 1..count : /\ words[i] # Null
                                /\ Len(words[i]) \in 1..3
                                /\ Head(words[i]) = words[i][1]
<1>1. ASSUME NEW i \in 1..count
      PROVE  /\ words[i] \in Seq(STRING) /\ words[i] # Null
             /\ Len(words[i]) \in 1..3 /\ Head(words[i]) = words[i][1]
  <2>1. words[i] \in Seq(STRING)
    BY <1>1, ElementOfSeq DEF count
  <2>2. Len(words[i]) \in {1, 3}
    BY <1>1 DEF WellFormed, Plain, Assigned
  <2>3. words[i] # Null
    <3>1. Len(<<>>) = 0
      BY EmptySeq
    <3>2. Len(words[i]) # 0
      <4>1. 0 \notin {1, 3}
        OBVIOUS
      <4>2. QED
        BY <2>2, <4>1, Zenon
    <3>3. words[i] # <<>>
      BY <3>1, <3>2
    <3>4. QED
      BY <3>3 DEF Null
  <2>4. QED
    BY <2>1, <2>2, <2>3, HeadTailProperties
<1>2. ASSUME NEW i \in 1..count, NEW k \in 1..Len(words[i]), words[i][k] = "="
      PROVE  k > 1 /\ words[i][k - 1] # "="
  <2>1. CASE Plain(words[i])
    BY <1>2, <2>1 DEF Plain
  <2>2. CASE Assigned(words[i])
    <3>1. /\ Len(words[i]) = 3 /\ words[i][1] # "=" /\ words[i][3] # "="
      BY <2>2 DEF Assigned
    <3>2. k = 2
      BY <1>2, <3>1
    <3>3. QED
      BY <3>1, <3>2
  <2>3. QED
    BY <1>2, <2>1, <2>2 DEF WellFormed
<1>3. QED
  BY <1>1, <1>2 DEF Tidy

\* What follows once word i has been read to its end.
Follows(l, i) ==
    /\ l.type = IF i = count THEN "unknown" ELSE "space"
    /\ l.arg = i + 1

(* The tokens of name.                                                     *)
LEMMA PlainRead ==
  ASSUME words \in Seq(Seq(STRING)), NEW l, Reads(l), l.type = "arg", l.offset = 1,
         Plain(words[l.arg])
  PROVE  Follows(next(l), l.arg)
<1>1. LexerOK(l) /\ l.arg <= count
  BY LenProperties DEF Reads, LexerOK, count
<1>2. l.offset = Len(words[l.arg])
  BY DEF Plain
<1>3. QED
  BY <1>1, <1>2, NextIs DEF Follows

(* The tokens of name=value.                                               *)
LEMMA AssignedRead ==
  ASSUME words \in Seq(Seq(STRING)), NEW l, Reads(l), l.type = "arg", l.offset = 1,
         Assigned(words[l.arg])
  PROVE  /\ next(l).type = "equals"
         /\ next(next(l)).type = "arg"
         /\ next(next(l)).value = <<words[l.arg][3]>>
         /\ Follows(next(next(next(l))), l.arg)
<1> DEFINE word == words[l.arg]
           e    == next(l)
           v    == next(e)
           m    == next(v)
           i    == l.arg
<1>1. LexerOK(l) /\ LexerOK(e) /\ LexerOK(v) /\ i <= count
  <2>1. count \in Nat
    BY LenProperties DEF count
  <2>2. LexerOK(l) /\ i <= count
    BY <2>1 DEF Reads, LexerOK
  <2>3. QED
    BY <2>2, NextOK
<1>2. Len(word) = 3 /\ word[2] = "=" /\ word[3] # "="
  BY DEF Assigned
<1>3. e.type = "equals" /\ e.arg = i /\ e.offset = 2
  BY <1>1, <1>2, NextIs
<1>4. LexerOK(e) /\ e.arg <= count /\ words[e.arg] = word
  BY <1>1, <1>3
<1> HIDE DEF word, e
<1>5. v.type = "arg" /\ v.arg = i /\ v.offset = 3 /\ v.value = SubSeq(word, 3, Len(word))
  <2>1. 2 # Len(word) /\ 2 + 1 = 3
    BY <1>2
  <2>2. /\ e.offset + 1 = 3 /\ e.offset # Len(word) /\ words[e.arg][3] # "="
    BY <1>2, <1>3, <1>4, <2>1
  <2>3. /\ v.type = IF words[e.arg][e.offset + 1] = "=" THEN "equals" ELSE "arg"
        /\ v.arg = e.arg /\ v.offset = e.offset + 1
        /\ v.type = "arg" => v.value = SubSeq(words[e.arg], e.offset + 1, Len(words[e.arg]))
    BY <1>4, <2>2, NextIs
  <2>4. QED
    BY <1>3, <1>4, <2>2, <2>3
<1>6. SubSeq(word, 3, Len(word)) = <<word[3]>>
  <2>1. word \in Seq(STRING)
    BY <1>1, NextIs DEF word
  <2>2. word[3] \in STRING
    <3>1. 3 \in 1..Len(word)
      BY <1>2
    <3>2. QED
      BY <2>1, <3>1, ElementOfSeq
  <2>3. /\ SubSeq(word, 3, 3) \in Seq(STRING) /\ Len(SubSeq(word, 3, 3)) = 1
        /\ SubSeq(word, 3, 3)[1] = word[3]
    <3>1. \A k \in 3..3 : word[k] \in STRING
      BY <2>2
    <3>2. 1 \in 1..3 - 3 + 1 /\ 3 + 1 - 1 = 3 /\ 3 - 3 + 1 = 1
      OBVIOUS
    <3>3. QED
      BY <3>1, <3>2, SubSeqProperties
  <2>4. <<word[3]>> \in Seq(STRING) /\ Len(<<word[3]>>) = 1 /\ <<word[3]>>[1] = word[3]
    BY <2>2
  <2>5. SubSeq(word, 3, 3) = <<word[3]>>
    <3>1. \A k \in 1..Len(SubSeq(word, 3, 3)) : SubSeq(word, 3, 3)[k] = <<word[3]>>[k]
      BY <2>3, <2>4
    <3>2. QED
      BY <2>3, <2>4, <3>1, SeqEqual
  <2>6. QED
    BY <1>2, <2>5
<1> HIDE DEF v
<1>7. Follows(m, i)
  <2>1. LexerOK(v) /\ v.arg <= count /\ v.offset = Len(words[v.arg])
    BY <1>1, <1>2, <1>5 DEF word
  <2>2. /\ m.type = IF v.arg = count THEN "unknown" ELSE "space"
        /\ m.arg = v.arg + 1
    BY <2>1, NextIs
  <2>3. QED
    BY <1>5, <2>2 DEF Follows
<1>8. QED
  BY <1>3, <1>5, <1>6, <1>7 DEF e, v, word

(* A space is followed by the word behind it.                              *)
LEMMA SpaceRead ==
  ASSUME words \in Seq(Seq(STRING)), WellFormed, NEW l, Reads(l), l.type = "space"
  PROVE  /\ l.arg \in 1..count
         /\ next(l).type = "arg" /\ next(l).arg = l.arg /\ next(l).offset = 1
         /\ next(l).value = words[l.arg]
<1>1. LexerOK(l) /\ l.arg \in 1..count /\ l.offset = 0 /\ l.arg <= count
  BY LenProperties DEF Reads, LexerOK, count
<1>2. words[l.arg] \in Seq(STRING) /\ SubSeq(words[l.arg], 1, Len(words[l.arg])) = words[l.arg]
  BY <1>1, ElementOfSeq, SubSeqFull DEF count
<1>3. Len(words[l.arg]) \in 1..3 /\ words[l.arg][1] # "="
  <2>1. Len(words[l.arg]) \in 1..3 /\ Tidy
    BY <1>1, WellFormedTidy
  <2>2. 1 \in 1..Len(words[l.arg]) /\ ~(1 > 1)
    <3>1. \A n \in 1..3 : 1 \in 1..n
      OBVIOUS
    <3>2. 1 \in 1..Len(words[l.arg])
      BY <2>1, <3>1, Zenon
    <3>3. ~(1 > 1)
      OBVIOUS
    <3>4. QED
      BY <3>2, <3>3
  <2>3. QED
    BY <1>1, <2>1, <2>2 DEF Tidy
<1>4. l.offset # Len(words[l.arg]) /\ l.offset + 1 = 1
  BY <1>1, <1>3
<1>5. QED
  BY <1>1, <1>2, <1>3, <1>4, NextIs

(* A name joins the tree.                                                  *)
LEMMA ListedGrows ==
  ASSUME NEW R, NEW t \in Seq(R), NEW S, S \subseteq Nat, NEW i \in S, NEW m,
         Listed(t, S, i), {j \in S : j < m} = {j \in S : j < i} \cup {i}
  PROVE  Listed(Append(t, NodeOf(i)), S, m)
<1> DEFINE node == NodeOf(i)
           u    == Append(t, node)
           e    == Len(t) + 1
<1>1. t \in Seq(R \cup {node})
  OBVIOUS
<1>2. Len(u) = Len(t) + 1 /\ u[Len(t) + 1] = node /\ \A k \in 1..Len(t) : u[k] = t[k]
  BY <1>1, AppendProperties
<1>3. Len(t) \in Nat
  BY LenProperties
<1> HIDE DEF u, node
<1>4. 1..Len(u) = 1..Len(t) \cup {e}
  BY <1>2, <1>3
<1>5. PICK place \in [1..Len(t) -> S] :
        /\ Increasing(place)
        /\ {place[k] : k \in 1..Len(t)} = {j \in S : j < i}
        /\ \A k \in 1..Len(t) : t[k] = NodeOf(place[k])
  BY DEF Listed
<1>6. \A k \in 1..Len(t) : k # e /\ k < e /\ ~(e < k) /\ place[k] < i
  BY <1>3, <1>5
<1>7. ~(e < e)
  BY <1>3
<1> DEFINE longer == [k \in 1..Len(u) |-> IF k = e THEN i ELSE place[k]]
<1>8. longer \in [1..Len(u) -> S] /\ DOMAIN longer = 1..Len(u)
  BY <1>4, <1>5
<1>9. longer[e] = i /\ \A k \in 1..Len(t) : longer[k] = place[k]
  BY <1>4, <1>6
<1> HIDE DEF longer, e
<1>10. Increasing(longer)
  <2> SUFFICES ASSUME NEW j \in 1..Len(u), NEW k \in 1..Len(u), j < k
               PROVE  longer[j] < longer[k]
    BY <1>8 DEF Increasing
  <2>1. CASE k = e
    <3>1. j \in 1..Len(t)
      BY <2>1, <1>4, <1>7
    <3>2. QED
      BY <2>1, <3>1, <1>6, <1>9
  <2>2. CASE k # e
    <3>1. k \in 1..Len(t)
      BY <2>2, <1>4
    <3>2. j \in 1..Len(t)
      BY <3>1, <1>4, <1>6
    <3>3. place[j] < place[k]
      BY <3>1, <3>2, <1>5 DEF Increasing
    <3>4. QED
      BY <3>1, <3>2, <3>3, <1>9
  <2>3. QED
    BY <2>1, <2>2
<1>11. {longer[k] : k \in 1..Len(u)} = {j \in S : j < i} \cup {i}
  <2>1. {longer[k] : k \in 1..Len(u)} = {longer[k] : k \in 1..Len(t)} \cup {longer[e]}
    BY <1>4
  <2>2. {longer[k] : k \in 1..Len(t)} = {place[k] : k \in 1..Len(t)}
    BY <1>9
  <2>3. QED
    BY <2>1, <2>2, <1>5, <1>9
<1>12. ASSUME NEW k \in 1..Len(u) PROVE u[k] = NodeOf(longer[k])
  <2>1. CASE k = e
    BY <2>1, <1>2, <1>9 DEF e, node
  <2>2. CASE k # e
    <3>1. k \in 1..Len(t)
      BY <2>2, <1>4
    <3>2. QED
      BY <3>1, <1>2, <1>5, <1>9
  <2>3. QED
    BY <2>1, <2>2
<1>13. Listed(u, S, m)
  BY <1>8, <1>10, <1>11, <1>12 DEF Listed
<1>14. QED
  BY <1>13 DEF u, node

(* The name the tokenizer is at joins the tree, and the tokenizer goes to  *)
(* the next name: behind the value, if the name takes one.                 *)
LEMMA NameTaken ==
  ASSUME ParserInv, words' = words, result = "parsing", result' = result,
         NEW S, NamesTo(S, count), InStep(S), lexer.type # "equals",
         lexer.arg \in S, tree' = Append(tree, NodeOf(lexer.arg)), Acceptable(lexer.arg),
         NEW m, lexer' = m, m.type # "equals",
         IF Takes(lexer.arg) THEN m.arg = lexer.arg + 2 ELSE m.arg = lexer.arg + 1
  PROVE  InStep(S)'
<1> DEFINE i == lexer.arg
<1>0. count \in Nat /\ S \subseteq 1..count /\ i \in 1..count
  BY LenProperties DEF ParserInv, count, NamesTo
<1>1. PICK n \in Nat : n = m.arg
  BY <1>0
<1>2. \A j \in 1..count : j \in S <=> ~(j > 1 /\ j - 1 \in S /\ Takes(j - 1))
  BY DEF NamesTo
<1>3. n <= count => n \in S
  <2>1. CASE Takes(i)
    <3>1. n = i + 2
      BY <2>1, <1>1
    <3>2. i + 1 <= count => i + 1 \notin S
      BY <1>0, <1>2, <2>1
    <3>3. QED
      BY <1>0, <1>2, <3>1, <3>2
  <2>2. CASE ~Takes(i)
    BY <2>2, <1>0, <1>1, <1>2
  <2>3. QED
    BY <2>1, <2>2
<1>4. {j \in S : j < n} = {j \in S : j < i} \cup {i}
  <2> SUFFICES ASSUME NEW j \in S PROVE j < n <=> (j < i \/ j = i)
    OBVIOUS
  <2>1. j \in 1..count
    BY <1>0
  <2>2. CASE Takes(i)
    <3>1. n = i + 2
      BY <2>2, <1>1
    <3>2. j # i + 1
      <4>1. SUFFICES ASSUME j = i + 1 PROVE FALSE
        OBVIOUS
      <4>2. j > 1 /\ j - 1 = i
        BY <1>0, <4>1
      <4>3. QED
        BY <1>2, <2>1, <2>2, <4>2
    <3>3. QED
      BY <1>0, <2>1, <3>1, <3>2
  <2>3. CASE ~Takes(i)
    BY <2>1, <2>3, <1>0, <1>1
  <2>4. QED
    BY <2>2, <2>3
<1>5. /\ \A j \in S : j < i => Acceptable(j)
      /\ Listed(tree, S, i)
  BY DEF InStep
<1>6. PICK R : tree \in Seq(R)
  BY DEF ParserInv, TreeOK, IsSeq
<1>7. Listed(Append(tree, NodeOf(i)), S, n)
  <2>1. S \subseteq Nat /\ i \in S
    BY <1>0
  <2> HIDE DEF i
  <2>2. QED
    BY <2>1, <1>4, <1>5, <1>6, ListedGrows
<1>8. \A j \in S : j < n => Acceptable(j)
  BY <1>4, <1>5
<1>9. PICK t : t = Append(tree, NodeOf(i))
  OBVIOUS
<1>10. Listed(tree, S, n)'
  <2>1. tree' = t /\ Listed(t, S, n)
    BY <1>7, <1>9
  <2>2. \A j : NodeOf(j)' = NodeOf(j)
    BY GrammarKept
  <2>3. QED
    BY <2>1, <2>2 DEF Listed, Increasing
<1>11. \A j : Acceptable(j)' <=> Acceptable(j)
  BY GrammarKept
<1>12. count' = count /\ lexer'.arg = n /\ lexer'.type # "equals" /\ result' = "parsing"
  BY <1>1 DEF count
<1>13. Listed(tree, S, lexer.arg)'
  BY <1>10, <1>12 DEF Listed
<1>14. QED
  BY <1>3, <1>8, <1>11, <1>12, <1>13 DEF InStep

(* Word i is a name that is not acceptable, and the parser has noticed.    *)
LEMMA NameRefused ==
  ASSUME words' = words, NEW S, NEW i \in S, ~Acceptable(i),
         result' = "false" \/ (result' # "true" /\ lexer'.type = "equals")
  PROVE  InStep(S)'
<1>1. \A j : Acceptable(j)' <=> Acceptable(j)
  BY GrammarKept
<1>2. (\E j \in S : ~Acceptable(j))'
  BY <1>1
<1>3. QED
  BY <1>2 DEF InStep

(* The loop ends, runs out of memory, or meets an equals sign.             *)
LEMMA GrammarEnds ==
  ASSUME words' = words, tree' = tree, lexer' = lexer, NEW S, InStep(S),
         \/ result = "parsing" /\ result' = "true" /\ lexer.type = "unknown"
         \/ result' = "false" /\ lexer.type = "equals"
         \/ result' = "noMemory" /\ lexer.type # "equals"
         \/ result' = result
  PROVE  InStep(S)'
<1>1. /\ \A j : Acceptable(j)' <=> Acceptable(j)
      /\ \A j : NodeOf(j)' = NodeOf(j)
      /\ count' = count
  BY GrammarKept DEF count
<1>2. Listed(tree, S, lexer.arg) => Listed(tree, S, lexer.arg)'
  BY <1>1 DEF Listed, Increasing
<1>3. QED
  BY <1>1, <1>2 DEF InStep

(* An argument is a name; what is read with it is what belongs to it.      *)
LEMMA GrammarStep ==
  ASSUME ParserInv, WordsInv, GrammarInv, ParseStep
  PROVE  GrammarInv'
<1> DEFINE i    == lexer.arg
           word == words[i]
<1>0. /\ words \in Seq(Seq(STRING)) /\ Split /\ words' = words /\ count \in Nat
  BY ListsSplit, LenProperties
     DEF WordsInv, count, ParseStep, Flag, ValuedOption, Unrecognised, InvalidToken,
         OutOfMemory, ParseEnds, Add, Refuse
<1>1. SUFFICES ASSUME WellFormed, words # <<>>, NEW S, NamesTo(S, count)
               PROVE  InStep(S)'
  BY <1>0, WordsKept, GrammarKept DEF GrammarInv
<1>2. InStep(S) /\ Tidy
  BY <1>0, <1>1, WellFormedTidy DEF GrammarInv
<1>3. CASE InvalidToken \/ OutOfMemory \/ ParseEnds
  BY <1>0, <1>2, <1>3, GrammarEnds DEF InvalidToken, OutOfMemory, ParseEnds, Refuse, Parsing
<1>4. CASE Flag \/ ValuedOption \/ Unrecognised
  <2>1. Parsing /\ result = "parsing" /\ lexer.type # "equals" /\ AtWord(lexer)
    BY <1>2, <1>4 DEF Flag, ValuedOption, Unrecognised, Parsing, WordsInv
  <2>2. /\ i \in 1..count /\ argument = word /\ Past(Here, i)
        /\ argument # Null => Here.type = "arg" /\ Here.arg = i /\ Here.offset = 1
    BY <1>0, <1>2, <2>1, ArgumentIsWord
  <2>3. argument # Null /\ Head(argument) = word[1]
    BY <1>0, <1>1, <2>2, WellFormedTidy
  <2>4. Reads(Here) /\ Here.type = "arg" /\ Here.arg = i /\ Here.offset = 1
    BY <2>2, <2>3 DEF Past
  <2>5. OptionType = TypeOf(word)
    BY <2>2, <2>3 DEF OptionType, TypeOf
  <2>6. i \in S
    BY <1>2, <2>1, <2>2 DEF InStep
  <2>7. Plain(word) \/ Assigned(word)
    BY <1>1, <2>2 DEF WellFormed
  <2>8. Plain(word) => Follows(next(Here), i) /\ ~Assigned(word)
    BY <1>0, <2>4, PlainRead DEF Plain, Assigned
  <2>9. Assigned(word) => /\ next(Here).type = "equals"
                          /\ next(next(Here)).type = "arg"
                          /\ next(next(Here)).value = <<word[3]>>
                          /\ Follows(next(next(next(Here))), i)
                          /\ ~Plain(word)
    BY <1>0, <2>4, AssignedRead DEF Plain, Assigned
  <2>10. ASSUME NEW m, Follows(m, i) PROVE m.type # "equals" /\ m.arg = i + 1
    BY <2>10 DEF Follows
  <2>11. CASE Flag
    <3>1. /\ OptionType \in Flags /\ lexer' = next(Here) /\ result' = result
          /\ tree' = Append(tree, Node(OptionType, Null, Null))
      BY <2>11 DEF Flag, Add
    <3>2. NodeOf(i) = Node(OptionType, Null, Null) /\ ~Takes(i)
      BY <2>5, <3>1 DEF NodeOf, Takes, Flags, Valued
    <3>3. Acceptable(i) <=> Plain(word)
      BY <2>5, <3>1 DEF Acceptable, Flags, Valued
    <3>4. CASE Plain(word)
      BY <1>0, <1>1, <1>2, <2>1, <2>6, <2>8, <2>10, <3>1, <3>2, <3>3, <3>4, NameTaken
    <3>5. CASE Assigned(word)
      BY <1>0, <2>1, <2>6, <2>9, <3>1, <3>3, <3>5, NameRefused
    <3>6. QED
      BY <2>7, <3>4, <3>5
  <2>12. CASE Unrecognised
    <3> DEFINE after     == next(Here)
               parameter == next(after)
    <3>1. OptionType = "unrecognised" /\ result' = result
      BY <2>12 DEF Unrecognised, Add
    <3>2. /\ ~Takes(i) /\ Acceptable(i)
          /\ NodeOf(i) = Node("unrecognised", word, IF Assigned(word) THEN ValueOf(i) ELSE Null)
      BY <2>5, <3>1 DEF NodeOf, Takes, Acceptable, Flags, Valued
    <3>3. CASE Plain(word)
      <4>1. after.type # "equals" /\ after.arg = i + 1
        BY <2>8, <2>10, <3>3
      <4>2. lexer' = after /\ tree' = Append(tree, Node("unrecognised", word, Null))
        BY <2>2, <2>12, <4>1 DEF Unrecognised, Add
      <4>3. NodeOf(i) = Node("unrecognised", word, Null)
        BY <2>8, <3>2, <3>3
      <4>4. QED
        BY <1>0, <1>1, <1>2, <2>1, <2>6, <3>1, <3>2, <4>1, <4>2, <4>3, NameTaken
    <3>4. CASE Assigned(word)
      <4>1. after.type = "equals" /\ parameter.type # "space" /\ parameter.value = <<word[3]>>
        BY <2>9, <3>4
      <4>2. /\ lexer' = next(parameter)
            /\ tree' = Append(tree, Node("unrecognised", word, parameter.value))
        BY <2>2, <2>12, <4>1 DEF Unrecognised, Add
      <4>3. NodeOf(i) = Node("unrecognised", word, parameter.value)
        BY <3>2, <3>4, <4>1 DEF ValueOf
      <4>4. next(parameter).type # "equals" /\ next(parameter).arg = i + 1
        BY <2>9, <2>10, <3>4
      <4>5. QED
        BY <1>0, <1>1, <1>2, <2>1, <2>6, <3>1, <3>2, <4>2, <4>3, <4>4, NameTaken
    <3>5. QED
      BY <2>7, <3>3, <3>4
  <2>13. CASE ValuedOption
    <3> DEFINE separator == next(Here)
               value     == Value(separator)
               type      == TypeOf(word)
    <3>1. OptionType = type /\ type \in Valued /\ type \notin Flags
      BY <2>5, <2>13 DEF ValuedOption, Valued, Flags
    <3>2. NodeOf(i) = Node(type, ValueOf(i), Null)
      BY <3>1 DEF NodeOf
    <3>3. Acceptable(i) <=> Plain(ValueOf(i)) /\ Usable(type, ValueOf(i))
      BY <3>1, UsableIsGood DEF Acceptable
    <3>4. Takes(i) <=> Plain(word)
      BY <3>1 DEF Takes
    <3>5. ASSUME value.value = ValueOf(i), separator.type # "unknown",
                 ~Usable(type, ValueOf(i))
          PROVE  InStep(S)'
      <4>1. result' = "false"
        BY <2>13, <3>1, <3>5 DEF ValuedOption, Refuse
      <4>2. ~Acceptable(i)
        BY <3>3, <3>5
      <4>3. QED
        BY <1>0, <2>6, <4>1, <4>2, NameRefused
    <3>6. ASSUME value.value = ValueOf(i), separator.type # "unknown",
                 Usable(type, ValueOf(i))
          PROVE  /\ lexer' = next(value) /\ result' = result
                 /\ tree' = Append(tree, NodeOf(i))
      BY <2>13, <3>1, <3>2, <3>6 DEF ValuedOption, Add
    <3>7. CASE Assigned(word)
      <4>1. /\ separator.type = "equals" /\ value.value = <<word[3]>> /\ Follows(next(value), i)
            /\ ~Plain(word)
        BY <2>9, <3>7 DEF Value
      <4>2. ValueOf(i) = <<word[3]>> /\ Plain(ValueOf(i))
        <5>1. ValueOf(i) = <<word[3]>>
          BY <3>7 DEF ValueOf
        <5>2. word[3] # "=" /\ Len(<<word[3]>>) = 1 /\ <<word[3]>>[1] = word[3]
          BY <3>7 DEF Assigned
        <5>3. QED
          BY <5>1, <5>2 DEF Plain
      <4>3. CASE ~Usable(type, ValueOf(i))
        BY <3>5, <4>1, <4>2, <4>3
      <4>4. CASE Usable(type, ValueOf(i))
        <5>1. /\ lexer' = next(value) /\ result' = result
              /\ tree' = Append(tree, NodeOf(i))
          BY <3>6, <4>1, <4>2, <4>4
        <5>2. next(value).type # "equals" /\ next(value).arg = i + 1 /\ ~Takes(i) /\ Acceptable(i)
          BY <2>10, <3>3, <3>4, <4>1, <4>2, <4>4
        <5>3. QED
          BY <1>0, <1>1, <1>2, <2>1, <2>6, <5>1, <5>2, NameTaken
      <4>5. QED
        BY <4>3, <4>4
    <3>8. CASE Plain(word)
      <4>1. Follows(separator, i) /\ ~Assigned(word)
        BY <2>8, <3>8
      <4>2. CASE i = count
        <5>1. separator.type = "unknown" /\ ValueOf(i) = Null
          <6>1. ~(i < count)
            BY <1>0, <4>2
          <6>2. QED
            BY <4>1, <4>2, <6>1 DEF Follows, ValueOf
        <5>2. result' = "false"
          BY <2>13, <5>1 DEF ValuedOption, Refuse
        <5>3. ~Plain(Null)
          <6>1. Len(<<>>) = 0
            BY EmptySeq
          <6>2. QED
            BY <6>1 DEF Plain, Null
        <5>4. QED
          BY <1>0, <2>6, <3>3, <5>1, <5>2, <5>3, NameRefused
      <4>3. CASE i # count
        <5>1. separator.type = "space" /\ separator.arg = i + 1 /\ Reads(separator)
          BY <1>0, <2>4, <4>1, <4>3, NextReads DEF Follows
        <5>2. /\ i + 1 \in 1..count
              /\ value.type = "arg" /\ value.arg = i + 1 /\ value.offset = 1
              /\ value.value = words[i + 1]
              /\ Reads(value)
          BY <1>0, <1>1, <5>1, SpaceRead, NextReads DEF Value
        <5>3. i < count
          BY <1>0, <2>2, <5>2
        <5>4. ValueOf(i) = words[i + 1] /\ value.value = ValueOf(i)
          BY <4>1, <5>2, <5>3 DEF ValueOf
        <5>5. CASE ~Usable(type, ValueOf(i))
          BY <3>5, <5>1, <5>4, <5>5
        <5>6. CASE Usable(type, ValueOf(i))
          <6>1. /\ lexer' = next(value) /\ result' = result
                /\ tree' = Append(tree, NodeOf(i))
            BY <3>6, <5>1, <5>4, <5>6
          <6>2. CASE Plain(words[i + 1])
            <7>1. Follows(next(value), i + 1)
              BY <1>0, <5>2, <6>2, PlainRead
            <7>2. next(value).type # "equals" /\ next(value).arg = i + 2
              BY <1>0, <2>2, <7>1 DEF Follows
            <7>3. Takes(i) /\ Acceptable(i)
              BY <3>3, <3>4, <3>8, <5>4, <5>6, <6>2
            <7>4. QED
              BY <1>0, <1>1, <1>2, <2>1, <2>6, <6>1, <7>2, <7>3, NameTaken
          <6>3. CASE Assigned(words[i + 1])
            <7>1. next(value).type = "equals"
              BY <1>0, <5>2, <6>3, AssignedRead
            <7>2. ~Acceptable(i)
              BY <3>3, <5>4, <6>3 DEF Plain, Assigned
            <7>3. QED
              BY <1>0, <2>1, <2>6, <6>1, <7>1, <7>2, NameRefused
          <6>4. QED
            BY <1>1, <5>2, <6>2, <6>3 DEF WellFormed
        <5>7. QED
          BY <5>5, <5>6
      <4>4. QED
        BY <4>2, <4>3
    <3>9. QED
      BY <2>7, <3>7, <3>8
  <2>14. QED
    BY <1>4, <2>11, <2>12, <2>13
<1>5. QED
  BY <1>3, <1>4 DEF ParseStep

(* Nothing is read, and the first word is a name.                          *)
LEMMA GrammarStart == ASSUME ArgsInit, WordsInv PROVE GrammarInv
<1>0. words \in Seq(Seq(STRING)) /\ count \in Nat
  BY ListsSplit, LenProperties DEF WordsInv, count
<1>1. SUFFICES ASSUME WellFormed, words # <<>>, NEW S, NamesTo(S, count)
               PROVE  InStep(S)
  BY DEF GrammarInv
<1> DEFINE start == Token(1, 0, "unknown", Null)
<1>2. count > 0
  BY <1>0, <1>1, EmptySeq DEF count
<1>3. Tidy /\ Len(words[1]) \in 1..3 /\ result = "parsing" /\ tree = <<>>
  BY <1>0, <1>1, <1>2, WellFormedTidy DEF ArgsInit
<1>4. words[1][1] # "="
  <2>1. \A n \in 1..3 : 1 \in 1..n
    OBVIOUS
  <2>2. 1 \in 1..Len(words[1])
    BY <1>3, <2>1, Zenon
  <2>3. ~(1 > 1) /\ 1 \in 1..count
    BY <1>0, <1>2
  <2>4. QED
    BY <1>3, <2>2, <2>3 DEF Tidy
<1>5. lexer.type = "arg" /\ lexer.arg = 1
  <2>1. start.arg = 1 /\ start.offset = 0 /\ start.type = "unknown"
    BY TokenParts
  <2>2. LexerOK(start) /\ start.offset # Len(words[1])
    <3>1. \A n \in 1..3 : 0 <= n /\ 0 # n
      OBVIOUS
    <3>2. 0 <= Len(words[1]) /\ 0 # Len(words[1])
      BY <1>3, <3>1, Zenon
    <3>3. QED
      BY <1>0, <1>2, <2>1, <3>2 DEF LexerOK, TokenTypes
  <2>3. lexer = next(start)
    BY DEF ArgsInit
  <2> HIDE DEF start
  <2>4. /\ next(start).type = IF words[start.arg][start.offset + 1] = "=" THEN "equals" ELSE "arg"
        /\ next(start).arg = start.arg
    <3>1. start.arg <= count /\ start.offset # Len(words[start.arg])
      BY <1>0, <1>2, <2>1, <2>2
    <3>2. QED
      BY <1>0, <2>2, <3>1, NextIs
  <2>5. QED
    BY <1>4, <2>1, <2>3, <2>4
<1>6. /\ S \subseteq 1..count /\ 1 \in S
  BY <1>0, <1>1, <1>2 DEF NamesTo
<1>7. Listed(tree, S, 1)
  <2>1. Len(tree) = 0
    BY <1>3, EmptySeq
  <2>2. 1..Len(tree) = {}
    BY <2>1
  <2>3. [k \in {} |-> 1] \in [1..Len(tree) -> S] /\ Increasing([k \in {} |-> 1])
    BY <2>2 DEF Increasing
  <2>4. {j \in S : j < 1} = {}
    <3>1. \A j \in S : ~(j < 1)
      BY <1>0, <1>6
    <3>2. QED
      BY <3>1, Zenon
  <2>5. QED
    BY <2>2, <2>3, <2>4 DEF Listed
<1>8. \A j \in S : ~(j < 1)
  BY <1>0, <1>6
<1>9. QED
  BY <1>3, <1>5, <1>6, <1>7, <1>8 DEF InStep

(* Every step keeps the parser in step with the words.                     *)
LEMMA GrammarNext == ASSUME ParserInv, WordsInv, GrammarInv, [Next]_vars PROVE GrammarInv'
<1>1. CASE UNCHANGED argsVars
  <2>1. words' = words /\ tree' = tree /\ lexer' = lexer /\ result' = result
    BY <1>1 DEF argsVars
  <2>2. SUFFICES ASSUME WellFormed, words # <<>>, NEW S, NamesTo(S, count)
                 PROVE  InStep(S)'
    BY <2>1, WordsKept, GrammarKept DEF GrammarInv
  <2>3. InStep(S)
    BY <2>2 DEF GrammarInv
  <2>4. QED
    BY <2>1, <2>3, GrammarEnds
<1>2. CASE ParseStep
  BY <1>2, GrammarStep
<1>3. QED
  BY <1>1, <1>2, WhoParses

(* The invariants give what the grammar says of an accepted and of a       *)
(* refused command line.                                                   *)
LEMMA GrammarMet == ASSUME ParserInv, WordsInv, GrammarInv PROVE ParsesItsGrammar
<1> DEFINE names == {i \in 1..count : ~IsValue[i]}
<1>1. count \in Nat /\ words \in Seq(Seq(STRING))
  BY LenProperties DEF ParserInv, count
<1>2. SUFFICES ASSUME words # <<>>, WellFormed, result \in {"true", "false"}
               PROVE  /\ result = "true" <=> \A i \in names : Acceptable(i)
                      /\ result = "true" => \E place \in [1..Len(tree) -> names] :
                             /\ Increasing(place)
                             /\ {place[k] : k \in 1..Len(tree)} = names
                             /\ \A k \in 1..Len(tree) : tree[k] = NodeOf(place[k])
  BY DEF ParsesItsGrammar
<1>3. NamesTo(names, count)
  BY <1>1, ValuesKnown
<1>4. names \subseteq 1..count
  OBVIOUS
<1> HIDE DEF names
<1>5. InStep(names)
  BY <1>2, <1>3 DEF GrammarInv
<1>6. CASE result = "false"
  BY <1>5, <1>6 DEF InStep
<1>7. CASE result = "true"
  <2>1. lexer.type = "unknown" /\ AtWord(lexer)
    BY <1>1, <1>2, <1>5, <1>7, WellFormedTidy DEF InStep, WordsInv
  <2>2. lexer.arg = count + 1
    BY <2>1 DEF AtWord, Reads
  <2>3. {j \in names : j < lexer.arg} = names /\ \A j \in names : j < lexer.arg
    <3>1. \A j \in names : j < count + 1
      BY <1>1, <1>4
    <3>2. QED
      BY <2>2, <3>1
  <2>4. Listed(tree, names, lexer.arg) /\ \A j \in names : Acceptable(j)
    BY <1>5, <1>7, <2>1, <2>3 DEF InStep
  <2>5. QED
    BY <1>7, <2>3, <2>4 DEF Listed
<1>8. QED
  BY <1>2, <1>6, <1>7

(* parseArguments() reads a command line of names and name=value words     *)
(* token by token as its grammar reads it word by word.                    *)
THEOREM GrammarFollowed == Spec => []ParsesItsGrammar
<1>1. Init => ParserInv /\ WordsInv /\ GrammarInv
  BY ParserStarts, WordsStart, GrammarStart DEF Init
<1>2. ParserInv /\ WordsInv /\ GrammarInv /\ [Next]_vars => (ParserInv /\ WordsInv /\ GrammarInv)'
  BY ParserStep, WordsNext, GrammarNext
<1>3. ParserInv /\ WordsInv /\ GrammarInv => ParsesItsGrammar
  BY GrammarMet
<1>4. QED
  BY <1>1, <1>2, <1>3, PTL DEF Spec

-----------------------------------------------------------------------------
(* The processors                                                          *)

Phases == {"args", "retrieve", "scan", "ready", "threw"}

\* The types of what the constructor of affinity_t works on.
MachineOK ==
    /\ phase \in Phases
    /\ system \in {"linux", "windows"}
    /\ groups \in Seq(Masks) /\ Len(groups) <= MaxGroups
    /\ room \in 0..MaxGroups
    /\ info \in Seq(SUBSET (0..MaskBits - 1))
    /\ group \in 0..Len(info)
    /\ bit \in 0..MaskBits
    /\ seen \in Nat
    /\ processors \in Seq(Processors)

\* How far the constructor is: what it copied from the kernel, and that the
\* processors found are behind the scan.
ScanInv ==
    /\ phase \in {"args", "retrieve"} => processors = <<>> /\ group = 0 /\ bit = 0
    /\ phase = "retrieve" /\ system = "linux" => Len(groups) = 1
    /\ phase = "scan" =>
          /\ system = "linux" => /\ Len(groups) = 1 /\ Len(info) = 1 /\ group = 0
                                 /\ info[1] \subseteq groups[1]
          /\ system = "windows" => info = groups /\ bit < MaskBits
          /\ \A k \in 1..Len(processors) : Before(processors[k], <<group, bit>>)

\* The list holds processors of the machine, in ascending order.
ListInv ==
    /\ \A k \in 1..Len(processors) : processors[k] \in Available
    /\ \A j, k \in 1..Len(processors) : j < k => Before(processors[j], processors[k])

\* A worker is on its own processor, on any of the machine, or on its way.
PinnedInv ==
    /\ phase = "ready" =>
          /\ pinned \in [Workers -> SUBSET Processors]
          /\ \A w \in Workers : pinned[w] \in {NotPinned, {processors[w]}, Available}
    /\ phase # "ready" => pinned = <<>>

AffinityInv == MachineOK /\ ScanInv /\ ListInv /\ PinnedInv

(* A list that does not grow, on a machine that does not.                  *)
LEMMA ListKept ==
  ASSUME ListInv, UNCHANGED <<processors, groups>>
  PROVE  ListInv'
BY DEF ListInv, Available, Before, Processors

(* A processor behind all others joins the list.                           *)
LEMMA ListGrows ==
  ASSUME processors \in Seq(Processors), ListInv, groups' = groups,
         NEW p \in Available, processors' = Append(processors, p),
         \A k \in 1..Len(processors) : Before(processors[k], p)
  PROVE  /\ ListInv'
         /\ processors' \in Seq(Processors)
         /\ Len(processors') = Len(processors) + 1
         /\ \A k \in 1..Len(processors) : processors'[k] = processors[k]
         /\ processors'[Len(processors) + 1] = p
<1>1. p \in Processors /\ Len(processors) \in Nat
  BY LenProperties DEF Available
<1>2. /\ processors' \in Seq(Processors)
      /\ Len(processors') = Len(processors) + 1
      /\ \A k \in 1..Len(processors) : processors'[k] = processors[k]
      /\ processors'[Len(processors) + 1] = p
  BY <1>1, AppendProperties
<1>3. Available' = Available
  BY DEF Available, Processors
<1>4. \A k \in 1..Len(processors') : processors'[k] \in Available
  <2> SUFFICES ASSUME NEW k \in 1..Len(processors') PROVE processors'[k] \in Available
    OBVIOUS
  <2>1. k \in 1..Len(processors) \/ k = Len(processors) + 1
    BY <1>1, <1>2
  <2>2. QED
    BY <2>1, <1>2 DEF ListInv
<1>5. ASSUME NEW j \in 1..Len(processors'), NEW k \in 1..Len(processors'), j < k
      PROVE  Before(processors'[j], processors'[k])
  <2>1. j \in 1..Len(processors) /\ (k \in 1..Len(processors) \/ k = Len(processors) + 1)
    BY <1>1, <1>2, <1>5
  <2>2. QED
    BY <2>1, <1>2, <1>5 DEF ListInv
<1>6. ListInv'
  BY <1>3, <1>4, <1>5 DEF ListInv, Before
<1>7. QED
  BY <1>2, <1>6

(* Moving the scan ahead passes the processors found and the one it was at. *)
LEMMA ScanAhead ==
  ASSUME NEW g \in Nat, NEW b \in Nat, NEW h \in Nat, NEW c \in Nat,
         \/ h = g /\ c = b + 1
         \/ h = g + 1 /\ c = 0
  PROVE  /\ Before(<<g, b>>, <<h, c>>)
         /\ \A p \in Processors : Before(p, <<g, b>>) => Before(p, <<h, c>>)
BY AffinityAssumption DEF Before, Processors

(* The constructor starts with nothing.                                    *)
LEMMA AffinityStarts == ASSUME Init PROVE AffinityInv
<1>1. /\ processors = <<>> /\ groups = <<>> /\ info = <<>>
      /\ Len(processors) = 0 /\ Len(groups) = 0 /\ Len(info) = 0
  BY DEF Init
<1>2. processors \in Seq(Processors) /\ groups \in Seq(Masks) /\ info \in Seq(SUBSET (0..MaskBits - 1))
  BY <1>1, EmptySeq
<1>3. MachineOK
  BY <1>1, <1>2, AffinityAssumption DEF Init, MachineOK, Phases
<1>4. ScanInv /\ ListInv /\ PinnedInv
  BY <1>1 DEF Init, ScanInv, ListInv, PinnedInv
<1>5. QED
  BY <1>3, <1>4 DEF AffinityInv

(* A step that does not touch the constructor's state.                     *)
LEMMA AffinityKept ==
  ASSUME AffinityInv, UNCHANGED <<phase, scanVars, group, bit, seen, processors, pinned>>
  PROVE  AffinityInv'
<1>1. ListInv'
  BY ListKept DEF AffinityInv, scanVars
<1>2. MachineOK' /\ ScanInv'
  BY DEF AffinityInv, MachineOK, ScanInv, scanVars, Phases, Before, Processors
<1>3. PinnedInv'
  BY DEF AffinityInv, PinnedInv, scanVars, Processors, Available, Workers, NotPinned
<1>4. QED
  BY <1>1, <1>2, <1>3 DEF AffinityInv

(* An empty list of processors says nothing about the machine.             *)
LEMMA ListEmpty ==
  ASSUME processors' = <<>>
  PROVE  ListInv' /\ \A q : \A k \in 1..Len(processors') : Before(processors'[k], q)
BY DEF ListInv

(* The affinity_t of a pool begins.                                        *)
LEMMA ConstructKeeps == ASSUME AffinityInv, Construct PROVE AffinityInv'
<1>1. processors' = <<>> /\ processors = <<>> /\ group = 0 /\ bit = 0
  BY DEF Construct, AffinityInv, ScanInv
<1>2. PICK mask \in Masks : groups' = <<mask>>
  BY DEF Construct
<1>3. groups' \in Seq(Masks) /\ Len(groups') = 1
  BY <1>2
<1>4. MachineOK'
  BY <1>3, AffinityAssumption DEF Construct, AffinityInv, MachineOK, Phases, Processors
<1>5. ScanInv'
  BY <1>1, <1>3 DEF Construct, ScanInv
<1>6. PinnedInv'
  BY DEF Construct, AffinityInv, PinnedInv
<1>7. QED
  BY <1>1, <1>4, <1>5, <1>6, ListEmpty DEF AffinityInv

(* The kernel's masks are sequences of sets of bits.                       *)
LEMMA GroupsAreMasks ==
  ASSUME groups \in Seq(Masks)
  PROVE  groups \in Seq(SUBSET (0..MaskBits - 1))
BY AffinityAssumption, SeqDef, ElementOfSeq

(* sched_getaffinity() or retrieveProcessorInfo() has succeeded.           *)
LEMMA ScanBegins ==
  ASSUME AffinityInv, phase = "retrieve", phase' = "scan", info' = groups,
         UNCHANGED <<system, groups, room, group, bit, seen, processors, pinned>>
  PROVE  AffinityInv'
<1>1. processors' = <<>> /\ processors = <<>> /\ group = 0 /\ bit = 0
  BY DEF AffinityInv, ScanInv
<1>2. info' \in Seq(SUBSET (0..MaskBits - 1)) /\ Len(groups) \in Nat
  BY GroupsAreMasks, LenProperties DEF AffinityInv, MachineOK
<1>3. MachineOK'
  BY <1>1, <1>2 DEF AffinityInv, MachineOK, Phases, Processors
<1>4. ScanInv'
  <2>1. bit' < MaskBits
    BY <1>1, AffinityAssumption
  <2>2. system = "linux" => Len(groups) = 1
    BY DEF AffinityInv, ScanInv
  <2>3. \A k \in 1..Len(processors') : Before(processors'[k], <<group', bit'>>)
    BY <1>1
  <2>4. QED
    BY <1>1, <2>1, <2>2, <2>3 DEF ScanInv, Before
<1>5. PinnedInv'
  BY DEF AffinityInv, PinnedInv
<1>6. QED
  BY <1>1, <1>3, <1>4, <1>5, ListEmpty DEF AffinityInv

(* A call that fails, a buffer that grows, or a group that appears.        *)
LEMMA RetrieveKeeps ==
  ASSUME AffinityInv, GetAffinity \/ RetrieveProcessorInfo \/ GroupAdded \/ RetrieveFails
  PROVE  AffinityInv'
<1>1. CASE GetAffinity
  BY <1>1, ScanBegins DEF GetAffinity
<1>2. CASE RetrieveProcessorInfo
  <2>1. CASE Len(groups) > room
    <3>1. room' \in 0..MaxGroups
      BY <1>2, <2>1, LenProperties DEF RetrieveProcessorInfo, Grown, AffinityInv, MachineOK
    <3>2. ListInv'
      BY <1>2, ListKept DEF RetrieveProcessorInfo, AffinityInv
    <3>3. MachineOK' /\ ScanInv' /\ PinnedInv'
      BY <1>2, <2>1, <3>1 DEF RetrieveProcessorInfo, AffinityInv, MachineOK, ScanInv, PinnedInv,
         Processors, Phases
    <3>4. QED
      BY <3>2, <3>3 DEF AffinityInv
  <2>2. CASE ~(Len(groups) > room)
    BY <1>2, <2>2, ScanBegins DEF RetrieveProcessorInfo
  <2>3. QED
    BY <2>1, <2>2
<1>3. CASE GroupAdded
  <2>1. PICK mask \in Masks : groups' = Append(groups, mask)
    BY <1>3 DEF GroupAdded
  <2>2. groups' \in Seq(Masks) /\ Len(groups') <= MaxGroups
    BY <1>3, <2>1, AppendProperties, LenProperties, AffinityAssumption
       DEF GroupAdded, AffinityInv, MachineOK
  <2>3. processors' = <<>>
    BY <1>3 DEF GroupAdded, AffinityInv, ScanInv
  <2>4. MachineOK' /\ ScanInv' /\ PinnedInv'
    BY <1>3, <2>2 DEF GroupAdded, AffinityInv, MachineOK, ScanInv, PinnedInv, Processors, Phases
  <2>5. QED
    BY <2>3, <2>4, ListEmpty DEF AffinityInv
<1>4. CASE RetrieveFails
  <2>1. ListInv'
    BY <1>4, ListKept DEF RetrieveFails, AffinityInv, scanVars
  <2>2. MachineOK' /\ ScanInv' /\ PinnedInv'
    BY <1>4 DEF RetrieveFails, AffinityInv, MachineOK, ScanInv, PinnedInv, Processors, Phases,
       scanVars
  <2>3. QED
    BY <2>1, <2>2 DEF AffinityInv
<1>5. QED
  BY <1>1, <1>2, <1>3, <1>4

(* The masks are scanned and the workers can start.                        *)
LEMMA ScanEnds ==
  ASSUME AffinityInv, phase' = "ready", pinned' = [w \in Workers |-> NotPinned],
         UNCHANGED <<scanVars, group, bit, seen, processors>>
  PROVE  AffinityInv'
<1>1. ListInv'
  BY ListKept DEF AffinityInv, scanVars
<1>2. MachineOK' /\ ScanInv'
  BY DEF AffinityInv, MachineOK, ScanInv, scanVars, Phases, Processors
<1>3. Workers' = Workers
  BY DEF Workers
<1>4. /\ pinned' \in [Workers' -> SUBSET Processors]
      /\ \A w \in Workers' : pinned'[w] = NotPinned
  BY <1>3 DEF NotPinned
<1>5. PinnedInv'
  BY <1>4 DEF PinnedInv, NotPinned, Processors
<1>6. QED
  BY <1>1, <1>2, <1>5 DEF AffinityInv

(* A turn of a loop over a mask: the scan moves ahead, and the processor   *)
(* it was at may have joined.                                              *)
LEMMA ScanTurn ==
  ASSUME AffinityInv, phase = "scan",
         UNCHANGED <<phase, system, groups, room, pinned>>,
         bit \in Nat, bit' \in 0..MaskBits, group \in Nat, group' \in 0..Len(info'), seen' \in Nat,
         \/ group' = group /\ bit' = bit + 1
         \/ group' = group + 1 /\ bit' = 0,
         info' \in Seq(SUBSET (0..MaskBits - 1)),
         system = "linux" => Len(info') = 1 /\ group' = 0 /\ info'[1] \subseteq groups[1],
         system = "windows" => info' = groups /\ bit' < MaskBits,
         \/ processors' = processors
         \/ <<group, bit>> \in Available /\ processors' = Append(processors, <<group, bit>>)
  PROVE  AffinityInv'
<1> DEFINE here  == <<group, bit>>
           ahead == <<group', bit'>>
<1>1. /\ Before(here, ahead)
      /\ \A p \in Processors : Before(p, here) => Before(p, ahead)
  BY ScanAhead, LenProperties
<1>2. /\ processors \in Seq(Processors) /\ Len(processors) \in Nat
      /\ \A k \in 1..Len(processors) : processors[k] \in Processors /\ Before(processors[k], here)
  BY ElementOfSeq, LenProperties DEF AffinityInv, MachineOK, ScanInv
<1>3. /\ ListInv'
      /\ processors' \in Seq(Processors)
      /\ \A k \in 1..Len(processors') : Before(processors'[k], ahead)
  <2>1. CASE processors' = processors
    BY <2>1, <1>1, <1>2, ListKept DEF AffinityInv
  <2>2. CASE here \in Available /\ processors' = Append(processors, here)
    <3>1. /\ ListInv'
          /\ processors' \in Seq(Processors)
          /\ Len(processors') = Len(processors) + 1
          /\ \A k \in 1..Len(processors) : processors'[k] = processors[k]
          /\ processors'[Len(processors) + 1] = here
      BY <2>2, <1>2, ListGrows DEF AffinityInv
    <3>2. \A k \in 1..Len(processors') : k \in 1..Len(processors) \/ k = Len(processors) + 1
      BY <3>1, <1>2
    <3>3. QED
      BY <3>1, <3>2, <1>1, <1>2
  <2>3. QED
    BY <2>1, <2>2
<1>4. MachineOK'
  BY <1>3 DEF AffinityInv, MachineOK, Phases, Processors
<1>5. ScanInv'
  BY <1>3 DEF AffinityInv, ScanInv, Before
<1>6. PinnedInv'
  BY DEF AffinityInv, PinnedInv
<1>7. QED
  BY <1>3, <1>4, <1>5, <1>6 DEF AffinityInv

(* The loop over the mask of a Linux process.                              *)
LEMMA ScanMaskKeeps == ASSUME AffinityInv, ScanMask PROVE AffinityInv'
<1>1. /\ phase = "scan" /\ system = "linux" /\ group = 0 /\ group' = 0
      /\ Len(groups) = 1 /\ Len(info) = 1 /\ info[1] \subseteq groups[1]
      /\ bit \in 0..MaskBits /\ MaskBits \in Nat /\ MaxGroups \in Nat \ {0}
      /\ info \in Seq(SUBSET (0..MaskBits - 1))
      /\ UNCHANGED <<system, groups, room, seen>>
      /\ seen \in Nat
  BY AffinityAssumption DEF ScanMask, AffinityInv, ScanInv, MachineOK
<1>2. info[1] \in SUBSET (0..MaskBits - 1)
  BY <1>1, ElementOfSeq
<1>3. CASE /\ bit < MaskBits /\ bit \in info[1]
           /\ processors' = IF Keep(bit) THEN Append(processors, <<0, bit>>) ELSE processors
           /\ info' = <<info[1] \ {bit}>>
           /\ bit' = bit + 1
           /\ UNCHANGED <<phase, pinned>>
  <2>1. <<0, bit>> \in Available
    BY <1>1, <1>3 DEF Available, Processors
  <2>2. /\ info' \in Seq(SUBSET (0..MaskBits - 1))
        /\ Len(info') = 1 /\ info'[1] \subseteq groups[1]
    BY <1>1, <1>2, <1>3
  <2>3. bit' \in 0..MaskBits
    BY <1>1, <1>3
  <2>4. processors' = processors \/ processors' = Append(processors, <<group, bit>>)
    BY <1>1, <1>3
  <2>5. group' \in 0..Len(info')
    BY <1>1, <2>2
  <2>6. QED
    BY <1>1, <1>3, <2>1, <2>2, <2>3, <2>4, <2>5, ScanTurn
<1>4. CASE /\ bit < MaskBits /\ bit \notin info[1] /\ info[1] # {}
           /\ bit' = bit + 1
           /\ UNCHANGED <<phase, info, processors, pinned>>
  BY <1>1, <1>4, ScanTurn
<1>5. CASE /\ phase' = "ready"
           /\ pinned' = [w \in Workers |-> NotPinned]
           /\ UNCHANGED <<info, bit, processors>>
  BY <1>1, <1>5, ScanEnds DEF scanVars
<1>6. QED
  BY <1>3, <1>4, <1>5 DEF ScanMask

(* The loops over the groups of a Windows machine.                         *)
LEMMA ScanGroupsKeeps == ASSUME AffinityInv, ScanGroups PROVE AffinityInv'
<1>1. /\ phase = "scan" /\ system = "windows"
      /\ info = groups /\ bit \in 0..MaskBits - 1 /\ group \in 0..Len(groups)
      /\ MaskBits \in Nat \ {0} /\ MaxGroups \in Nat \ {0}
      /\ Len(groups) \in Nat /\ Len(groups) <= MaxGroups
      /\ info \in Seq(SUBSET (0..MaskBits - 1))
      /\ UNCHANGED <<system, groups, room, info>>
      /\ seen \in Nat
  BY AffinityAssumption, LenProperties DEF ScanGroups, AffinityInv, ScanInv, MachineOK, scanVars
<1>2. CASE group = Len(info)
  BY <1>1, <1>2, ScanEnds DEF ScanGroups
<1>3. CASE group # Len(info)
  <2> DEFINE mask == info[group + 1]
             last == bit = MaskBits - 1 \/ \A b \in mask : b <= bit
  <2>1. /\ processors' = IF bit \in mask /\ Keep(seen)
                         THEN Append(processors, <<group, bit>>) ELSE processors
        /\ seen' = IF bit \in mask THEN seen + 1 ELSE seen
        /\ bit' = IF last THEN 0 ELSE bit + 1
        /\ group' = IF last THEN group + 1 ELSE group
        /\ UNCHANGED <<phase, pinned>>
    BY <1>3 DEF ScanGroups, Processor
  <2>2. bit \in mask => <<group, bit>> \in Available
    BY <1>1, <1>3 DEF Available, Processors
  <2>3. bit = MaskBits - 1 => last
    OBVIOUS
  <2> HIDE DEF mask, last
  <2>4. /\ \/ processors' = processors
           \/ <<group, bit>> \in Available /\ processors' = Append(processors, <<group, bit>>)
        /\ seen' \in Nat
    BY <2>1, <2>2, <1>1
  <2>5. /\ bit' \in 0..MaskBits - 1
        /\ group' \in 0..Len(info)
        /\ \/ group' = group /\ bit' = bit + 1
           \/ group' = group + 1 /\ bit' = 0
    BY <2>1, <2>3, <1>1, <1>3
  <2>6. QED
    BY <1>1, <2>1, <2>4, <2>5, ScanTurn
<1>4. QED
  BY <1>2, <1>3

(* A worker pins itself.                                                   *)
LEMMA PinKeeps == ASSUME AffinityInv, NEW w \in Workers, PinThreadTo(w) PROVE AffinityInv'
<1>1. PICK where \in {{processors[w]}, Available} : pinned' = [pinned EXCEPT ![w] = where]
  BY DEF PinThreadTo
<1>2. /\ phase = "ready" /\ phase' = "ready"
      /\ UNCHANGED <<scanVars, group, bit, seen, processors>>
      /\ Workers' = Workers
  BY DEF PinThreadTo, Workers
<1>3. where \subseteq Processors
  BY ElementOfSeq DEF AffinityInv, MachineOK, Available, Workers
<1>4. /\ pinned' \in [Workers -> SUBSET Processors]
      /\ \A v \in Workers : pinned'[v] \in {NotPinned, {processors[v]}, Available}
  BY <1>1, <1>2, <1>3 DEF AffinityInv, PinnedInv
<1>5. Available' = Available
  BY <1>2 DEF Available, Processors, scanVars
<1>6. PinnedInv'
  BY <1>2, <1>4, <1>5 DEF PinnedInv, NotPinned, Processors
<1>7. ListInv'
  BY <1>2, ListKept DEF AffinityInv, scanVars
<1>8. MachineOK' /\ ScanInv'
  BY <1>2 DEF AffinityInv, MachineOK, ScanInv, scanVars, Phases, Processors
<1>9. QED
  BY <1>6, <1>7, <1>8 DEF AffinityInv

(* Every step of the front end keeps AffinityInv.                          *)
LEMMA AffinityStep == ASSUME AffinityInv, [Next]_vars PROVE AffinityInv'
<1>1. CASE UNCHANGED <<phase, scanVars, group, bit, seen, processors, pinned>>
  BY <1>1, AffinityKept
<1>2. CASE ConstructStep \/ GroupAdded \/ RetrieveFails
  BY <1>2, ConstructKeeps, RetrieveKeeps, ScanMaskKeeps, ScanGroupsKeeps DEF ConstructStep
<1>3. CASE \E w \in Workers : PinThreadTo(w)
  BY <1>3, PinKeeps
<1>4. QED
  BY <1>1, <1>2, <1>3 DEF Next, vars

(* The state of the parser and of affinity_t is always well formed: the    *)
(* tokenizer stays inside the words, the scan inside the masks.            *)
THEOREM FrontEndTypes == Spec => []TypeOK
<1>1. Init => ParserInv /\ AffinityInv
  BY ParserStarts, AffinityStarts DEF Init
<1>2. ParserInv /\ AffinityInv /\ [Next]_vars => ParserInv' /\ AffinityInv'
  BY ParserStep, AffinityStep
<1>3. ParserInv /\ AffinityInv => TypeOK
  <2> SUFFICES ASSUME ParserInv, AffinityInv PROVE TypeOK
    OBVIOUS
  <2>1. \A w \in DOMAIN pinned : pinned[w] \subseteq Processors
    BY DEF AffinityInv, PinnedInv
  <2>2. QED
    BY <2>1 DEF TypeOK, ParserInv, LexerOK, TokenTypes, Results, AffinityInv, MachineOK, Phases
<1>4. QED
  BY <1>1, <1>2, <1>3, PTL DEF Spec

(* The processors of two workers differ.                                   *)
LEMMA OwnProcessors ==
  ASSUME AffinityInv, NEW v \in Workers, NEW w \in Workers, v # w
  PROVE  /\ processors[v] # processors[w]
         /\ processors[v] \in Available /\ processors[w] \in Available
<1>1. Len(processors) \in Nat
  BY LenProperties DEF AffinityInv, MachineOK
<1>2. processors[v] \in Processors /\ processors[w] \in Processors
  BY ElementOfSeq DEF AffinityInv, MachineOK, Workers
<1>3. Before(processors[v], processors[w]) \/ Before(processors[w], processors[v])
  BY <1>1 DEF AffinityInv, ListInv, Workers
<1>4. QED
  BY <1>2, <1>3 DEF Before, Processors, AffinityInv, ListInv, Workers

(* No two workers of the pool are pinned to one processor, and none to one *)
(* the machine does not have, whatever the masks, the command line, the    *)
(* groups that appear meanwhile and the order in which the workers start.  *)
THEOREM WorkersOnOwnProcessors == Spec => []WorkersApart
<1>1. Init => AffinityInv
  BY AffinityStarts
<1>2. AffinityInv /\ [Next]_vars => AffinityInv'
  BY AffinityStep
<1>3. AffinityInv => WorkersApart
  <2> SUFFICES ASSUME AffinityInv, NEW v \in DOMAIN pinned, NEW w \in DOMAIN pinned,
                      v # w, Cardinality(pinned[v]) = 1
               PROVE  pinned[v] \subseteq Available /\ pinned[v] # pinned[w]
    BY DEF WorkersApart
  <2>1. /\ v \in Workers /\ w \in Workers
        /\ pinned[v] \in {{}, {processors[v]}, Available}
        /\ pinned[w] \in {{}, {processors[w]}, Available}
    BY DEF AffinityInv, PinnedInv, NotPinned
  <2>2. /\ processors[v] # processors[w]
        /\ processors[v] \in Available /\ processors[w] \in Available
    BY <2>1, OwnProcessors
  <2>3. IsFiniteSet(Available)
    <3>1. IsFiniteSet(0..MaxGroups - 1) /\ IsFiniteSet(0..MaskBits - 1)
      BY FS_Interval, AffinityAssumption
    <3>2. IsFiniteSet(Processors)
      BY <3>1, FS_Product DEF Processors
    <3>3. Available \in SUBSET Processors
      BY DEF Available
    <3>4. QED
      BY <3>2, <3>3, FS_Subset
  <2>4. Cardinality(Available) # 1
    BY <2>2, <2>3, FS_Singleton
  <2>5. Cardinality({}) # 1
    BY FS_EmptySet
  <2>6. pinned[v] = {processors[v]}
    BY <2>1, <2>4, <2>5
  <2>7. QED
    BY <2>1, <2>2, <2>6
<1>4. QED
  BY <1>1, <1>2, <1>3, PTL DEF Spec

-----------------------------------------------------------------------------
(* Which processors the list holds                                         *)

\* Those of S that the scan passes before it comes to p.
Behind(S, p) == {q \in S : Before(q, p)}

\* The list is the lowest processors of S, as many of the first n as -t admits.
Lowest(list, S, n) ==
    /\ \A k \in 1..Len(list) : list[k] \in S /\ Cardinality(Behind(S, list[k])) = k - 1
    /\ Len(list) = IF Capped /\ cap < n THEN cap ELSE n

\* The scan so far: which bits Linux has cleared, how many processors Windows
\* has counted, and the list that has come of those passed.
AskedInv ==
    /\ phase # "args" => result = "true"
    /\ phase \in {"args", "retrieve"} => seen = 0
    /\ phase = "scan" =>
          /\ system = "linux" => info[1] = {b \in groups[1] : b >= bit}
          /\ system = "windows" => seen = Cardinality(Behind(Available, <<group, bit>>))
          /\ Lowest(processors, Allowed, Cardinality(Behind(Allowed, <<group, bit>>)))
    /\ phase = "ready" => Lowest(processors, Allowed, Cardinality(Allowed))

(* There are finitely many processors.                                     *)
LEMMA FiniteProcessors ==
  ASSUME NEW S \in SUBSET Processors
  PROVE  IsFiniteSet(S) /\ Cardinality(S) \in Nat
<1>1. IsFiniteSet(0..MaxGroups - 1) /\ IsFiniteSet(0..MaskBits - 1)
  BY FS_Interval, AffinityAssumption
<1>2. IsFiniteSet(Processors)
  BY <1>1, FS_Product DEF Processors
<1>3. IsFiniteSet(S)
  BY <1>2, FS_Subset
<1>4. QED
  BY <1>3, FS_CardinalityType

\* From bit b of group g the scan goes on to bit c of group h: the next group
\* comes only if the mask has no bit left.
GoesOn(S, g, b, h, c) ==
    \/ h = g /\ c = b + 1
    \/ h = g + 1 /\ c = 0 /\ \A q \in S : q[1] = g => q[2] <= b

(* A turn of the loops passes the processor it was at, and no other.       *)
LEMMA PassOne ==
  ASSUME NEW S \in SUBSET Processors,
         NEW g \in Nat, NEW b \in Nat, NEW h \in Nat, NEW c \in Nat, GoesOn(S, g, b, h, c)
  PROVE  /\ Cardinality(Behind(S, <<g, b>>)) \in Nat
         /\ Cardinality(Behind(S, <<h, c>>)) =
               IF <<g, b>> \in S THEN Cardinality(Behind(S, <<g, b>>)) + 1
                                 ELSE Cardinality(Behind(S, <<g, b>>))
<1> DEFINE here == <<g, b>>
           old  == Behind(S, here)
           new  == Behind(S, <<h, c>>)
<1>1. old \in SUBSET Processors /\ here \notin old
  BY DEF Behind, Before
<1>2. ASSUME NEW q \in S
      PROVE  /\ q[1] \in Nat /\ q[2] \in Nat /\ q = <<q[1], q[2]>>
             /\ Before(q, <<h, c>>) <=> Before(q, here) \/ q = here
  <2>1. PICK i \in 0..MaxGroups - 1, j \in 0..MaskBits - 1 : q = <<i, j>>
    BY DEF Processors
  <2>2. i \in Nat /\ j \in Nat /\ q[1] = i /\ q[2] = j
    BY <2>1, AffinityAssumption
  <2>3. Before(q, <<h, c>>) <=> (i < h \/ (i = h /\ j < c))
    BY <2>2 DEF Before
  <2>4. Before(q, here) <=> (i < g \/ (i = g /\ j < b))
    BY <2>2 DEF Before
  <2>5. q = here <=> i = g /\ j = b
    BY <2>1
  <2>6. \/ h = g /\ c = b + 1
        \/ h = g + 1 /\ c = 0 /\ (i = g => j <= b)
    BY <2>2 DEF GoesOn
  <2> HIDE DEF here
  <2>7. (i < h \/ (i = h /\ j < c)) <=> (i < g \/ (i = g /\ j < b) \/ (i = g /\ j = b))
    BY <2>2, <2>6
  <2>8. QED
    BY <2>1, <2>2, <2>3, <2>4, <2>5, <2>7
<1>3. new = IF here \in S THEN old \cup {here} ELSE old
  BY <1>2 DEF Behind
<1> HIDE DEF here, old, new
<1>4. IsFiniteSet(old) /\ Cardinality(old) \in Nat
  BY <1>1, FiniteProcessors
<1>5. Cardinality(old \cup {here}) = Cardinality(old) + 1
  BY <1>1, <1>4, FS_AddElement
<1>6. QED
  BY <1>3, <1>4, <1>5 DEF here, old, new

(* What -t and -c ask for does not change once the tree is made.           *)
LEMMA AsksSame ==
  ASSUME UNCHANGED <<tree, system, groups>>
  PROVE  /\ Available' = Available /\ Allowed' = Allowed
         /\ Capped' = Capped /\ cap' = cap
<1>1. \A type : find(type)' = find(type)
  BY DEF find
<1>2. Available' = Available
  BY DEF Available, Processors
<1>3. Capped' = Capped /\ Pinned' = Pinned
  BY <1>1 DEF Capped, Pinned
<1>4. cap' = cap
  BY <1>1 DEF cap, threads, Null
<1>5. pins' = pins
  BY <1>1 DEF pins, cores, Null
<1>6. \A p : NumberOf(p)' = NumberOf(p)
  BY <1>2 DEF NumberOf, Before
<1>7. Allowed' = Allowed
  BY <1>2, <1>3, <1>5, <1>6 DEF Allowed
<1>8. QED
  BY <1>2, <1>3, <1>4, <1>7

(* The processor at hand joins the list, or -c leaves it out, or the list  *)
(* is as long as -t admits.                                                *)
LEMMA LowestTurn ==
  ASSUME NEW S, NEW here \in Processors \cup S, NEW list \in Seq(Processors \cup S), NEW n \in Nat,
         n = Cardinality(Behind(S, here)), Lowest(list, S, n),
         NEW list2, list2 = IF here \in S /\ (~Capped \/ Len(list) < cap)
                            THEN Append(list, here) ELSE list,
         NEW n2, n2 = IF here \in S THEN n + 1 ELSE n
  PROVE  Lowest(list2, S, n2)
<1>1. cap \in Nat /\ Len(list) \in Nat
  BY ThreadsNat, LenProperties DEF cap
<1>2. /\ \A k \in 1..Len(list) : list[k] \in S /\ Cardinality(Behind(S, list[k])) = k - 1
      /\ Len(list) = IF Capped /\ cap < n THEN cap ELSE n
  BY DEF Lowest
<1>3. CASE here \in S /\ (~Capped \/ Len(list) < cap)
  <2>1. Len(list) = n
    BY <1>1, <1>2, <1>3
  <2>2. /\ Len(list2) = Len(list) + 1 /\ list2[Len(list) + 1] = here
        /\ \A k \in 1..Len(list) : list2[k] = list[k]
    BY <1>3, AppendProperties
  <2>3. ASSUME NEW k \in 1..Len(list2)
        PROVE  list2[k] \in S /\ Cardinality(Behind(S, list2[k])) = k - 1
    <3>1. CASE k = Len(list) + 1
      <4>1. list2[k] = here /\ k - 1 = n
        BY <1>1, <2>1, <2>2, <3>1
      <4>2. QED
        BY <1>3, <4>1
    <3>2. CASE k # Len(list) + 1
      <4>1. k \in 1..Len(list)
        BY <1>1, <2>2, <3>2
      <4>2. QED
        BY <1>2, <2>2, <4>1
    <3>3. QED
      BY <3>1, <3>2
  <2>4. Len(list2) = IF Capped /\ cap < n2 THEN cap ELSE n2
    BY <1>1, <1>3, <2>1, <2>2
  <2>5. QED
    BY <2>3, <2>4 DEF Lowest
<1>4. CASE ~(here \in S /\ (~Capped \/ Len(list) < cap))
  <2>1. list2 = list
    BY <1>4
  <2>2. Len(list) = IF Capped /\ cap < n2 THEN cap ELSE n2
    BY <1>1, <1>2, <1>4
  <2>3. QED
    BY <1>2, <2>1, <2>2 DEF Lowest
<1>5. QED
  BY <1>3, <1>4

(* What the scan knows survives a turn of a loop.                          *)
LEMMA AskedTurn ==
  ASSUME AffinityInv, AskedInv, phase = "scan", phase' = "scan",
         UNCHANGED <<argsVars, system, groups>>,
         group \in 0..MaxGroups - 1, bit \in 0..MaskBits - 1, group' \in Nat, bit' \in Nat,
         GoesOn(Available, group, bit, group', bit'),
         NEW number,
         <<group, bit>> \in Available => number = NumberOf(<<group, bit>>),
         processors' = IF <<group, bit>> \in Available /\ Keep(number)
                       THEN Append(processors, <<group, bit>>) ELSE processors,
         system = "linux" => info'[1] = {b \in groups[1] : b >= bit'},
         system = "windows" => seen' = IF <<group, bit>> \in Available THEN seen + 1 ELSE seen
  PROVE  AskedInv'
<1>0. /\ Available' = Available /\ Allowed' = Allowed /\ Capped' = Capped /\ cap' = cap
      /\ Allowed \in SUBSET Processors /\ Available \in SUBSET Processors
      /\ Allowed \in SUBSET Available
  BY AsksSame DEF argsVars, Allowed, Available
<1>1. PICK h : h = <<group, bit>>
  OBVIOUS
<1>a. PICK i \in Nat, j \in Nat : i = group' /\ j = bit'
  OBVIOUS
<1>2. PICK a : a = <<i, j>> /\ a = <<group', bit'>>
  BY <1>a
<1>3. h \in Processors /\ group \in Nat /\ bit \in Nat
  BY <1>1, AffinityAssumption DEF Processors
<1>4. /\ Cardinality(Behind(Available, h)) \in Nat
      /\ Cardinality(Behind(Available, a)) = IF h \in Available
            THEN Cardinality(Behind(Available, h)) + 1 ELSE Cardinality(Behind(Available, h))
  <2>1. Available \in SUBSET Processors /\ GoesOn(Available, group, bit, i, j)
    BY <1>0, <1>a DEF GoesOn
  <2>2. QED
    BY <1>1, <1>2, <1>3, <2>1, PassOne
<1>5. /\ Cardinality(Behind(Allowed, h)) \in Nat
      /\ Cardinality(Behind(Allowed, a)) = IF h \in Allowed
            THEN Cardinality(Behind(Allowed, h)) + 1 ELSE Cardinality(Behind(Allowed, h))
  <2>1. Allowed \in SUBSET Processors /\ GoesOn(Allowed, group, bit, i, j)
    BY <1>0, <1>a DEF GoesOn
  <2>2. QED
    BY <1>1, <1>2, <1>3, <2>1, PassOne
<1>6. h \in Available /\ Keep(number) <=> h \in Allowed /\ (~Capped \/ Len(processors) < cap)
  BY <1>1 DEF Keep, Allowed
<1>7. Lowest(processors, Allowed, Cardinality(Behind(Allowed, h)))
  BY <1>1 DEF AskedInv
<1>8. processors \in Seq(Processors \cup Allowed) /\ h \in Processors \cup Allowed
  <2>1. Processors \cup Allowed = Processors
    BY <1>0
  <2>2. QED
    BY <1>3, <2>1 DEF AffinityInv, MachineOK
<1>9. Lowest(processors', Allowed, Cardinality(Behind(Allowed, a)))
  <2>1. processors' = IF h \in Allowed /\ (~Capped \/ Len(processors) < cap)
                      THEN Append(processors, h) ELSE processors
    BY <1>1, <1>6
  <2>2. QED
    BY <1>5, <1>7, <1>8, <2>1, LowestTurn
<1>10. Lowest(processors, Allowed, Cardinality(Behind(Allowed, <<group, bit>>)))'
  BY <1>0, <1>2, <1>9 DEF Lowest, Behind, Before
<1>11. system' = "windows" => seen' = Cardinality(Behind(Available, <<group, bit>>))'
  <2>1. system = "windows" => seen = Cardinality(Behind(Available, h))
    BY <1>1 DEF AskedInv
  <2>2. system = "windows" => seen' = Cardinality(Behind(Available, a))
    BY <1>1, <1>4, <2>1
  <2>3. QED
    BY <1>0, <1>2, <2>2 DEF Behind, Before
<1>12. system' = "linux" => info'[1] = {b \in groups'[1] : b >= bit'}
  OBVIOUS
<1>13. result' = "true"
  BY DEF AskedInv, argsVars
<1>14. QED
  BY <1>10, <1>11, <1>12, <1>13 DEF AskedInv

(* When the loops end, every processor has been passed.                    *)
LEMMA AskedEnds ==
  ASSUME AffinityInv, AskedInv, phase = "scan", phase' = "ready",
         UNCHANGED <<argsVars, system, groups, processors>>,
         \A q \in Available : Before(q, <<group, bit>>)
  PROVE  AskedInv'
<1>1. /\ Allowed' = Allowed /\ Capped' = Capped /\ cap' = cap /\ Available' = Available
  BY AsksSame DEF argsVars
<1>2. Behind(Allowed, <<group, bit>>) = Allowed
  BY DEF Behind, Allowed
<1>3. Lowest(processors, Allowed, Cardinality(Allowed))
  BY <1>2 DEF AskedInv
<1>4. Lowest(processors, Allowed, Cardinality(Allowed))'
  BY <1>1, <1>3 DEF Lowest, Behind, Before
<1>5. QED
  BY <1>4 DEF AskedInv, argsVars

(* The masks are known and the scan begins: nothing is passed yet.         *)
LEMMA AskedBegins ==
  ASSUME AffinityInv, AskedInv, phase = "retrieve", phase' = "scan", info' = groups,
         UNCHANGED <<argsVars, system, groups, group, bit, seen, processors>>
  PROVE  AskedInv'
<1>1. processors = <<>> /\ group = 0 /\ bit = 0 /\ seen = 0 /\ result = "true"
  BY DEF AffinityInv, ScanInv, AskedInv
<1>2. /\ Available' = Available /\ Allowed' = Allowed /\ Capped' = Capped /\ cap' = cap
      /\ Allowed \in SUBSET Processors /\ Available \in SUBSET Processors
  BY AsksSame DEF argsVars, Allowed, Available
<1>3. ASSUME NEW S \in SUBSET Processors PROVE Behind(S, <<0, 0>>) = {}
  BY AffinityAssumption DEF Behind, Before, Processors
<1>4. /\ Cardinality(Behind(Available, <<0, 0>>)) = 0
      /\ Cardinality(Behind(Allowed, <<0, 0>>)) = 0
  BY <1>2, <1>3, FS_EmptySet
<1>5. cap \in Nat
  BY ThreadsNat DEF cap
<1>6. Lowest(processors, Allowed, Cardinality(Behind(Allowed, <<0, 0>>)))
  BY <1>1, <1>4, <1>5 DEF Lowest
<1>7. Lowest(processors, Allowed, Cardinality(Behind(Allowed, <<group, bit>>)))'
  BY <1>1, <1>2, <1>6 DEF Lowest, Behind, Before
<1>8. seen' = Cardinality(Behind(Available, <<group, bit>>))'
  BY <1>1, <1>2, <1>4 DEF Behind, Before
<1>9. system' = "linux" => info'[1] = {b \in groups'[1] : b >= bit'}
  <2>1. SUFFICES ASSUME system = "linux" PROVE groups[1] = {b \in groups[1] : b >= 0}
    BY <1>1
  <2>2. groups \in Seq(SUBSET (0..MaskBits - 1)) /\ Len(groups) = 1
    BY <2>1, GroupsAreMasks DEF AffinityInv, ScanInv, MachineOK
  <2>3. groups[1] \in SUBSET (0..MaskBits - 1)
    BY <2>2, ElementOfSeq
  <2>4. QED
    BY <2>3, AffinityAssumption
<1>10. QED
  BY <1>1, <1>7, <1>8, <1>9 DEF AskedInv, argsVars

(* Linux passes the bits of the one mask.                                  *)
LEMMA AskedScanMask == ASSUME AffinityInv, AskedInv, ScanMask PROVE AskedInv'
<1>1. /\ phase = "scan" /\ system = "linux" /\ group = 0
      /\ Len(groups) = 1 /\ bit \in 0..MaskBits /\ MaskBits \in Nat /\ MaxGroups \in Nat \ {0}
      /\ info[1] = {b \in groups[1] : b >= bit}
      /\ UNCHANGED <<argsVars, system, groups, group>>
      /\ groups \in Seq(SUBSET (0..MaskBits - 1))
  BY AffinityAssumption, GroupsAreMasks DEF ScanMask, AffinityInv, AskedInv, ScanInv, MachineOK
<1>2. groups[1] \in SUBSET (0..MaskBits - 1)
  BY <1>1, ElementOfSeq
<1>3. bit \in info[1] <=> <<group, bit>> \in Available
  BY <1>1, <1>2 DEF Available, Processors
<1>4. NumberOf(<<group, bit>>) = bit
  BY <1>1 DEF NumberOf
<1>5. CASE /\ bit < MaskBits
           /\ processors' = IF bit \in info[1] /\ Keep(bit)
                            THEN Append(processors, <<0, bit>>) ELSE processors
           /\ info'[1] = info[1] \ {bit}
           /\ bit' = bit + 1
           /\ phase' = phase
  <2>1. info'[1] = {b \in groups[1] : b >= bit'}
    BY <1>1, <1>2, <1>5
  <2>2. GoesOn(Available, group, bit, group', bit')
    BY <1>1, <1>5 DEF GoesOn
  <2>3. group \in 0..MaxGroups - 1 /\ bit \in 0..MaskBits - 1 /\ group' \in Nat /\ bit' \in Nat
    BY <1>1, <1>5
  <2>4. processors' = IF <<group, bit>> \in Available /\ Keep(bit)
                      THEN Append(processors, <<group, bit>>) ELSE processors
    BY <1>1, <1>3, <1>5
  <2>5. QED
    BY <1>1, <1>4, <1>5, <2>1, <2>2, <2>3, <2>4, AskedTurn
<1>6. CASE (bit = MaskBits \/ info[1] = {}) /\ phase' = "ready" /\ processors' = processors
  <2>1. ASSUME NEW q \in Available PROVE Before(q, <<group, bit>>)
    <3>1. q[1] = 0 /\ q[2] \in groups[1]
      BY <1>1 DEF Available, Processors
    <3>2. q[2] \in 0..MaskBits - 1 /\ q[2] < bit
      BY <1>1, <1>2, <1>6, <3>1
    <3>3. QED
      BY <1>1, <3>1, <3>2 DEF Before
  <2>2. QED
    BY <1>1, <1>6, <2>1, AskedEnds
<1>7. CASE /\ bit < MaskBits /\ bit \in info[1]
           /\ processors' = IF Keep(bit) THEN Append(processors, <<0, bit>>) ELSE processors
           /\ info' = <<info[1] \ {bit}>> /\ bit' = bit + 1 /\ phase' = phase
  BY <1>5, <1>7
<1>8. CASE /\ bit < MaskBits /\ bit \notin info[1]
           /\ bit' = bit + 1 /\ UNCHANGED <<phase, info, processors>>
  <2>1. info[1] \ {bit} = info[1]
    BY <1>8
  <2>2. QED
    BY <1>5, <1>8, <2>1
<1>9. QED
  BY <1>6, <1>7, <1>8 DEF ScanMask

(* Windows passes the bits of one group after the other.                   *)
LEMMA AskedScanGroups == ASSUME AffinityInv, AskedInv, ScanGroups PROVE AskedInv'
<1>1. /\ phase = "scan" /\ system = "windows" /\ info = groups
      /\ bit \in 0..MaskBits - 1 /\ group \in 0..Len(groups)
      /\ MaskBits \in Nat \ {0} /\ MaxGroups \in Nat \ {0}
      /\ Len(groups) \in Nat /\ Len(groups) <= MaxGroups
      /\ seen = Cardinality(Behind(Available, <<group, bit>>))
      /\ UNCHANGED <<argsVars, system, groups>>
      /\ groups \in Seq(SUBSET (0..MaskBits - 1))
  BY AffinityAssumption, LenProperties, GroupsAreMasks
     DEF ScanGroups, AffinityInv, AskedInv, ScanInv, MachineOK, scanVars
<1>2. CASE group = Len(info)
  <2>1. phase' = "ready" /\ processors' = processors
    BY <1>2 DEF ScanGroups
  <2>2. \A q \in Available : Before(q, <<group, bit>>)
    BY <1>1, <1>2 DEF Available, Before
  <2>3. QED
    BY <1>1, <2>1, <2>2, AskedEnds
<1>3. CASE group # Len(info)
  <2> DEFINE mask == info[group + 1]
             last == bit = MaskBits - 1 \/ \A b \in mask : b <= bit
  <2>1. /\ processors' = IF bit \in mask /\ Keep(seen)
                         THEN Append(processors, <<group, bit>>) ELSE processors
        /\ seen' = IF bit \in mask THEN seen + 1 ELSE seen
        /\ bit' = IF last THEN 0 ELSE bit + 1
        /\ group' = IF last THEN group + 1 ELSE group
        /\ phase' = phase
    BY <1>3 DEF ScanGroups, Processor
  <2>2. group + 1 \in 1..Len(groups) /\ group \in 0..MaxGroups - 1
    BY <1>1, <1>3
  <2>3. mask \in SUBSET (0..MaskBits - 1)
    BY <1>1, <2>2, ElementOfSeq
  <2>4. bit \in mask <=> <<group, bit>> \in Available
    BY <1>1, <2>2 DEF Available, Processors
  <2>5. \A q \in Available : q[1] = group => q[2] \in mask
    BY <1>1 DEF Available
  <2>6. last => \A q \in Available : q[1] = group => q[2] <= bit
    BY <1>1, <2>3, <2>5
  <2> HIDE DEF mask, last
  <2>7. GoesOn(Available, group, bit, group', bit') /\ group' \in Nat /\ bit' \in Nat
    BY <1>1, <2>1, <2>6 DEF GoesOn
  <2>8. NumberOf(<<group, bit>>) = seen
    BY <1>1 DEF NumberOf, Behind
  <2>9. processors' = IF <<group, bit>> \in Available /\ Keep(seen)
                      THEN Append(processors, <<group, bit>>) ELSE processors
    BY <2>1, <2>4
  <2>10. seen' = IF <<group, bit>> \in Available THEN seen + 1 ELSE seen
    BY <2>1, <2>4
  <2>11. QED
    BY <1>1, <2>1, <2>2, <2>7, <2>8, <2>9, <2>10, AskedTurn
<1>4. QED
  BY <1>2, <1>3

(* Every step of the front end keeps AskedInv.                             *)
LEMMA AskedStep == ASSUME AffinityInv, AskedInv, [Next]_vars PROVE AskedInv'
<1>1. CASE UNCHANGED <<argsVars, phase, system, groups, info, group, bit, seen, processors>>
  <2>1. /\ Available' = Available /\ Allowed' = Allowed /\ Capped' = Capped /\ cap' = cap
    BY <1>1, AsksSame DEF argsVars
  <2>2. /\ Lowest(processors, Allowed, Cardinality(Behind(Allowed, <<group, bit>>)))'
             <=> Lowest(processors, Allowed, Cardinality(Behind(Allowed, <<group, bit>>)))
        /\ Lowest(processors, Allowed, Cardinality(Allowed))'
             <=> Lowest(processors, Allowed, Cardinality(Allowed))
        /\ Behind(Available, <<group, bit>>)' = Behind(Available, <<group, bit>>)
    BY <1>1, <2>1 DEF Lowest, Behind, Before
  <2>3. QED
    BY <1>1, <2>1, <2>2 DEF AskedInv, argsVars
<1>2. CASE ParseStep /\ UNCHANGED <<phase, scanVars, group, bit, seen, processors, pinned>>
  <2>1. result = "parsing"
    BY <1>2 DEF ParseStep, Flag, ValuedOption, Unrecognised, InvalidToken, OutOfMemory,
       ParseEnds, Parsing
  <2>2. phase = "args"
    BY <2>1 DEF AskedInv
  <2>3. QED
    BY <1>2, <2>2 DEF AskedInv
<1>3. CASE Construct
  BY <1>3 DEF Construct, Copies, AskedInv, argsVars
<1>4. CASE GetAffinity
  BY <1>4, AskedBegins DEF GetAffinity
<1>5. CASE RetrieveProcessorInfo
  <2>1. CASE Len(groups) > room
    BY <1>5, <2>1 DEF RetrieveProcessorInfo, AskedInv, argsVars
  <2>2. CASE ~(Len(groups) > room)
    BY <1>5, <2>2, AskedBegins DEF RetrieveProcessorInfo
  <2>3. QED
    BY <2>1, <2>2
<1>6. CASE GroupAdded \/ RetrieveFails
  BY <1>6 DEF GroupAdded, RetrieveFails, AskedInv, argsVars
<1>7. CASE \E w \in Workers : PinThreadTo(w)
  BY <1>1, <1>7 DEF PinThreadTo, scanVars
<1>8. CASE UNCHANGED vars
  BY <1>1, <1>8 DEF vars, scanVars
<1>9. QED
  BY <1>2, <1>3, <1>4, <1>5, <1>6, <1>7, <1>8, AskedScanMask, AskedScanGroups
     DEF Next, ConstructStep

(* Both constructors of affinity_t build the list -t and -c ask for: the   *)
(* lowest processors allowed, each once, in order and as many as admitted, *)
(* for every machine, every mask and every list of pins.                   *)
THEOREM AsAsked == Spec => []ProcessorsAsAsked
<1>1. Init => AffinityInv /\ AskedInv
  BY AffinityStarts DEF Init, AskedInv
<1>2. AffinityInv /\ AskedInv /\ [Next]_vars => AffinityInv' /\ AskedInv'
  BY AffinityStep, AskedStep
<1>3. AskedInv => ProcessorsAsAsked
  BY DEF AskedInv, ProcessorsAsAsked, Lowest, Behind
<1>4. QED
  BY <1>1, <1>2, <1>3, PTL DEF Spec

-----------------------------------------------------------------------------
(* Getting on                                                              *)

\* Where in the words the tokenizer is.
Place(l) == <<l.arg, l.offset>>

\* Each call of parseArgument() that does not end the parse leaves the
\* tokenizer further on and still in the words, so that their number bounds the
\* calls; a second or third call of GetLogicalProcessorInformationEx() comes
\* only with a larger buffer, of at most MaxGroups records; and each turn of a
\* loop over the masks moves the scan ahead, no further than their end.
Forward ==
    /\ ParseStep /\ result' = "parsing" =>
           Before(Place(lexer), Place(lexer')) /\ LexerOK(lexer)'
    /\ RetrieveProcessorInfo /\ phase' = "retrieve" =>
           room' > room /\ room' <= MaxGroups
    /\ (ScanMask \/ ScanGroups) /\ phase' = "scan" =>
           /\ Before(<<group, bit>>, <<group', bit'>>)
           /\ group' <= Len(info') /\ bit' <= MaskBits

GetsOn == [][Forward]_vars

\* The tokenizer has a token of some word.
OnToken(l) == l.type # "unknown" => l.arg <= count

(* next() moves the tokenizer on, unless it is behind the last word.       *)
LEMMA NextFurther ==
  ASSUME words \in Seq(Seq(STRING)), NEW l, LexerOK(l)
  PROVE  /\ OnToken(next(l))
         /\ l.arg <= count => Before(Place(l), Place(next(l)))
         /\ Place(next(l)) = Place(l) \/ Before(Place(l), Place(next(l)))
<1>1. count \in Nat /\ l.arg \in Nat /\ l.arg <= count + 1 /\ l.offset \in Nat
  BY LenProperties DEF LexerOK, count
<1>2. CASE l.arg <= count
  <2>1. \/ /\ next(l).type = IF l.arg = count THEN "unknown" ELSE "space"
           /\ next(l).arg = l.arg + 1
        \/ next(l).arg = l.arg /\ next(l).offset = l.offset + 1
    BY <1>2, NextIs
  <2>2. Before(Place(l), Place(next(l)))
    BY <1>1, <2>1 DEF Before, Place
  <2>3. OnToken(next(l))
    BY <1>1, <1>2, <2>1 DEF OnToken
  <2>4. QED
    BY <2>2, <2>3
<1>3. CASE l.arg > count
  BY <1>1, <1>3, NextStays DEF OnToken, Place
<1>4. QED
  BY <1>1, <1>2, <1>3

(* A tokenizer that is further on than one that is further on.             *)
LEMMA FurtherStill ==
  ASSUME NEW k, NEW l, NEW m, LexerOK(k), LexerOK(l), LexerOK(m),
         Before(Place(k), Place(l)), Place(m) = Place(l) \/ Before(Place(l), Place(m))
  PROVE  Before(Place(k), Place(m))
<1>1. CASE Place(m) = Place(l)
  BY <1>1
<1>2. CASE Before(Place(l), Place(m))
  <2>1. /\ k.arg \in Nat /\ l.arg \in Nat /\ m.arg \in Nat
        /\ k.offset \in Nat /\ l.offset \in Nat /\ m.offset \in Nat
    <3>1. \A j : LexerOK(j) => j.arg \in Nat /\ j.offset \in Nat
      BY DEF LexerOK
    <3>2. QED
      BY <3>1
  <2>2. QED
    BY <1>2, <2>1 DEF Before, Place
<1>3. QED
  BY <1>1, <1>2

(* parseArgument() uses up at least one token.                             *)
LEMMA ParserForward ==
  ASSUME ParserInv, OnToken(lexer), ParseStep
  PROVE  /\ OnToken(lexer)'
         /\ result' = "parsing" => Before(Place(lexer), Place(lexer'))
<1> DEFINE after == next(Here)
           value == next(after)
<1>1. /\ words \in Seq(Seq(STRING))
      /\ LexerOK(lexer) /\ LexerOK(Here) /\ LexerOK(after) /\ LexerOK(value) /\ LexerOK(next(value))
  BY NextOK DEF ParserInv, Here
<1>2. OnToken(after) /\ OnToken(value) /\ OnToken(next(value))
  BY <1>1, NextFurther
<1>3. ASSUME Parsing PROVE Before(Place(lexer), Place(after))
  <2>1. lexer.arg <= count
    BY <1>3 DEF OnToken, Parsing
  <2>2. CASE Here = lexer
    BY <1>1, <2>1, <2>2, NextFurther
  <2>3. CASE Here = next(lexer)
    <3>1. Before(Place(lexer), Place(Here))
      BY <1>1, <2>1, <2>3, NextFurther
    <3>2. Place(after) = Place(Here) \/ Before(Place(Here), Place(after))
      BY <1>1, NextFurther
    <3>3. QED
      BY <1>1, <3>1, <3>2, FurtherStill
  <2>4. QED
    BY <2>2, <2>3 DEF Here
<1>4. ASSUME Parsing
      PROVE  /\ Before(Place(lexer), Place(value))
             /\ Before(Place(lexer), Place(next(value)))
  <2>1. Before(Place(lexer), Place(value))
    <3>1. Place(value) = Place(after) \/ Before(Place(after), Place(value))
      BY <1>1, NextFurther
    <3>2. QED
      BY <1>1, <1>3, <1>4, <3>1, FurtherStill
  <2>2. Place(next(value)) = Place(value) \/ Before(Place(value), Place(next(value)))
    BY <1>1, NextFurther
  <2>3. QED
    BY <1>1, <2>1, <2>2, FurtherStill
<1> HIDE DEF after, value
<1>5. words' = words
  BY DEF ParseStep, Flag, ValuedOption, Unrecognised, InvalidToken, OutOfMemory, ParseEnds,
         Add, Refuse
<1>6. CASE Flag \/ ValuedOption \/ Unrecognised
  <2>1. lexer' \in {after, value, next(value)} /\ Parsing
    BY <1>6 DEF Flag, ValuedOption, Unrecognised, Value, after, value
  <2>2. OnToken(lexer') /\ Before(Place(lexer), Place(lexer'))
    BY <1>2, <1>3, <1>4, <2>1
  <2>3. QED
    BY <1>5, <2>2 DEF OnToken, count
<1>7. CASE InvalidToken \/ OutOfMemory \/ ParseEnds
  <2>1. lexer' = lexer /\ result' # "parsing"
    BY <1>7 DEF InvalidToken, OutOfMemory, ParseEnds, Refuse
  <2>2. QED
    BY <1>5, <2>1 DEF OnToken, count
<1>8. QED
  BY <1>6, <1>7 DEF ParseStep

(* retrieveProcessorInfo() and the loops over the masks.                   *)
LEMMA ScanForward ==
  ASSUME AffinityInv, [Next]_vars
  PROVE  /\ RetrieveProcessorInfo /\ phase' = "retrieve" =>
                room' > room /\ room' <= MaxGroups
         /\ (ScanMask \/ ScanGroups) /\ phase' = "scan" =>
                /\ Before(<<group, bit>>, <<group', bit'>>)
                /\ group' <= Len(info') /\ bit' <= MaskBits
<1>1. /\ groups \in Seq(Masks) /\ Len(groups) \in Nat /\ Len(groups) <= MaxGroups
      /\ MaxGroups \in Nat /\ room \in Nat
      /\ group \in Nat /\ bit \in Nat
  BY AffinityAssumption, LenProperties DEF AffinityInv, MachineOK
<1>2. AffinityInv'
  BY AffinityStep
<1>3. group' <= Len(info') /\ bit' <= MaskBits
  BY <1>2, AffinityAssumption, LenProperties DEF AffinityInv, MachineOK
<1>4. ASSUME RetrieveProcessorInfo, phase' = "retrieve"
      PROVE  room' > room /\ room' <= MaxGroups
  <2>1. Len(groups) > room /\ room' = Len(groups)
    BY <1>4 DEF RetrieveProcessorInfo, Grown
  <2>2. QED
    BY <1>1, <2>1
<1>5. ASSUME ScanMask, phase' = "scan" PROVE Before(<<group, bit>>, <<group', bit'>>)
  <2>1. bit' = bit + 1 /\ group' = group
    BY <1>5 DEF ScanMask
  <2>2. QED
    BY <1>1, <2>1 DEF Before
<1>6. ASSUME ScanGroups, phase' = "scan" PROVE Before(<<group, bit>>, <<group', bit'>>)
  <2>1. \/ group' = group /\ bit' = bit + 1
        \/ group' = group + 1
    BY <1>6 DEF ScanGroups
  <2>2. QED
    BY <1>1, <2>1 DEF Before
<1>7. QED
  BY <1>3, <1>4, <1>5, <1>6

(* No call of parseArgument() and no turn of a loop of affinity_t leaves   *)
(* things where they were: whatever the words, the masks and the changes   *)
(* of the machine, there are only so many of them.                         *)
THEOREM FrontEndGetsOn == Spec => GetsOn
<1>1. ASSUME Init PROVE OnToken(lexer)
  <2>1. words \in Seq(Seq(STRING))
    BY <1>1, ArgsAssumption DEF Init, ArgsInit
  <2>2. LexerOK(Token(1, 0, "unknown", Null))
    <3>1. count \in Nat /\ (1 <= count => Len(words[1]) \in Nat)
      BY <2>1, LenProperties, ElementOfSeq DEF count
    <3>2. QED
      BY <3>1, TokenParts DEF LexerOK, TokenTypes
  <2>3. QED
    BY <1>1, <2>1, <2>2, NextFurther DEF Init, ArgsInit
<1>2. ASSUME ParserInv, OnToken(lexer), [Next]_vars PROVE OnToken(lexer)'
  <2>1. CASE UNCHANGED argsVars
    BY <1>2, <2>1 DEF argsVars, OnToken, count
  <2>2. QED
    BY <1>2, <2>1, WhoParses, ParserForward
<1>3. ASSUME ParserInv, OnToken(lexer), AffinityInv, [Next]_vars PROVE Forward
  <2>1. LexerOK(lexer)'
    BY <1>3, ParserStep DEF ParserInv
  <2>2. QED
    BY <1>3, <2>1, ParserForward, ScanForward DEF Forward
<1>4. /\ Init => ParserInv /\ AffinityInv /\ OnToken(lexer)
      /\ ParserInv /\ AffinityInv /\ OnToken(lexer) /\ [Next]_vars
           => ParserInv' /\ AffinityInv' /\ OnToken(lexer)'
  BY <1>1, <1>2, ParserStarts, AffinityStarts, ParserStep, AffinityStep DEF Init
<1>5. ParserInv /\ OnToken(lexer) /\ AffinityInv /\ [Next]_vars => Forward
  BY <1>3
<1>6. QED
  BY <1>4, <1>5, PTL DEF Spec, GetsOn
=============================================================================
