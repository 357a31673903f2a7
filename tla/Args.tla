-------------------------------- MODULE Args --------------------------------
(***************************************************************************)
(* The command line: tokenizer_t (src/args/tokenizer.cxx), parseArguments() *)
(* (src/args.cxx) and the nodes of the tree it builds (src/args.hxx,       *)
(* src/args/types.cxx).  One action is one call of parseArgument().        *)
(*                                                                         *)
(* A word of the command line is a sequence of texts, split where its      *)
(* equals signs are: "=" stands for itself and every other text is a       *)
(* string without one.  A std::string_view is what can be read from its    *)
(* data() up to the NUL, so its own text is the first element and a file   *)
(* name passed to open() is all of it; a null view is <<>>.                *)
(***************************************************************************)
EXTENDS Integers, Sequences, SequencesExt

CONSTANTS
    Options,       \* the option table: name -> argType_t
    Numbers,       \* toInt_t: the value of every text that is a decimal number
    Lists,         \* texts split at commas: numbers, NotDecimal, or Nothing
    Algorithms,    \* the texts argAlgorithm_t knows
    NotDecimal,    \* a piece isDec() refuses
    Nothing,       \* the piece behind a comma at the end
    ArgLists       \* the command lines considered

Flags  == {"help", "version", "async"}                       \* take no value
Valued == {"outputFile", "threads", "pinning", "algorithm"}  \* take one

ASSUME ArgsAssumption ==
    /\ \A name \in DOMAIN Options : Options[name] \in Flags \cup Valued
    /\ "=" \notin DOMAIN Options
    /\ ArgLists \subseteq Seq(Seq(STRING))
    /\ \A list \in ArgLists : \A i \in DOMAIN list : \A k \in 2..Len(list[i]) :
           "=" \in {list[i][k - 1], list[i][k]}
    /\ \A text \in DOMAIN Numbers : Numbers[text] \in Nat
    /\ \A text \in DOMAIN Lists : Lists[text] \in Seq(Nat \cup {NotDecimal, Nothing})

VARIABLES
    words,    \* argList without the name of the program
    lexer,    \* the tokenizer: word, offset into it and current token
    tree,     \* the children of ::args
    result    \* what parseArguments() has come to

argsVars == <<words, lexer, tree, result>>

Null  == <<>>
count == Len(words)

\* The tokenizer at an offset of a word, with its current token; behind the
\* last word arg is a null pointer.
Token(arg, offset, type, value) ==
    [arg |-> arg, offset |-> offset, type |-> type, value |-> value]

\* next(), that is readToken(): the end of a word (nextArg()) is a space if
\* another word follows; an equals sign is its own token and ends the one before.
next(l) ==
    LET word == words[l.arg]
        text == SubSeq(word, l.offset + 1, Len(word))
    IN  CASE l.arg > count -> Token(l.arg, l.offset, "unknown", Null)
          [] l.arg <= count /\ l.offset = Len(word) ->
                 Token(l.arg + 1, 0, IF l.arg = count THEN "unknown" ELSE "space", Null)
          [] l.arg <= count /\ l.offset < Len(word) ->
                 IF Head(text) = "=" THEN Token(l.arg, l.offset + 1, "equals", <<"=">>)
                                     ELSE Token(l.arg, l.offset + 1, "arg", text)

\* A node keeps the views it was made of; the conversions are below.
Node(type, value, parameter) == [type |-> type, value |-> value, parameter |-> parameter]

\* argThreads_t: what is not a decimal number counts as zero.
threads(view) ==
    IF view # Null /\ Head(view) \in DOMAIN Numbers THEN Numbers[Head(view)] ELSE 0

\* Mutant: a comma at the end is not looked for.
cores_CommaAtEnd(view) ==
    LET list == IF view # Null /\ Head(view) \in DOMAIN Lists
                THEN SelectSeq(Lists[Head(view)], LAMBDA piece : piece # Nothing) ELSE <<>>
    IN  IF list \in Seq(Nat) THEN list ELSE <<>>

\* argPinning_t: one bad piece, or a comma at the end, clears the list.
cores(view) ==
    IF view # Null /\ Head(view) \in DOMAIN Lists /\ Lists[Head(view)] \in Seq(Nat)
    THEN Lists[Head(view)] ELSE <<>>

\* argAlgorithm_t::valid()
validAlgorithm(view) == view # Null /\ Head(view) \in Algorithms

\* argsTree_t::find(): the first node of a type, as a sequence of at most one.
find(type) ==
    LET places == {k \in 1..Len(tree) : tree[k].type = type}
    IN  IF places = {} THEN <<>> ELSE <<tree[Min(places)]>>

ArgsInit ==
    /\ words \in ArgLists
    /\ lexer = next(Token(1, 0, "unknown", Null))
    /\ tree = <<>>
    /\ result = IF words = <<>> THEN "false" ELSE "parsing"

-----------------------------------------------------------------------------
\* parseArgument() skips a space, whatever the token behind it is.
Here == IF lexer.type = "space" THEN next(lexer) ELSE lexer
argument == Here.value

\* The type of the option the argument names, if it does.
OptionType ==
    IF argument # Null /\ Head(argument) \in DOMAIN Options
    THEN Options[Head(argument)] ELSE "unrecognised"

\* The loop of parseArguments() calls parseArgument() on an argument.
Parsing == result = "parsing" /\ lexer.type \in {"space", "arg"}

Add(node) == tree' = Append(tree, node) /\ UNCHANGED <<words, result>>
Refuse(why) == result' = why /\ UNCHANGED <<words, tree>>

\* makeNode() of an option without a value.
Flag ==
    /\ Parsing
    /\ OptionType \in Flags
    /\ Add(Node(OptionType, Null, Null))
    /\ lexer' = next(Here)

\* What the parse functions of the options check before they go on.
Usable(type, view) ==
    CASE type = "threads"   -> threads(view) # 0
      [] type = "pinning"   -> cores(view) # <<>>
      [] type = "algorithm" -> validAlgorithm(view)
      [] OTHER              -> TRUE

\* Mutant: only a space is skipped ahead of the value.
Value_KeepsEquals(l) == IF l.type = "space" THEN next(l) ELSE l

\* The token parseOutputFile() and its like take for the value: the one behind
\* the current token, which is a space or an equals sign and is not looked at.
Value(l) == next(l)

\* makeNode() of an option with a value; no token at all, or a value that is
\* no good, throws.
ValuedOption ==
    /\ Parsing
    /\ OptionType \in Valued
    /\ LET separator == next(Here)
           value     == Value(separator)
       IN  \/ /\ separator.type = "unknown"
              /\ Refuse("false")
              /\ lexer' = separator
           \/ /\ separator.type # "unknown"
              /\ ~Usable(OptionType, value.value)
              /\ Refuse("false")
              /\ lexer' = value
           \/ /\ separator.type # "unknown"
              /\ Usable(OptionType, value.value)
              /\ Add(Node(OptionType, value.value, Null))
              /\ lexer' = next(value)

\* Mutant: the parameter is looked at and not consumed.
Unrecognised_KeepsParameter ==
    /\ Parsing
    /\ OptionType = "unrecognised"
    /\ LET after == next(Here)
       IN  IF after.type # "equals"
           THEN Add(Node("unrecognised", argument, Null)) /\ lexer' = after
           ELSE Add(Node("unrecognised", argument, next(after).value)) /\ lexer' = next(after)

\* Any other argument is a file, with a parameter if an equals sign and more
\* follow in the same word.
Unrecognised ==
    /\ Parsing
    /\ OptionType = "unrecognised"
    /\ LET after     == next(Here)
           parameter == next(after)
       IN  \/ /\ after.type # "equals"
              /\ Add(Node("unrecognised", argument, Null))
              /\ lexer' = after
           \/ /\ after.type = "equals" /\ parameter.type = "space"
              /\ Add(Node("unrecognised", argument, Null))
              /\ lexer' = parameter
           \/ /\ after.type = "equals" /\ parameter.type # "space"
              /\ Add(Node("unrecognised", argument, parameter.value))
              /\ lexer' = next(parameter)

\* An argument cannot start with an equals sign.
InvalidToken ==
    /\ result = "parsing"
    /\ lexer.type = "equals"
    /\ Refuse("false")
    /\ UNCHANGED lexer

\* add() or the making of a node runs out of memory: parseArguments() returns
\* false, and nobody asks the tokenizer again.
OutOfMemory ==
    /\ Parsing
    /\ Refuse("noMemory")
    /\ UNCHANGED lexer

\* The loop of parseArguments() ends.
ParseEnds ==
    /\ result = "parsing"
    /\ lexer.type = "unknown"
    /\ Refuse("true")
    /\ UNCHANGED lexer

ParseStep == Flag \/ ValuedOption \/ Unrecognised \/ InvalidToken \/ OutOfMemory \/ ParseEnds

-----------------------------------------------------------------------------
\* name, or name=value.
Plain(w) == Len(w) = 1 /\ w[1] # "="
Assigned(w) == Len(w) = 3 /\ w[2] = "=" /\ "=" \notin {w[1], w[3]}
WellFormed == \A i \in 1..count : Plain(words[i]) \/ Assigned(words[i])

TypeOf(w) == IF w[1] \in DOMAIN Options THEN Options[w[1]] ELSE "unrecognised"

\* The words that are the value of the option ahead of them.
IsValue[i \in 1..count] ==
    /\ i > 1
    /\ ~IsValue[i - 1]
    /\ Plain(words[i - 1])
    /\ TypeOf(words[i - 1]) \in Valued

\* The value of the option that is word i: behind its equals sign or the word after.
ValueOf(i) ==
    IF Assigned(words[i]) THEN <<words[i][3]>> ELSE IF i < count THEN words[i + 1] ELSE Null

\* What belongs in the tree for word i.
NodeOf(i) ==
    LET type == TypeOf(words[i])
    IN  CASE type \in Valued -> Node(type, ValueOf(i), Null)
          [] type \in Flags  -> Node(type, Null, Null)
          [] OTHER           -> Node(type, words[i], IF Assigned(words[i]) THEN ValueOf(i) ELSE Null)

\* The text itself, whatever its conversion makes of it, is a number other than
\* zero, a list of numbers and commas between them, or an algorithm.
GoodValue(type, view) ==
    /\ type \in {"threads", "pinning", "algorithm"} => view # Null
    /\ type = "threads" => Head(view) \in DOMAIN Numbers /\ Numbers[Head(view)] > 0
    /\ type = "pinning" => /\ Head(view) \in DOMAIN Lists /\ Lists[Head(view)] # <<>>
                           /\ \A k \in 1..Len(Lists[Head(view)]) : Lists[Head(view)][k] \in Nat
    /\ type = "algorithm" => Head(view) \in Algorithms

\* A flag stands alone; an option has a good value without an equals sign.  This
\* is the parser's own rule and not the manual's: man/pcat.1.md:45-47 wants -c to
\* name as many cores as -t, which nobody looks at, and its lines 76-78 do not
\* keep equals signs out of values.
Acceptable(i) ==
    /\ TypeOf(words[i]) \in Flags => Plain(words[i])
    /\ TypeOf(words[i]) \in Valued => /\ Plain(ValueOf(i))
                                      /\ GoodValue(TypeOf(words[i]), ValueOf(i))

\* Numbers of words in the order of the command line, each at most once.
Increasing(place) == \A j, k \in DOMAIN place : j < k => place[j] < place[k]

\* parseArguments() works token by token; word by word this is its grammar.  A
\* command line of names and name=value words is accepted exactly if every name
\* is Acceptable, with the value in either of the two notations; the tree then
\* holds one node per option and file in the order of the command line.  The
\* pairs of next() around a value, in every parse function and for every
\* neighbour of the option, decide whether the parser stays in step with the
\* words.
ParsesItsGrammar ==
    LET names == {i \in 1..count : ~IsValue[i]}
    IN  words # <<>> /\ WellFormed /\ result \in {"true", "false"} =>
            /\ result = "true" <=> \A i \in names : Acceptable(i)
            /\ result = "true" => \E place \in [1..Len(tree) -> names] :
                   /\ Increasing(place)
                   /\ {place[k] : k \in 1..Len(tree)} = names
                   /\ \A k \in 1..Len(tree) : tree[k] = NodeOf(place[k])

\* No word starts with an equals sign or has two in a row.
Tidy ==
    \A i \in 1..count : \A k \in 1..Len(words[i]) :
        words[i][k] = "=" => k > 1 /\ words[i][k - 1] # "="

\* The names gatherFiles() opens are whole words of the command line, each used
\* once and in order, also where words are empty, end in an equals sign or have
\* several: reading the views' data() up to the NUL gives back the word that
\* was cut at its equals sign, and no parameter is opened as a file.
InputsAreWords ==
    LET inputs == {k \in 1..Len(tree) : tree[k].type = "unrecognised"}
    IN  result = "true" /\ Tidy =>
            \E place \in [inputs -> 1..count] :
                /\ Increasing(place)
                /\ \A k \in inputs : tree[k].value = words[place[k]]

\* No tree, not even the one a failed parse leaves in ::args, holds a thread
\* count of zero, an empty list of cores, a list of which a piece was dropped, or
\* an unknown algorithm, however the option and its value were torn apart:
\* affinity_t and chunkedCopy() rely on it (the branch for algorithm_t::invalid
\* is dead).
LimitsUsable ==
    \A k \in 1..Len(tree) : LET node == tree[k] IN
        /\ GoodValue(node.type, node.value)
        /\ node.type = "threads" => threads(node.value) > 0
        /\ node.type = "pinning" => cores(node.value) = Lists[Head(node.value)]
=============================================================================
