-------------------------------- MODULE Options -------------------------------
(***************************************************************************)
(* The option parser of main: arguments that begin with a dash are read    *)
(* letter by letter, each letter with the number after it; what follows    *)
(* the first other argument are file names.                                *)
(*                                                                         *)
(* Numbers are C's: unsigned words, and the products that -b, -m, -t and   *)
(* -u make of them are words before they are stored.  A letter is a record *)
(* with its number n, the number after a comma if there is one, and, for   *)
(* -e, which takes the rest of the argument, the list it gives.            *)
(***************************************************************************)
EXTENDS Integers, Sequences, Functions

CONSTANTS
  Lines,         \* the command lines to explore: sequences of IsArgument
  Word,          \* 2^32, the values of an unsigned int
  KB,            \* the 1 << 10 of -b
  QuarterMB,     \* the 1 << 18 of -m
  Second,        \* the 1000 of -t and -u
  DefaultChunk,  \* chunk_size without -b
  None           \* no list of codecs; no second number

MarkDown == 1
Text == 2
TextFull == 3
Csv == 4

Settings == {"b", "c", "e", "i", "j", "m", "o", "p", "r", "R", "s", "t", "u",
             "v", "x", "z", "-compress-only"}

IsLetter(l) ==
  /\ l.letter \in Settings \cup {"h", "-", "l", "?"}
  /\ l.n \in Nat
  /\ l.second \in Nat \cup {None}

Arguments == UNION {Range(line) : line \in Lines}
Letters == UNION {Range(a.letters) : a \in Arguments}

(* -e takes the rest of its argument, --compress-only is one by itself.     *)
IsArgument(a) ==
  /\ a.dashed \in BOOLEAN
  /\ a.letters \in Seq(Letters)
  /\ \A k \in 1 .. Len(a.letters) - 1 : a.letters[k].letter # "e"
  /\ \A k \in 1 .. Len(a.letters) :
       a.letters[k].letter = "-compress-only" => Len(a.letters) = 1

ASSUME OptionsAssumption ==
  /\ {Word, KB, QuarterMB, Second} \subseteq Nat \ {0}
  /\ Word % 2 = 0 /\ Word > Csv /\ Word > 2 * Second
  /\ DefaultChunk \in 1 .. Word - 1
  /\ None \notin Nat
  /\ Lines \subseteq Seq(Arguments)
  /\ \A a \in Arguments : IsArgument(a)
  /\ \A l \in Letters : IsLetter(l)

VARIABLES
  argv,     \* the arguments not yet looked at
  letters,  \* what is left of the one in hand
  params,   \* lzbench_params_t and the parser's own locals
  names,    \* inFileNames
  opc,      \* where the parser is
  said      \* history: the letters that were obeyed

optionVars == <<argv, letters, params, names, opc, said>>

-------------------------------------------------------------------------------
Defaults ==
  [chunkSize |-> DefaultChunk, memLimit |-> 0, textFormat |-> Text, timeType |-> 1,
   showSpeed |-> TRUE, compressOnly |-> FALSE, cIters |-> 1, dIters |-> 1,
   cSpeed |-> 0, verbose |-> 2, cMinTime |-> Second, dMinTime |-> 2 * Second,
   cLoop |-> TRUE, dLoop |-> TRUE, randomRead |-> FALSE, sortCol |-> 0,
   join |-> FALSE, recursive |-> FALSE, realTime |-> TRUE, encoders |-> None]

Signed_Unsigned(n) == n

(* number as an int, where the code stores it in one. *)
Signed(n) == IF n < Word \div 2 THEN n ELSE n - Word

Compression_KeepLoop(p, t) ==
  [p EXCEPT !.cMinTime = t]

Compression(p, t) ==
  [p EXCEPT !.cMinTime = t, !.cLoop = t # 0]

Decompression(p, t) ==
  [p EXCEPT !.dMinTime = t, !.dLoop = t # 0]

(* The switch over one letter. *)
Effect(p, l) ==
  LET number == l.n % Word
      second == l.second % Word
      pair == l.second # None
      time == (Second * number) % Word
  IN CASE l.letter = "b" -> [p EXCEPT !.chunkSize = (number * KB) % Word]
       [] l.letter = "c" -> [p EXCEPT !.sortCol = Signed(number)]
       [] l.letter = "e" -> [p EXCEPT !.encoders = l.list]
       [] l.letter = "i" -> [p EXCEPT !.cIters = number,
                                      !.dIters = IF pair THEN second ELSE @]
       [] l.letter = "j" -> [p EXCEPT !.join = TRUE]
       [] l.letter = "m" -> [p EXCEPT !.memLimit = (number * QuarterMB) % Word,
                                      !.textFormat = IF @ = Text THEN TextFull ELSE @]
       [] l.letter = "o" -> [p EXCEPT !.textFormat = number,
                                      !.verbose = IF number = Csv THEN 0 ELSE @]
       [] l.letter = "p" -> [p EXCEPT !.timeType = number]
       [] l.letter = "r" -> [p EXCEPT !.recursive = TRUE]
       [] l.letter = "R" -> [p EXCEPT !.randomRead = TRUE]
       [] l.letter = "s" -> [p EXCEPT !.cSpeed = number]
       [] l.letter = "t" -> LET q == Compression(p, time)
                            IN IF pair THEN Decompression(q, (Second * second) % Word)
                                       ELSE q
       [] l.letter = "u" -> Decompression(p, time)
       [] l.letter = "v" -> [p EXCEPT !.verbose = number]
       [] l.letter = "x" -> [p EXCEPT !.realTime = FALSE]
       [] l.letter = "z" -> [p EXCEPT !.showSpeed = FALSE]
       [] l.letter = "-compress-only" -> [p EXCEPT !.compressOnly = TRUE]

OptionsInit ==
  /\ argv \in Lines
  /\ letters = <<>>
  /\ params = Defaults
  /\ names = <<>>
  /\ opc = "word"
  /\ said = <<>>

TakeOptions ==
  /\ opc = "word" /\ argv # <<>> /\ Head(argv).dashed
  /\ letters' = Head(argv).letters
  /\ argv' = Tail(argv)
  /\ opc' = "letter"
  /\ UNCHANGED <<params, names, said>>

ObeyLetter ==
  /\ opc = "letter" /\ letters # <<>>
  /\ Head(letters).letter \in Settings
  /\ params' = Effect(params, Head(letters))
  /\ said' = Append(said, Head(letters))
  /\ letters' = Tail(letters)
  /\ UNCHANGED <<argv, names, opc>>

EndOfArgument ==
  /\ opc = "letter" /\ letters = <<>>
  /\ opc' = "word"
  /\ UNCHANGED <<argv, letters, params, names, said>>

(* -h and every other argument that begins with two dashes. *)
AskUsage ==
  /\ opc = "letter" /\ letters # <<>> /\ Head(letters).letter \in {"h", "-"}
  /\ opc' = "clean"
  /\ UNCHANGED <<argv, letters, params, names, said>>

(* -l returns from main at once. *)
ListCodecs ==
  /\ opc = "letter" /\ letters # <<>> /\ Head(letters).letter = "l"
  /\ opc' = "listed"
  /\ UNCHANGED <<argv, letters, params, names, said>>

UnknownOption ==
  /\ opc = "letter" /\ letters # <<>> /\ Head(letters).letter = "?"
  /\ opc' = "unknown"
  /\ UNCHANGED <<argv, letters, params, names, said>>

TakeName ==
  /\ opc \in {"word", "names"} /\ argv # <<>>
  /\ opc = "word" => ~Head(argv).dashed
  /\ names' = Append(names, Head(argv).path)
  /\ argv' = Tail(argv)
  /\ opc' = "names"
  /\ UNCHANGED <<letters, params, said>>

EndOfLine ==
  /\ opc \in {"word", "names"} /\ argv = <<>>
  /\ opc' = IF names = <<>> THEN "clean" ELSE "go"
  /\ UNCHANGED <<argv, letters, params, names, said>>

OptionsNext ==
  \/ TakeOptions
  \/ ObeyLetter
  \/ EndOfArgument
  \/ AskUsage
  \/ ListCodecs
  \/ UnknownOption
  \/ TakeName
  \/ EndOfLine

OptionsSpec == OptionsInit /\ [][OptionsNext]_optionVars

-------------------------------------------------------------------------------
OptionsTypeOK ==
  /\ opc \in {"word", "letter", "names", "clean", "listed", "unknown", "go"}
  /\ {params.chunkSize, params.memLimit, params.textFormat, params.verbose,
      params.cIters, params.dIters, params.cMinTime, params.dMinTime,
      params.cSpeed, params.timeType} \subseteq 0 .. Word - 1
  /\ params.sortCol \in - (Word \div 2) .. Word \div 2

(* The positions in s of the letters that are among ls, and of those with a *)
(* second number.                                                           *)
Where(s, ls) == {k \in DOMAIN s : s[k].letter \in ls}
Paired(s, ls) == {k \in Where(s, ls) : s[k].second # None}

Latest(S) == CHOOSE k \in S : \A q \in S : q <= k

(* What value has at the latest position of S, or what stands without one.  *)
LastOf(S, value, default) == IF S = {} THEN default ELSE value[Latest(S)]

(* What letters s mean, in any order and however they are packed into       *)
(* arguments: each setting is what the last letter that speaks of it says.  *)
(* Two letters speak of more than their own: -m asks for the full text      *)
(* format unless the last -o before it chose one other than text, and -o4   *)
(* is also a -v0; -t with two times is also a -u (main, 791-861).  These    *)
(* are the letters as main's switch knows them, words and all: a number     *)
(* after -j means nothing here, though usage gives it a meaning, see        *)
(* JoinSetsIterations.                                                      *)
Meaning(s) ==
  LET number == [k \in DOMAIN s |-> s[k].n % Word]
      second == [k \in DOMAIN s |-> s[k].second % Word]
      time == [k \in DOMAIN s |-> (Second * number[k]) % Word]
      dTime == [k \in DOMAIN s |-> IF s[k].letter = "u" THEN time[k]
                                   ELSE (Second * second[k]) % Word]
      mute == [k \in DOMAIN s |-> IF s[k].letter = "o" THEN 0 ELSE number[k]]
      csvs == {k \in Where(s, {"o"}) : number[k] = Csv}
      format == [k \in DOMAIN s |->
                   IF number[k] = Text /\ \E q \in Where(s, {"m"}) : q > k
                     THEN TextFull ELSE number[k]]
      cLimit == LastOf(Where(s, {"t"}), time, Second)
      dLimit == LastOf(Where(s, {"u"}) \cup Paired(s, {"t"}), dTime, 2 * Second)
  IN [chunkSize |-> LastOf(Where(s, {"b"}),
                           [k \in DOMAIN s |-> (number[k] * KB) % Word], DefaultChunk),
      memLimit |-> LastOf(Where(s, {"m"}),
                          [k \in DOMAIN s |-> (number[k] * QuarterMB) % Word], 0),
      textFormat |-> LastOf(Where(s, {"o"}), format,
                            IF Where(s, {"m"}) = {} THEN Text ELSE TextFull),
      timeType |-> LastOf(Where(s, {"p"}), number, 1),
      showSpeed |-> Where(s, {"z"}) = {},
      compressOnly |-> Where(s, {"-compress-only"}) # {},
      cIters |-> LastOf(Where(s, {"i"}), number, 1),
      dIters |-> LastOf(Paired(s, {"i"}), second, 1),
      cSpeed |-> LastOf(Where(s, {"s"}), number, 0),
      verbose |-> LastOf(Where(s, {"v"}) \cup csvs, mute, 2),
      cMinTime |-> cLimit, dMinTime |-> dLimit,
      cLoop |-> cLimit # 0, dLoop |-> dLimit # 0,
      randomRead |-> Where(s, {"R"}) # {},
      sortCol |-> LastOf(Where(s, {"c"}), [k \in DOMAIN s |-> Signed(number[k])], 0),
      join |-> Where(s, {"j"}) # {},
      recursive |-> Where(s, {"r"}) # {},
      realTime |-> Where(s, {"x"}) = {},
      encoders |-> LastOf(Where(s, {"e"}), [k \in DOMAIN s |-> s[k].list], None)]

(* The parameters are what the letters obeyed so far mean, however they     *)
(* follow each other (main's switch, whose cases set and read one           *)
(* another's).  Numbers are compared after they have wrapped.               *)
LastWordWins == params = Meaning(said)

(* -j with a number sets the decompression iterations, unless a later -i    *)
(* with two numbers does: usage's example is `-t0 -u0 -i3 -j5 -ezstd fname  *)
(* = 3 compression and 5 decompression iter.' (usage, 743).                 *)
JoinSetsIterations ==
  LET counts == Paired(said, {"i"}) \cup {k \in Where(said, {"j"}) : said[k].n # 0}
      last == said[Latest(counts)]
  IN counts # {} /\ last.letter = "j" => params.dIters = last.n % Word
===============================================================================
