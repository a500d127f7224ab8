----------------------------- MODULE MCCommandLine ----------------------------
(***************************************************************************)
(* Instances of CommandLine for TLC: every two options together, and every *)
(* three without files, which usage ends after they are parsed.            *)
(***************************************************************************)
EXTENDS CommandLine, TLC

CONSTANTS
  a, b, d, e, long, far, dashed  \* paths

MCWord == 64
MCKB == 4
MCQuarterMB == 8
MCSecond == 16

(* A directory with a file and a directory.  long needs the buffer to       *)
(* grow, far is longer than it grows, and no file.                          *)
MCEntries == d :> {b, e} @@ e :> {long}
MCLength == a :> 1 @@ b :> 2 @@ d :> 1 @@ e :> 2 @@ long :> 3 @@ far :> 8
        @@ dashed :> 1
MCFileSize == a :> 5 @@ b :> 12

Item(n, l) == [name |-> n, levels |-> l]

(* No levels, levels, a limit on blocks, not built in.                      *)
MCCodecs == <<[name |-> "zip", first |-> 1, last |-> 2, maxBlock |-> 0, works |-> TRUE],
              [name |-> "lzo", first |-> 7, last |-> 7, maxBlock |-> 3, works |-> TRUE],
              [name |-> "none", first |-> 0, last |-> 0, maxBlock |-> 0, works |-> FALSE]>>

(* "lzo" is the alias of a list that names the codec lzo with levels. *)
MCAliases == ("fast" :> <<Item("none", <<>>), Item("lzo", <<>>)>>)
          @@ ("lzo" :> <<Item("lzo", <<1, 9>>)>>)
          @@ ("all" :> <<Item("zip", <<>>), Item("lzo", <<>>), Item("no", <<>>)>>)

Letter(l, n) == [letter |-> l, n |-> n, second |-> None, list |-> None]
Pair(l, n, m) == [Letter(l, n) EXCEPT !.second = m]
Encoders(list) == [Letter("e", 0) EXCEPT !.list = list]

(* The letters that set what another sets, or whose number is at an edge.   *)
Linked == {Letter("b", 0), Letter("b", 65), Letter("m", 1), Letter("o", 2),
           Letter("o", 4), Letter("v", 1), Letter("t", 0), Letter("u", 1),
           Pair("i", 2, 3), Pair("t", 1, 2), Letter("i", 3), Letter("h", 0)}

Plain == Linked \cup
  {Letter("b", 16), Letter("b", 1), Letter("c", 40), Letter("j", 5), Letter("m", 8),
   Letter("o", 66), Letter("p", 3), Letter("r", 0), Letter("R", 0), Letter("s", 1),
   Letter("u", 4), Letter("x", 0), Letter("z", 0), Letter("l", 0), Letter("?", 0),
   Letter("-", 0)}

Lists2 == {Encoders(<<Item("all", <<>>), Item("zip", <<3>>)>>),
           Encoders(<<Item("no", <<1, 2>>), Item("all", <<4>>)>>)}

Dashed(s) == [dashed |-> TRUE, letters |-> s, path |-> dashed]
Name(p) == [dashed |-> FALSE, letters |-> <<>>, path |-> p]

Alone == Dashed(<<Letter("-compress-only", 0)>>)

(* Of -R with -m see LzbenchMain. *)
Together(s) == ~{"R", "m"} \subseteq {s[k].letter : k \in 1 .. Len(s)}

Pairs == {s \in Plain \X (Plain \cup Lists2) : Together(s)}

MCLines ==
  {<<Dashed(<<x, y>>), Dashed(<<z>>)>> : x, y, z \in Linked}
  \cup {<<Dashed(<<x>>), Alone, Dashed(<<y>>), Dashed(<<>>)>> : x, y \in Lists2}
  \cup {<<Dashed(s), Name(a), Name(d)>> : s \in Pairs}
  \cup {<<Dashed(<<x>>), Name(p), Dashed(<<x>>), Name(a)>> :
          x \in Plain \cup Lists2, p \in {d, far}}
  \cup {<<Dashed(<<Letter("j", 0)>>), Name(far)>>}

(* Usage's example `-t0 -u0 -i3 -j5', with the letters apart and together.  *)
Example == <<Letter("t", 0), Letter("u", 0), Letter("i", 3), Letter("j", 5)>>

ExampleLines ==
  {<<Dashed(Example), Name(a)>>,
   [k \in 1 .. 4 |-> Dashed(<<Example[k]>>)] \o <<Name(a)>>}
===============================================================================
