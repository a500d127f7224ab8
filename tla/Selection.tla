------------------------------- MODULE Selection ------------------------------
(***************************************************************************)
(* lzbench_test_with_params: which codecs a list names, and at which       *)
(* levels each is tested.                                                  *)
(*                                                                         *)
(* A list is what splitting the text at its slashes leaves: entries with a *)
(* name and the numbers that follow it after commas.  An entry without     *)
(* numbers may be the name of an alias, whose list is taken in its place   *)
(* by a recursive call: the calls are frames of a stack.                   *)
(***************************************************************************)
EXTENDS Integers, Sequences, Functions, Totals

CONSTANTS
  Codecs,  \* comp_desc from its second element on, in its order
  Aliases  \* for each name of alias_desc its list

IsCodec(c) ==
  /\ {c.first, c.last} \subseteq Int
  /\ c.maxBlock \in Nat
  /\ c.works \in BOOLEAN

IsAlias(e) == e.levels = <<>> /\ e.name \in DOMAIN Aliases

IsList(l) == l \in Seq(Range(l)) /\ \A e \in Range(l) : e.levels \in Seq(Int)

(* The entries of an alias's list may be aliases ("all" names "lzo1"), but  *)
(* theirs are not.                                                          *)
ASSUME SelectionAssumption ==
  /\ Codecs \in Seq(Range(Codecs)) /\ \A c \in Range(Codecs) : IsCodec(c)
  /\ \A a \in DOMAIN Aliases : IsList(Aliases[a])
  /\ \A a \in DOMAIN Aliases : \A d \in Range(Aliases[a]) :
       IsAlias(d) => \A e \in Range(Aliases[d.name]) : ~IsAlias(e)

VARIABLES
  calls,   \* stack of calls: the list and the entry in hand
  j,       \* the number of the entry in hand that the do loop is at
  test,    \* the codec and level being tested, <<>> between two tests
  spc      \* where the topmost call is

selectVars == <<calls, j, test, spc>>

-------------------------------------------------------------------------------
Call == calls[Len(calls)]
Entry == Call.list[Call.k]

NamedBy(e) == {i \in 1 .. Len(Codecs) : Codecs[i].name = e.name}
First(S) == CHOOSE i \in S : \A q \in S : i <= q

SelectInit ==
  /\ calls = <<>>
  /\ j = 1
  /\ test = <<>>
  /\ spc = "idle"

SelectStart(list) ==
  /\ spc = "idle"
  /\ calls' = <<[list |-> list, k |-> 1]>>
  /\ spc' = "entry"
  /\ UNCHANGED <<j, test>>

NextEntry == [calls EXCEPT ![Len(calls)].k = @ + 1]

EnterAlias ==
  /\ spc = "entry" /\ Call.k <= Len(Call.list)
  /\ IsAlias(Entry)
  /\ calls' = Append(calls, [list |-> Aliases[Entry.name], k |-> 1])
  /\ UNCHANGED <<j, test, spc>>

(* After an alias its caller goes on with its next entry. *)
LeaveList ==
  /\ spc = "entry" /\ Call.k > Len(Call.list)
  /\ IF Len(calls) = 1
       THEN calls' = <<>> /\ spc' = "idle"
       ELSE /\ calls' = [SubSeq(calls, 1, Len(calls) - 1)
                           EXCEPT ![Len(calls) - 1].k = @ + 1]
            /\ UNCHANGED spc
  /\ UNCHANGED <<j, test>>

EnterNumbers ==
  /\ spc = "entry" /\ Call.k <= Len(Call.list)
  /\ ~IsAlias(Entry)
  /\ j' = 1
  /\ spc' = "number"
  /\ UNCHANGED <<calls, test>>

(* The body of the do loop: the first codec of that name, at the number in  *)
(* hand, or at its first level if the entry has no numbers.                 *)
StartTest ==
  /\ spc = "number"
  /\ NamedBy(Entry) # {}
  /\ LET i == First(NamedBy(Entry))
         first == IF Entry.levels = <<>> THEN Codecs[i].first ELSE Entry.levels[j]
     IN /\ test' = <<i, first>>
        /\ spc' = IF Entry.levels = <<>> /\ Codecs[i].first > Codecs[i].last
                    THEN "tested" ELSE "test"
  /\ UNCHANGED <<calls, j>>

(* NOT FOUND is printed, once for each number. *)
NotFound ==
  /\ spc = "number"
  /\ NamedBy(Entry) = {}
  /\ spc' = "tested"
  /\ UNCHANGED <<calls, j, test>>

NextLevel_Exclusive ==
  /\ spc = "next"
  /\ LET i == test[1]
         more == Entry.levels = <<>> /\ test[2] + 1 < Codecs[i].last
     IN IF more THEN test' = <<i, test[2] + 1>> /\ spc' = "test"
                ELSE test' = <<>> /\ spc' = "tested"
  /\ UNCHANGED <<calls, j>>

(* lzbench_test has returned. *)
NextLevel ==
  /\ spc = "next"
  /\ LET i == test[1]
         more == Entry.levels = <<>> /\ test[2] < Codecs[i].last
     IN IF more THEN test' = <<i, test[2] + 1>> /\ spc' = "test"
                ELSE test' = <<>> /\ spc' = "tested"
  /\ UNCHANGED <<calls, j>>

(* while (j < cparams.size()) *)
NextNumber ==
  /\ spc = "tested"
  /\ IF j < Len(Entry.levels)
       THEN j' = j + 1 /\ spc' = "number" /\ UNCHANGED calls
       ELSE spc' = "entry" /\ calls' = NextEntry /\ UNCHANGED j
  /\ test' = <<>>

SelectNext ==
  \/ EnterAlias
  \/ LeaveList
  \/ EnterNumbers
  \/ StartTest
  \/ NotFound
  \/ NextLevel
  \/ NextNumber

(* lzbench_test of the codec in hand returns. *)
TestReturns ==
  /\ spc = "test"
  /\ spc' = "next"
  /\ UNCHANGED <<calls, j, test>>

-------------------------------------------------------------------------------
(* The tests of an entry that is no alias, of an alias's entry, and of an   *)
(* entry asked for: the first codec of that name at every level given, or   *)
(* else at each of its own; an alias stands for its list.                   *)
Numbers(e) ==
  IF NamedBy(e) = {} THEN <<>>
  ELSE LET i == First(NamedBy(e))
       IN IF e.levels # <<>>
            THEN [k \in 1 .. Len(e.levels) |-> <<i, e.levels[k]>>]
            ELSE [k \in 1 .. Codecs[i].last - Codecs[i].first + 1 |->
                    <<i, Codecs[i].first + k - 1>>]

Direct(l) == [e \in Range(l) |-> Numbers(e)]

Within(l) ==
  [e \in Range(l) |-> IF IsAlias(e) THEN Joined(Aliases[e.name], Direct(Aliases[e.name]))
                                    ELSE Numbers(e)]

Expanded(l) ==
  Joined(l, [e \in Range(l) |->
               IF IsAlias(e) THEN Joined(Aliases[e.name], Within(Aliases[e.name]))
                             ELSE Numbers(e)])
===============================================================================
