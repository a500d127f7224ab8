-------------------------------- MODULE Totals --------------------------------
(***************************************************************************)
(* Loops over a table, in a form that can be reasoned about: adding up file *)
(* sizes, as UTIL_getTotalFileSize does, and putting one list after the    *)
(* other.                                                                  *)
(***************************************************************************)
EXTENDS Integers, Sequences

(* total, after each turn of the loop over the first n of the table s.      *)
TotalAfter(s, n) ==
  LET after[k \in 0 .. n] == IF k = 0 THEN 0 ELSE after[k - 1] + s[k]
  IN after

SumTo(s, n) == TotalAfter(s, n)[n]

Sum(s) == SumTo(s, Len(s))

(* The sequences that parts has for the first n elements of s, one after    *)
(* the other.                                                               *)
JoinedAfter(s, parts, n) ==
  LET after[k \in 0 .. n] == IF k = 0 THEN <<>> ELSE after[k - 1] \o parts[s[k]]
  IN after

JoinedTo(s, parts, n) == JoinedAfter(s, parts, n)[n]

Joined(s, parts) == JoinedTo(s, parts, Len(s))
===============================================================================
