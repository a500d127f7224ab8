---------------------------- MODULE MCLzbenchMain -----------------------------
(***************************************************************************)
(* Instances of LzbenchMain for TLC: files of up to three parts, with      *)
(* mem_limit and chunk_size a few bytes.                                   *)
(***************************************************************************)
EXTENDS LzbenchMain

Whole == [memLimit |-> 0, chunkSize |-> 2, randomRead |-> FALSE]
Limit == [Whole EXCEPT !.memLimit = 3]
Sample == [Whole EXCEPT !.randomRead = TRUE]

(* No option, -m, -R. *)
OneOption == {Whole, Limit, Sample}

(* -m with -R, and a chunk_size above mem_limit as the default one is. *)
LimitedSample == {[Limit EXCEPT !.randomRead = TRUE, !.chunkSize = 5]}
===============================================================================
