----------------------------- MODULE MCBenchTest ------------------------------
(***************************************************************************)
(* Instances of BenchTest for TLC: the option records of a few command     *)
(* lines, in ticks.  The tests are memcpy's and one or two codecs'.        *)
(***************************************************************************)
EXTENDS BenchTest

Defaults == [cIters |-> 1, dIters |-> 1, cMin |-> 1, dMin |-> 2,
             cLoop |-> 2, dLoop |-> 2, cspeed |-> 0, compressOnly |-> FALSE,
             dump |-> FALSE, timetype |-> "fastest"]

(* -t0 -u0 -i2,2: one call per batch.                                       *)
CountOnly == [Defaults EXCEPT !.cIters = 2, !.dIters = 2, !.cMin = 0, !.dMin = 0,
                              !.cLoop = 0, !.dLoop = 0]

TimeAndCount == {Defaults,
                 [CountOnly EXCEPT !.compressOnly = TRUE, !.timetype = "average"],
                 [CountOnly EXCEPT !.dump = TRUE, !.timetype = "median"]}

(* -s5                                                                      *)
Selective == {[Defaults EXCEPT !.cspeed = 5, !.compressOnly = TRUE],
              [CountOnly EXCEPT !.cspeed = 5, !.compressOnly = TRUE,
                                !.timetype = "median"]}

CommandLines == TimeAndCount \cup Selective

Ending == {CountOnly, Defaults}
===============================================================================
