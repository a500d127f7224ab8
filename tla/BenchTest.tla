------------------------------- MODULE BenchTest ------------------------------
(***************************************************************************)
(* lzbench_test: the speed prefilter, the compression loops, the           *)
(* decompression loops with their verification, and the row it reports.    *)
(*                                                                         *)
(* The calls of lzbench_compress and lzbench_decompress are the actions of *)
(* CodecCalls; a sequence of tests runs on the same three buffers.  Time   *)
(* is counted in ticks.  A turn of an inner loop is a call with the wait   *)
(* before it, from the clock read of loop_ticks or of the last end_ticks   *)
(* to that of start_ticks: reading clocks, recording, being preempted.  A  *)
(* call takes 0 to MaxCall ticks and a wait 0 to MaxGap, but no more than  *)
(* MaxQuick turns of a batch take none, and uni_sleep(1) takes at least    *)
(* one.                                                                    *)
(***************************************************************************)
EXTENDS CodecCalls, Totals, FiniteSets

CONSTANTS
  Params,     \* the option records to explore, see IsParams
  LoopTime,   \* DEFAULT_LOOP_TIME
  Size,       \* insize, in what 1 MB/s compresses in a tick
  PreSize,    \* the prefilter's share of it, MIN(100 KB, chunk_size)
  Precision,  \* 10000 ns: shorter calls are not recorded one by one
  MaxCall,    \* bound: longest call
  MaxGap,     \* bound: longest wait before a call
  MaxQuick,   \* bound: turns of one batch that take no tick
  MaxSleep,   \* bound: longest sleep
  MaxCalls,   \* bound: calls of either kind in one test; no test gets there
  MaxTests    \* bound: calls of lzbench_test

TimeType == {"fastest", "average", "median"}

IsParams(p) ==
  p \in [cIters : Nat, dIters : Nat, cMin : Nat, dMin : Nat, cLoop : Nat, dLoop : Nat,
         cspeed : Nat, compressOnly : BOOLEAN, dump : BOOLEAN, timetype : TimeType]

ASSUME BenchAssumption ==
  /\ \A p \in Params : IsParams(p)
  /\ {LoopTime, Size, PreSize, MaxGap, MaxTests} \subseteq Nat
  /\ {Precision, MaxCall, MaxQuick, MaxSleep, MaxCalls} \subseteq Nat \ {0}

VARIABLES
  pc,         \* where lzbench_test is
  params,     \* the options
  par,        \* the options of the running test: the memcpy test has its own
  workmem,    \* what desc->init returned: "null" or "held"
  iters,      \* i: the calls of the running batch
  total,      \* total_c_iters, then total_d_iters
  loopTime,   \* ticks since loop_ticks
  totalTime,  \* ticks since timer_ticks
  ctime, dtime,  \* the recorded times
  error,      \* decomp_error
  results,    \* params->results and the memcpy row, each with its test's log
  log,        \* history of the running test, see NoLog
  tests,      \* history: calls of lzbench_test so far
  live,       \* history: working memories allocated and not released
  slow        \* history: tests left by `return` for their speed

testVars == <<pc, params, par, workmem, iters, total, loopTime, totalTime,
              ctime, dtime, error, results, log, tests, live, slow>>
benchVars == <<testVars, callVars>>

-------------------------------------------------------------------------------
(* What is known of a running test beyond the program's own variables: the *)
(* calls made of each kind, the time from timer_ticks to the end of the     *)
(* finished loops, the shortest call and the longest turn of each kind, did *)
(* the running batch restore the input, and did all finished ones.          *)
NoLog == [ccalls |-> 0, dcalls |-> 0, cspan |-> 0, dspan |-> 0,
          cshort |-> MaxCall, clong |-> 0, dshort |-> MaxCall, dlong |-> 0,
          restored |-> FALSE, sound |-> TRUE]

Smaller(a, b) == IF a < b THEN a ELSE b
Larger(a, b) == IF a < b THEN b ELSE a

(* params_memcpy                                                            *)
Baseline(p) == [p EXCEPT !.cMin = 0, !.dMin = 0, !.cIters = 0, !.dIters = 0,
                         !.cLoop = LoopTime, !.dLoop = LoopTime]

CallTimes == 0 .. MaxCall

Gaps == 0 .. MaxGap

(* The turn that ends may have taken t ticks.                               *)
Passed(t) == iters < MaxQuick \/ t > 0

SleepTimes_None == {0}

SleepTimes == 1 .. MaxSleep

(* (uint32_t)speed < params->cspeed, speed being n * Size / time.  The cast *)
(* of an infinite speed may yield anything.                                 *)
MayBeSlow(n, time) ==
  par.cspeed > 0 /\ (time = 0 \/ n * Size < par.cspeed * time)

MayBeFast_Unchecked(n, time) == TRUE

MayBeFast(n, time) ==
  time = 0 \/ n * Size >= par.cspeed * time

(* A call is recorded by itself only if it is long enough.                  *)
Record(times, d) == IF d >= Precision THEN Append(times, d) ELSE times

QuotaMet_Either(n, time, minIters, minTime) == n >= minIters \/ time > minTime

QuotaMet(n, time, minIters, minTime) == n >= minIters /\ time > minTime

-------------------------------------------------------------------------------
Init ==
  /\ CallsInit
  /\ pc = "idle"
  /\ params \in Params
  /\ par = params
  /\ workmem = "null"
  /\ iters = 0 /\ total = 0 /\ loopTime = 0 /\ totalTime = 0
  /\ ctime = <<>> /\ dtime = <<>>
  /\ error = FALSE
  /\ results = <<>>
  /\ log = NoLog
  /\ tests = 0 /\ live = 0 /\ slow = 0

(* The entry of lzbench_test, up to the prefilter.  The first test of a run *)
(* is memcpy's, which has no working memory; a codec left out of the build  *)
(* is skipped.  An init that fails returns NULL, and the test goes on.      *)
Begin(usable, work) ==
  /\ pc = "idle" /\ tests < MaxTests
  /\ tests' = tests + 1
  /\ par' = IF tests = 0 THEN Baseline(params) ELSE params
  /\ NextTest
  /\ iters' = 0 /\ total' = 0 /\ loopTime' = 0 /\ totalTime' = 0
  /\ ctime' = <<>> /\ dtime' = <<>>
  /\ error' = FALSE
  /\ log' = NoLog
  /\ workmem' = work
  /\ live' = live + IF work = "held" THEN 1 ELSE 0
  /\ pc' = IF ~usable THEN "done" ELSE IF par'.cspeed > 0 THEN "filter" ELSE "csleep"
  /\ UNCHANGED <<params, results, slow>>

BeginTest ==
  \/ Begin(TRUE, "null")
  \/ tests > 0 /\ Begin(TRUE, "held")
  \/ tests > 0 /\ Begin(FALSE, "null")

(* One compression of the input's first 100 KB; its speed counts only if it *)
(* took a millisecond and succeeded (memcpy's never does).                  *)
Prefilter ==
  /\ pc = "filter"
  /\ \E d \in 0 .. MaxCall :
       pc' \in IF d >= 1 /\ tests > 1 /\ PreSize \div d < par.cspeed
                 THEN {"done", "csleep"} ELSE {"csleep"}
  /\ UNCHANGED <<params, par, workmem, iters, total, loopTime, totalTime, ctime,
                 dtime, error, results, log, tests, live, slow, callVars>>

(* The head of an outer loop: uni_sleep(1), then loop_ticks.                *)
Sleep(from, to) ==
  /\ pc = from
  /\ pc' = to
  /\ \E d \in SleepTimes : totalTime' = totalTime + d
  /\ iters' = 0
  /\ loopTime' = 0
  /\ log' = [log EXCEPT !.restored = FALSE]
  /\ UNCHANGED <<params, par, workmem, total, ctime, dtime, error, results,
                 tests, live, slow, callVars>>

SleepBeforeCompress == Sleep("csleep", "cloop")
SleepBeforeDecompress == Sleep("dsleep", "dloop")

StartCompress ==
  /\ pc = "cloop" /\ log.ccalls < MaxCalls
  /\ BeginCompress
  /\ UNCHANGED testVars

(* do { ... } while (GetDiffTime(loop_ticks, end_ticks) < cloop_time)       *)
FinishCompress ==
  /\ pc = "cloop"
  /\ EndCompress
  /\ \E d \in CallTimes, w \in Gaps :
       /\ Passed(w + d)
       /\ ctime' = Record(ctime, d)
       /\ loopTime' = loopTime + (w + d)
       /\ totalTime' = totalTime + (w + d)
       /\ log' = [log EXCEPT !.ccalls = @ + 1, !.cshort = Smaller(@, d),
                             !.clong = Larger(@, w + d)]
  /\ iters' = iters + 1
  /\ pc' = IF loopTime' < par.cLoop THEN "cloop" ELSE "cbatch"
  /\ UNCHANGED <<params, par, workmem, total, dtime, error, results, tests, live,
                 slow>>

(* The batch is slower than -s asks for: lzbench_test returns at once, past *)
(* desc->deinit.                                                            *)
LeaveSlow ==
  /\ pc = "cbatch"
  /\ MayBeSlow(iters, loopTime)
  /\ ctime' = Append(ctime, loopTime \div iters)
  /\ pc' = "idle"
  /\ workmem' = "null"
  /\ slow' = slow + 1
  /\ UNCHANGED <<params, par, iters, total, loopTime, totalTime, dtime, error,
                 results, log, tests, live, callVars>>

EndCompressBatch_FromTimer ==
  /\ pc = "cbatch"
  /\ MayBeFast(iters, loopTime)
  /\ ctime' = Append(ctime, totalTime \div iters)
  /\ IF QuotaMet(total + iters, totalTime, par.cIters, par.cMin)
       THEN /\ pc' = IF par.compressOnly THEN "report" ELSE "dsleep"
            /\ total' = 0
            /\ totalTime' = 0
            /\ log' = [log EXCEPT !.cspan = totalTime]
       ELSE /\ pc' = "csleep"
            /\ total' = total + iters
            /\ UNCHANGED <<totalTime, log>>
  /\ UNCHANGED <<params, par, workmem, iters, loopTime, dtime, error, results,
                 tests, live, slow, callVars>>

EndCompressBatch ==
  /\ pc = "cbatch"
  /\ MayBeFast(iters, loopTime)
  /\ ctime' = Append(ctime, loopTime \div iters)
  /\ IF QuotaMet(total + iters, totalTime, par.cIters, par.cMin)
       THEN /\ pc' = IF par.compressOnly THEN "report" ELSE "dsleep"
            /\ total' = 0
            /\ totalTime' = 0
            /\ log' = [log EXCEPT !.cspan = totalTime]
       ELSE /\ pc' = "csleep"
            /\ total' = total + iters
            /\ UNCHANGED <<totalTime, log>>
  /\ UNCHANGED <<params, par, workmem, iters, loopTime, dtime, error, results,
                 tests, live, slow, callVars>>

-------------------------------------------------------------------------------
StartDecompress ==
  /\ pc = "dloop" /\ log.dcalls < MaxCalls
  /\ BeginDecompress
  /\ UNCHANGED testVars

FinishDecompress ==
  /\ pc = "dloop"
  /\ EndDecompress
  /\ \E d \in CallTimes, w \in Gaps :
       /\ Passed(w + d)
       /\ dtime' = Record(dtime, d)
       /\ loopTime' = loopTime + (w + d)
       /\ totalTime' = totalTime + (w + d)
       /\ log' = [log EXCEPT !.dcalls = @ + 1, !.dshort = Smaller(@, d),
                             !.dlong = Larger(@, w + d),
                             !.restored = @ \/ (output = "other" /\ output' = "equal")]
  /\ iters' = iters + 1
  /\ pc' = IF loopTime' < par.dLoop THEN "dloop" ELSE "dbatch"
  /\ UNCHANGED <<params, par, workmem, total, ctime, error, results, tests, live,
                 slow>>

Mismatch == output = "other"

Wrong_AfterClear == error \/ length = "other" \/ Cleared = "other"

Wrong == error \/ length = "other" \/ Mismatch

(* With -v10 a mismatch is dumped to a file and the program exits.          *)
ExitOnMismatch ==
  /\ pc = "dbatch" /\ call = "none"
  /\ par.dump /\ Mismatch
  /\ dtime' = Append(dtime, loopTime \div iters)
  /\ error' = TRUE
  /\ pc' = "exited"
  /\ UNCHANGED <<params, par, workmem, iters, total, loopTime, totalTime, ctime,
                 results, log, tests, live, slow, callVars>>

(* Verification of the last call's output, then the output is cleared.      *)
EndDecompressBatch_NoClear ==
  /\ pc = "dbatch"
  /\ ~(par.dump /\ Mismatch)
  /\ dtime' = Append(dtime, loopTime \div iters)
  /\ error' = Wrong
  /\ log' = [log EXCEPT !.sound = @ /\ log.restored, !.dspan = totalTime]
  /\ IF Wrong \/ QuotaMet(total + iters, totalTime, par.dIters, par.dMin)
       THEN pc' = "report" /\ UNCHANGED total
       ELSE pc' = "dsleep" /\ total' = total + iters
  /\ UNCHANGED <<params, par, workmem, iters, loopTime, totalTime, ctime, results,
                 tests, live, slow, callVars>>

EndDecompressBatch ==
  /\ pc = "dbatch"
  /\ ~(par.dump /\ Mismatch)
  /\ dtime' = Append(dtime, loopTime \div iters)
  /\ error' = Wrong
  /\ ClearOutput
  /\ log' = [log EXCEPT !.sound = @ /\ log.restored, !.dspan = totalTime]
  /\ IF Wrong \/ QuotaMet(total + iters, totalTime, par.dIters, par.dMin)
       THEN pc' = "report" /\ UNCHANGED total
       ELSE pc' = "dsleep" /\ total' = total + iters
  /\ UNCHANGED <<params, par, workmem, iters, loopTime, totalTime, ctime, results,
                 tests, live, slow>>

-------------------------------------------------------------------------------
(* The n-th of the times, once they are sorted.                             *)
Ranked(times, n) ==
  CHOOSE t \in {times[k] : k \in DOMAIN times} :
    /\ Cardinality({k \in DOMAIN times : times[k] < t}) < n
    /\ Cardinality({k \in DOMAIN times : times[k] <= t}) >= n

(* print_stats: the time a row shows, 0 when nothing was measured.          *)
Chosen(times) ==
  LET n == Len(times)
  IN CASE par.timetype = "fastest" -> Ranked(times, 1)
       [] par.timetype = "average" -> Sum(times) \div n
       [] par.timetype = "median" ->
            (Ranked(times, (n - 1) \div 2 + 1) + Ranked(times, n \div 2 + 1)) \div 2

Best(times) == IF times = <<>> THEN 0 ELSE Chosen(times)

(* The decompression time: 0 for a codec that failed, shown as ERROR.       *)
ShownTime(times) == IF error THEN 0 ELSE Best(times)

Report ==
  /\ pc = "report"
  /\ results' = Append(results, [ctime |-> Best(ctime), dtime |-> ShownTime(dtime),
                                 par |-> par, log |-> log])
  /\ ctime' = <<>>
  /\ dtime' = <<>>
  /\ pc' = "done"
  /\ UNCHANGED <<params, par, workmem, iters, total, loopTime, totalTime, error,
                 log, tests, live, slow, callVars>>

(* done: if (desc->deinit) desc->deinit(workmem)                            *)
Done_NoDeinit ==
  /\ pc = "done"
  /\ pc' = "idle"
  /\ workmem' = "null"
  /\ UNCHANGED <<params, par, iters, total, loopTime, totalTime, ctime, dtime,
                 error, results, log, tests, live, slow, callVars>>

Done_Always ==
  /\ pc = "done"
  /\ pc' = "idle"
  /\ workmem' = "null"
  /\ live' = live - 1
  /\ UNCHANGED <<params, par, iters, total, loopTime, totalTime, ctime, dtime,
                 error, results, log, tests, slow, callVars>>

Done ==
  /\ pc = "done"
  /\ pc' = "idle"
  /\ workmem' = "null"
  /\ live' = live - IF workmem = "held" THEN 1 ELSE 0
  /\ UNCHANGED <<params, par, iters, total, loopTime, totalTime, ctime, dtime,
                 error, results, log, tests, slow, callVars>>

(* All tests are run, or the program has exited.                            *)
Ended == pc = "exited" \/ (pc = "idle" /\ tests = MaxTests)

(* A test that has used up MaxCalls, were there one, would go on for ever.  *)
Endless ==
  /\ call = "none"
  /\ (pc = "cloop" /\ log.ccalls = MaxCalls) \/ (pc = "dloop" /\ log.dcalls = MaxCalls)

Finished ==
  /\ Ended \/ Endless
  /\ UNCHANGED benchVars

Next ==
  \/ BeginTest
  \/ Prefilter
  \/ SleepBeforeCompress
  \/ StartCompress
  \/ FinishCompress
  \/ LeaveSlow
  \/ EndCompressBatch
  \/ SleepBeforeDecompress
  \/ StartDecompress
  \/ FinishDecompress
  \/ ExitOnMismatch
  \/ EndDecompressBatch
  \/ Report
  \/ Done
  \/ Finished

Spec == Init /\ [][Next]_benchVars

(* One thread that is never blocked for good: it keeps taking steps.        *)
FairSpec == Spec /\ WF_benchVars(Next)

-------------------------------------------------------------------------------
TypeOK ==
  /\ CallsTypeOK
  /\ pc \in {"idle", "filter", "csleep", "cloop", "cbatch", "dsleep", "dloop",
             "dbatch", "report", "done", "exited"}
  /\ params \in Params
  /\ IsParams(par)
  /\ workmem \in {"null", "held"}
  /\ {iters, total, loopTime, totalTime, live, slow} \subseteq Nat
  /\ tests \in 0 .. MaxTests
  /\ ctime \in Seq(Nat) /\ dtime \in Seq(Nat)
  /\ error \in BOOLEAN
  /\ DOMAIN log = DOMAIN NoLog
  /\ Len(results) <= tests

Rows == {results[k] : k \in DOMAIN results}

(* A row shows a decompression time only if in every batch behind it a call *)
(* really produced the input: what an earlier batch or test left in the     *)
(* shared output buffer never stands in for a decoder that wrote nothing    *)
(* (lzbench_test, memset after memcmp).  Void for an input of zero bytes.   *)
DecodedEachBatch ==
  ~Blank => \A r \in Rows : r.dtime # 0 => r.log.sound

(* A lossless codec with room in compbuf is never flagged, whatever the     *)
(* tests before it left in the buffers (lzbench_test, decomp_error).        *)
LosslessPasses == Lossless /\ Roomy => ~error

(* -i and -t are minimums: however calls and batches fall, a row without    *)
(* error stands for at least the asked number of calls and more than the    *)
(* asked time, in each direction (README.md, -iX,Y and -tX,Y).              *)
EnoughWork ==
  \A r \in Rows :
    /\ r.log.ccalls >= r.par.cIters /\ r.log.cspan > r.par.cMin
    /\ r.dtime # 0 => r.log.dcalls >= r.par.dIters /\ r.log.dspan > r.par.dMin

(* The time shown is no shorter than the shortest call and no longer than   *)
(* the longest turn: a mean charges the codec with the waits between its    *)
(* calls, but not with a sleep, and divides by no wrong number of calls.    *)
(* With -p1, and calls that are long enough to be recorded, no mean hides   *)
(* the shortest call: it is what the row shows (lzbench_test, print_stats). *)
TimesWithinTurns ==
  \A r \in Rows :
    LET exact(shown, short) ==
          r.par.timetype = "fastest" /\ short >= Precision => shown = short
    IN /\ r.ctime \in r.log.cshort .. r.log.clong
       /\ exact(r.ctime, r.log.cshort)
       /\ r.dtime # 0 => /\ r.dtime \in r.log.dshort .. r.log.dlong
                         /\ exact(r.dtime, r.log.dshort)

(* With -s and -p1 the speed shown is at least the one asked for: the test  *)
(* is on batches, the row on the shortest recorded time (README.md, -s).    *)
FastRowsOnly ==
  \A r \in Rows : r.par.timetype = "fastest" => r.ctime * r.par.cspeed <= Size

(* A test that ends has released its working memory, unless it left by the  *)
(* early return for slow codecs (lzbench_test, `return` past done:).        *)
LeaksOnlyWhenSlow == pc = "idle" => live <= slow

(* Every test ends, within MaxCalls calls, even with codecs too fast for    *)
(* the clock and with -t0 -u0: the sleep before each batch moves the time   *)
(* on (lzbench_test).                                                       *)
RunEnds == <>Ended
===============================================================================
