------------------------------ MODULE CommandLine -----------------------------
(***************************************************************************)
(* main: options, the list of files, and for each file the tests that the  *)
(* list of codecs asks for, down to the chunks of each test.               *)
(*                                                                         *)
(* Composition of Options, FileList, Selection and Chunking, whose actions *)
(* are taken in the order in which main and what it calls take them.  Of   *)
(* lzbench_main and lzbench_join only the order of tests is kept: files    *)
(* have one size and can be read, and buffers and parts read while files   *)
(* change are LzbenchMain's and LzbenchJoin's subject.                     *)
(***************************************************************************)
EXTENDS Options, FileList, Selection, Chunking

CONSTANTS
  FileSize  \* for each path that is a regular file its size

ASSUME CommandLineAssumption ==
  /\ FileSize \in [DOMAIN FileSize -> Nat]
  /\ DOMAIN FileSize \subseteq Path \ Dir
  /\ \A a \in Arguments : a.path \in Path
  /\ \A l \in Letters : l.letter = "e" => IsList(l.list)
  /\ "fast" \in DOMAIN Aliases

VARIABLES
  phase,    \* where main, lzbench_main or lzbench_join is
  at,       \* the file name in hand
  rest,     \* bytes of the file, or of all files, not yet tested
  job,      \* file_sizes of the part being tested
  ran       \* history: tests of the running lzbench_test_with_params

mainVars == <<phase, at, rest, job, ran>>
vars == <<optionVars, listVars, selectVars, chunkVars, mainVars>>

-------------------------------------------------------------------------------
Init ==
  /\ OptionsInit
  /\ ListInit
  /\ SelectInit
  /\ ChunkingInit
  /\ phase = "options"
  /\ at = 1 /\ rest = 0
  /\ job = <<>>
  /\ ran = <<>>

Parse ==
  /\ phase = "options"
  /\ OptionsNext
  /\ UNCHANGED <<listVars, selectVars, chunkVars, mainVars>>

(* Help, -l, an unknown option, or no file names. *)
StopEarly ==
  /\ phase = "options" /\ opc \in {"clean", "unknown", "listed"}
  /\ phase' = "end"
  /\ UNCHANGED <<optionVars, listVars, selectVars, chunkVars, at, rest, job, ran>>

GoOn ==
  /\ phase = "options" /\ opc = "go"
  /\ phase' = IF params.recursive THEN "list" ELSE "inputs"
  /\ UNCHANGED <<optionVars, listVars, selectVars, chunkVars, at, rest, job, ran>>

Walk ==
  /\ phase = "list"
  /\ CreateList(names) \/ WalkNext
  /\ UNCHANGED <<optionVars, selectVars, chunkVars, mainVars>>

(* Without a list main keeps the names it was given. *)
UseList ==
  /\ phase = "list" /\ lpc \in {"built", "null"}
  /\ names' = IF lpc = "built" THEN table ELSE names
  /\ phase' = "inputs"
  /\ UNCHANGED <<argv, letters, params, opc, said, listVars, selectVars, chunkVars,
                 at, rest, job, ran>>

Readable(k) == names[k] \in DOMAIN FileSize

(* lzbench_join: all files at once, or none if they add up to nothing.      *)
JoinInputs ==
  /\ phase = "inputs" /\ params.join /\ at = 1
  /\ job' = Joined(names, [p \in Path |-> IF p \in DOMAIN FileSize THEN <<FileSize[p]>>
                                                                   ELSE <<>>])
  /\ at' = Len(names) + 1
  /\ rest' = Sum(job')
  /\ phase' = IF rest' = 0 THEN "inputs" ELSE "memcpy"
  /\ UNCHANGED <<optionVars, listVars, selectVars, chunkVars, ran>>

(* lzbench_main: a file after the other, memcpy with the first argument. *)
Limit(n) ==
  IF params.randomRead THEN Smaller(n, params.chunkSize)
  ELSE IF params.memLimit > 0 THEN Smaller(n, params.memLimit)
  ELSE n

OpenInput ==
  /\ phase = "inputs" /\ ~params.join /\ at <= Len(names) /\ Readable(at)
  /\ LET size == FileSize[names[at]]
     IN /\ rest' = size
        /\ job' = <<Limit(size)>>
        /\ phase' = IF params.randomRead /\ params.chunkSize = 0 /\ size > 0
                      THEN "crashed"    \* real_insize / params->chunk_size
                      ELSE IF at = 1 THEN "memcpy" ELSE "select"
  /\ UNCHANGED <<optionVars, listVars, selectVars, chunkVars, at, ran>>

SkipInput ==
  /\ phase = "inputs" /\ ~params.join /\ at <= Len(names) /\ ~Readable(at)
  /\ at' = at + 1
  /\ UNCHANGED <<optionVars, listVars, selectVars, chunkVars, phase, rest, job, ran>>

Split(maxBlock) == SplitStart(job, params.chunkSize, Sum(job), maxBlock)

TestMemcpy ==
  /\ phase = "memcpy"
  /\ \/ Split(0) /\ UNCHANGED phase
     \/ SplitNext /\ UNCHANGED phase
     \/ SplitUsed /\ phase' = "select"
  /\ UNCHANGED <<optionVars, listVars, selectVars, at, rest, job, ran>>

(* encoder_list, or else the first alias, "fast". *)
Asked == IF params.encoders = None THEN Aliases["fast"] ELSE params.encoders

Select ==
  /\ phase = "select"
  /\ SelectStart(Asked)
  /\ ran' = <<>>
  /\ phase' = "selecting"
  /\ UNCHANGED <<optionVars, listVars, chunkVars, at, rest, job>>

Selecting ==
  /\ phase = "selecting"
  /\ SelectNext
  /\ phase' = IF spc' = "idle" THEN "selected" ELSE phase
  /\ UNCHANGED <<optionVars, listVars, chunkVars, at, rest, job, ran>>

(* lzbench_test of the codec in hand, up to its chunks. *)
StartCodec ==
  /\ phase = "selecting" /\ spc = "test"
  /\ Codecs[test[1]].works
  /\ Split(Codecs[test[1]].maxBlock)
  /\ ran' = Append(ran, test)
  /\ UNCHANGED <<optionVars, listVars, selectVars, phase, at, rest, job>>

(* Not built in, or too slow for -s: goto done. *)
DropCodec ==
  /\ phase = "selecting" /\ spc = "test" /\ cpc = "idle"
  /\ ~Codecs[test[1]].works \/ params.cSpeed > 0
  /\ TestReturns
  /\ ran' = Append(ran, test)
  /\ UNCHANGED <<optionVars, listVars, chunkVars, phase, at, rest, job>>

CutCodec ==
  /\ phase = "selecting" /\ spc = "test"
  /\ \/ SplitNext /\ UNCHANGED selectVars
     \/ SplitUsed /\ TestReturns
  /\ UNCHANGED <<optionVars, listVars, mainVars>>

(* The next part of the file (-m), or the next file. *)
NextPart ==
  /\ phase = "selected"
  /\ LET left_ == rest - Sum(job)
         again == left_ > 0 /\ ~params.randomRead
     IN /\ rest' = IF again THEN left_ ELSE 0
        /\ job' = IF again THEN <<Limit(left_)>> ELSE <<>>
        /\ phase' = IF again THEN "select" ELSE "inputs"
        /\ at' = IF again THEN at ELSE at + 1
  /\ UNCHANGED <<optionVars, listVars, selectVars, chunkVars, ran>>

(* The rows are sorted (-c) and printed, and the lists are freed. *)
EndMain ==
  /\ phase = "inputs" /\ at > Len(names)
  /\ phase' = "end"
  /\ UNCHANGED <<optionVars, listVars, selectVars, chunkVars, at, rest, job, ran>>

Dead == phase = "crashed" \/ cpc = "aborted"

Finished == (phase = "end" \/ Dead) /\ UNCHANGED vars

MainStep ==
  \/ Parse
  \/ StopEarly
  \/ GoOn
  \/ Walk
  \/ UseList
  \/ JoinInputs
  \/ OpenInput
  \/ SkipInput
  \/ TestMemcpy
  \/ Select
  \/ Selecting
  \/ StartCodec
  \/ DropCodec
  \/ CutCodec
  \/ NextPart
  \/ EndMain

Next == MainStep \/ Finished

Spec == Init /\ [][Next]_vars

(* One thread that goes on running. *)
FairSpec == Spec /\ WF_vars(MainStep)

-------------------------------------------------------------------------------
TypeOK ==
  /\ OptionsTypeOK
  /\ ListTypeOK
  /\ ChunkingTypeOK
  /\ spc \in {"idle", "entry", "number", "test", "next", "tested"}
  /\ phase \in {"options", "list", "inputs", "memcpy", "select", "selecting",
                "selected", "crashed", "end"}
  /\ at \in 1 .. Len(names) + 1 \cup {Len(names) + 2}
  /\ rest \in Nat /\ job \in Seq(Nat)

(* If no call fails, -r finds every file under the arguments, except names  *)
(* longer than a step of the buffer, and each once unless the arguments     *)
(* themselves name a file twice; it gives up only if there is none (util.h, *)
(* comment of UTIL_createFileList).                                         *)
ListIsFound ==
  phase = "list" /\ faults = 0 /\ lpc \in {"built", "null"} =>
    LET files == Under(Range(names)) \ Dir
        short == {p \in files : Length[p] < ListStep}
        apart == \A k, q \in DOMAIN names :
                   k # q => Under({names[k]}) \cap Under({names[q]}) = {}
    IN /\ short \subseteq Range(table) /\ Range(table) \subseteq files
       /\ apart => \A k, q \in DOMAIN table : k # q => table[k] # table[q]
       /\ lpc = "null" => short = {}

(* Every codec of the list and of the aliases it names is tested at every   *)
(* level asked for, or else at each of its own, in the order of the list,   *)
(* and a name that is no codec's stops none of the others.                  *)
EveryLevelOnce == phase = "selected" => ran = Expanded(Asked)

(* main ends, whatever is asked of it.  The one exception is a chunk_size   *)
(* of 0: -b0, or a number whose product with 1024 is 0 in a word.           *)
MainEnds == <>(phase = "end" \/ (Dead /\ params.chunkSize = 0))
===============================================================================
