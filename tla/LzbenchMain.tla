------------------------------ MODULE LzbenchMain -----------------------------
(***************************************************************************)
(* lzbench_main: one input file after the other, whole, in parts of        *)
(* mem_limit bytes (-m), or one randomly placed chunk of it (-R).          *)
(*                                                                         *)
(* The files change under the program's feet (InputFiles).  A call of      *)
(* lzbench_test or lzbench_test_with_params is one step here, recorded     *)
(* with the bytes it tests and the room it is given: see BenchTest.        *)
(***************************************************************************)
EXTENDS InputFiles

CONSTANTS
  Params,     \* the option records to explore, see IsParams
  PadSize,    \* PAD_SIZE
  ExpandDiv   \* the 6 of GET_COMPRESS_BOUND

(* A memLimit of 0 is no limit; any other is a multiple of 2^18, far above  *)
(* PAD_SIZE.  A chunk_size of 0, which -b0 sets, is left out: the README    *)
(* says what becomes of it.                                                 *)
IsParams(p) ==
  /\ {p.memLimit, p.chunkSize} \subseteq Nat
  /\ p.chunkSize > 0
  /\ p.memLimit > 0 => 3 * PadSize + p.memLimit \div ExpandDiv <= p.memLimit
  /\ p.randomRead \in BOOLEAN

ASSUME MainAssumption ==
  /\ PadSize \in Nat
  /\ ExpandDiv \in Nat \ {0}
  /\ \A p \in Params : IsParams(p)

VARIABLES
  pc,         \* where lzbench_main is
  params,     \* the options
  i,          \* the argument in hand
  pos,        \* position of the stream in
  eof,        \* its end-of-file indicator
  realInsize, \* real_insize
  insize,     \* bytes to read, then bytes read
  comprsize,  \* size of compbuf, 0 when there is none
  room,       \* size of inbuf and of decomp, 0 when there are none
  start,      \* history: where in the file the first read begins
  tested,     \* history: the parts of the file in hand given to the codecs
  header,     \* history: the header and the memcpy row are printed
  asked,      \* history: the number of bytes fread was last asked for
  still       \* history: the file has not changed since it was opened

runVars == <<pc, params, i, pos, eof, realInsize, insize, comprsize, room, start,
             tested, header, asked, still>>
mainVars == <<runVars, fileVars>>

-------------------------------------------------------------------------------
CompressBound(n) == n + n \div ExpandDiv + PadSize

Limited == params.memLimit > 0 /\ realInsize > params.memLimit

(* The insize bytes before pos. *)
Part == [from |-> pos - insize, len |-> insize]

Init ==
  /\ FilesInit
  /\ pc = "next"
  /\ params \in Params
  /\ i = 1
  /\ pos = 0 /\ eof = FALSE
  /\ realInsize = 0 /\ insize = 0 /\ comprsize = 0 /\ room = 0
  /\ start = 0
  /\ tested = {} /\ header = FALSE
  /\ asked = 0
  /\ still = TRUE

SkipDirectory ==
  /\ pc = "next" /\ i <= Files
  /\ kind[i] = "directory"
  /\ i' = i + 1
  /\ UNCHANGED <<pc, params, pos, eof, realInsize, insize, comprsize, room, start,
                 tested, header, asked, still, fileVars>>

(* fopen fails: "missing" is here every file it refuses, whatever the reason. *)
SkipUnreadable ==
  /\ pc = "next" /\ i <= Files
  /\ kind[i] = "missing"
  /\ i' = i + 1
  /\ UNCHANGED <<pc, params, pos, eof, realInsize, insize, comprsize, room, start,
                 tested, header, asked, still, fileVars>>

OpenFile ==
  /\ pc = "next" /\ i <= Files
  /\ kind[i] = "regular"
  /\ pc' = "measure"
  /\ tested' = {}
  /\ still' = TRUE
  /\ UNCHANGED <<params, i, pos, eof, realInsize, insize, comprsize, room, start,
                 header, asked, fileVars>>

(* fseeko to the end, ftello, rewind. *)
Measure ==
  /\ pc = "measure"
  /\ realInsize' = size[i]
  /\ insize' = IF params.memLimit > 0 /\ size[i] > params.memLimit
                 THEN params.memLimit ELSE size[i]
  /\ pos' = 0
  /\ eof' = FALSE
  /\ pc' = "allocate"
  /\ UNCHANGED <<params, i, comprsize, room, start, tested, header, asked,
                 still, fileVars>>

Allocate_AfterRead ==
  /\ pc = "allocate"
  /\ room' = realInsize
  /\ comprsize' = CompressBound(insize)
  /\ pc' = IF params.randomRead THEN "seek" ELSE "read"
  /\ UNCHANGED <<params, i, pos, eof, realInsize, insize, start, tested, header,
                 asked, still, fileVars>>

Allocate ==
  /\ pc = "allocate"
  /\ room' = insize + PadSize
  /\ comprsize' = CompressBound(insize)
  /\ pc' = IF params.randomRead THEN "seek" ELSE "read"
  /\ UNCHANGED <<params, i, pos, eof, realInsize, insize, start, tested, header,
                 asked, still, fileVars>>

(* alloc_and_touch writes to the buffer before anybody looks whether there  *)
(* is one.                                                                  *)
AllocationFails ==
  /\ pc = "allocate"
  /\ pc' = "crashed"
  /\ UNCHANGED <<params, i, pos, eof, realInsize, insize, comprsize, room, start,
                 tested, header, asked, still, fileVars>>

(* rand() % (real_insize / chunk_size) chooses a chunk; the rest after the  *)
(* last whole chunk is never chosen.                                        *)
Positions_PastLast == {q * params.chunkSize : q \in 0 .. realInsize \div params.chunkSize}

Positions == {q * params.chunkSize : q \in 0 .. realInsize \div params.chunkSize - 1}

Seek ==
  /\ pc = "seek"
  /\ IF params.chunkSize < realInsize
       THEN pos' \in Positions /\ insize' = params.chunkSize
       ELSE insize' = realInsize /\ UNCHANGED pos
  /\ pc' = "read"
  /\ UNCHANGED <<params, i, eof, realInsize, comprsize, room, start, tested,
                 header, asked, still, fileVars>>

(* insize = fread(inbuf, 1, insize, in).  Once the indicator is set a read  *)
(* gets nothing, or, with older C libraries, what there is.                 *)
Fread ==
  LET n == Available(i, pos, insize)
  IN /\ asked' = insize
     /\ insize' \in IF eof THEN {0, n} ELSE {n}
     /\ pos' = pos + insize'
     /\ eof' = (eof \/ n < insize)

ReadFirst_SomeBytes ==
  /\ pc = "read"
  /\ Fread
  /\ start' = pos
  /\ pc' = IF i = 1 /\ insize' > 0 THEN "baseline" ELSE "test"
  /\ UNCHANGED <<params, i, realInsize, comprsize, room, tested, header, still,
                 fileVars>>

ReadFirst ==
  /\ pc = "read"
  /\ Fread
  /\ start' = pos
  /\ pc' = IF i = 1 THEN "baseline" ELSE "test"
  /\ UNCHANGED <<params, i, realInsize, comprsize, room, tested, header, still,
                 fileVars>>

(* The header and the memcpy row: compbuf is passed as insize bytes long.   *)
TestBaseline ==
  /\ pc = "baseline"
  /\ header' = TRUE
  /\ pc' = "test"
  /\ UNCHANGED <<params, i, pos, eof, realInsize, insize, comprsize, room, start,
                 tested, asked, still, fileVars>>

TestWhole ==
  /\ pc = "test" /\ ~Limited
  /\ tested' = tested \cup {Part}
  /\ pc' = "close"
  /\ UNCHANGED <<params, i, pos, eof, realInsize, insize, comprsize, room, start,
                 header, asked, still, fileVars>>

TestPart_OuterIndex ==
  /\ pc = "test" /\ Limited /\ insize > 0
  /\ tested' = tested \cup {Part}
  /\ pc' = "more"
  /\ i' = i + 1
  /\ UNCHANGED <<params, pos, eof, realInsize, insize, comprsize, room, start,
                 header, asked, still, fileVars>>

(* for (i=1; insize > 0; i++), with an i of its own.                        *)
TestPart ==
  /\ pc = "test" /\ Limited /\ insize > 0
  /\ tested' = tested \cup {Part}
  /\ pc' = "more"
  /\ UNCHANGED <<params, i, pos, eof, realInsize, insize, comprsize, room, start,
                 header, asked, still, fileVars>>

ReadNext_RealSize ==
  /\ pc = "more"
  /\ \E n \in {Available(i, pos, realInsize)} :
       /\ asked' = realInsize
       /\ insize' = n
       /\ pos' = pos + n
       /\ eof' = (n < realInsize)
  /\ pc' = "test"
  /\ UNCHANGED <<params, i, realInsize, comprsize, room, start, tested, header,
                 still, fileVars>>

ReadNext_Rewound ==
  /\ pc = "more"
  /\ asked' = insize
  /\ insize' = Available(i, 0, insize)
  /\ pos' = insize'
  /\ pc' = "test"
  /\ UNCHANGED <<params, i, eof, realInsize, comprsize, room, start, tested, header,
                 still, fileVars>>

ReadNext ==
  /\ pc = "more"
  /\ Fread
  /\ pc' = "test"
  /\ UNCHANGED <<params, i, realInsize, comprsize, room, start, tested, header,
                 still, fileVars>>

LeaveParts_ShortLast ==
  /\ pc = "test" /\ Limited /\ insize < params.memLimit
  /\ pc' = "close"
  /\ UNCHANGED <<params, i, pos, eof, realInsize, insize, comprsize, room, start,
                 tested, header, asked, still, fileVars>>

LeaveParts ==
  /\ pc = "test" /\ Limited /\ insize = 0
  /\ pc' = "close"
  /\ UNCHANGED <<params, i, pos, eof, realInsize, insize, comprsize, room, start,
                 tested, header, asked, still, fileVars>>

CloseFile ==
  /\ pc = "close"
  /\ comprsize' = 0
  /\ room' = 0
  /\ i' = i + 1
  /\ pc' = "next"
  /\ UNCHANGED <<params, pos, eof, realInsize, insize, start, tested, header,
                 asked, still, fileVars>>

Others ==
  /\ Interfere
  /\ still' = (still /\ \A f \in File : f = i => size'[f] = size[f])
  /\ UNCHANGED <<pc, params, i, pos, eof, realInsize, insize, comprsize, room,
                 start, tested, header, asked>>

Ended == pc = "crashed" \/ (pc = "next" /\ i > Files)

Finished == Ended /\ UNCHANGED mainVars

MainStep ==
  \/ SkipDirectory
  \/ SkipUnreadable
  \/ OpenFile
  \/ Measure
  \/ Allocate
  \/ AllocationFails
  \/ Seek
  \/ ReadFirst
  \/ TestBaseline
  \/ TestWhole
  \/ TestPart
  \/ ReadNext
  \/ LeaveParts
  \/ CloseFile

Next == MainStep \/ Others \/ Finished

Spec == Init /\ [][Next]_mainVars

(* The program keeps running; others need not do anything. *)
FairSpec == Spec /\ WF_mainVars(MainStep)

-------------------------------------------------------------------------------
TypeOK ==
  /\ FilesTypeOK
  /\ pc \in {"next", "measure", "allocate", "seek", "read", "baseline",
             "test", "more", "close", "crashed"}
  /\ params \in Params
  /\ i \in 1 .. Files + 1
  /\ pc \notin {"next", "crashed"} => i <= Files
  /\ {pos, realInsize, insize, comprsize, room, start, asked} \subseteq Nat
  /\ {eof, still, header} \subseteq BOOLEAN
  /\ \A p \in tested : {p.from, p.len} \subseteq Nat

(* No read is longer than the buffers, and whatever it gets has the bound   *)
(* of lzbench_compress in compbuf, although both were allocated for the     *)
(* size the file had before others changed it.                              *)
ReadsFit ==
  pc \in {"baseline", "test", "more"} =>
    /\ asked <= room
    /\ CompressBound(insize) <= comprsize

Bytes(p) == p.from .. p.from + p.len - 1
Tested == UNION {Bytes(p) : p \in tested}

(* The parts tested follow each other without gap or overlap from where the *)
(* first read began, and a file that nobody changes is tested whole (or,    *)
(* with -R, one whole chunk of it).                                         *)
PartsCover ==
  /\ \A p, q \in tested : p = q \/ Bytes(p) \cap Bytes(q) = {}
  /\ pc \in {"more", "close"} => Tested = start .. pos - 1
  /\ pc = "close" /\ still =>
       pos - start = IF params.randomRead THEN Smaller(params.chunkSize, realInsize)
                                          ELSE realInsize

(* The memcpy row comes before any codec's, unless the first argument is    *)
(* the one that could not be read (lzbench_main, `if (i == 0)`).            *)
MemcpyFirst == tested # {} => header \/ kind[1] # "regular"

(* With -m the three buffers together take no more than four times          *)
(* mem_limit (main, comment of case 'm').                                   *)
MemoryWithinLimit ==
  params.memLimit > 0 => 2 * room + comprsize <= 4 * params.memLimit

(* With -m no read brings in more than mem_limit bytes (README.md, -m).     *)
ReadsWithinLimit == params.memLimit > 0 => asked <= params.memLimit

(* Every file is done with in the end, even one that others append to       *)
(* between the parts, as long as they stop.                                 *)
FilesEnd == <>Ended
===============================================================================
