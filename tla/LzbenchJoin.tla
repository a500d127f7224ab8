----------------------------- MODULE LzbenchJoin ------------------------------
(***************************************************************************)
(* lzbench_join (-j): all input files in one buffer, sized before the      *)
(* first of them is read, then all tests on the joined input.              *)
(*                                                                         *)
(* The files change under the program's feet (InputFiles), between the     *)
(* moment their sizes are added up, the moment each is measured again and  *)
(* the moment it is read.  fopen may refuse any of them, a regular file    *)
(* that stat measured too: no permission, or too many files open.          *)
(***************************************************************************)
EXTENDS InputFiles, FiniteSets, Totals

CONSTANTS
  PadSize,    \* PAD_SIZE
  ExpandDiv   \* the 6 of GET_COMPRESS_BOUND

ASSUME JoinAssumption == PadSize \in Nat /\ ExpandDiv \in Nat \ {0}

VARIABLES
  pc,         \* where lzbench_join is
  i,          \* the argument in hand
  totalsize,  \* totalsize
  insize,     \* the size of the file in hand
  inpos,      \* bytes in inbuf
  fileSizes,  \* file_sizes
  comprsize,  \* size of compbuf, 0 when there is none
  room,       \* size of inbuf and of decomp, 0 when there are none
  opened,     \* streams open
  origin,     \* history: the file each byte of inbuf came from
  refused,    \* history: the arguments fopen refused
  result      \* what lzbench_join returned, "none" while it runs

joinVars == <<pc, i, totalsize, insize, inpos, fileSizes, comprsize, room, opened,
              origin, refused, result>>
allVars == <<joinVars, fileVars>>

-------------------------------------------------------------------------------
CompressBound(n) == n + n \div ExpandDiv + PadSize

(* UTIL_getFileSize: anything but a regular file counts as empty, and one    *)
(* counts with its size whether or not it can be opened.                    *)
StatSize(f) == IF kind[f] = "regular" THEN size[f] ELSE 0

Init ==
  /\ FilesInit
  /\ pc = "total"
  /\ i = 1
  /\ totalsize = 0 /\ insize = 0 /\ inpos = 0
  /\ fileSizes = <<>>
  /\ comprsize = 0 /\ room = 0
  /\ opened = 0
  /\ origin = <<>>
  /\ refused = {}
  /\ result = "none"

(* UTIL_getTotalFileSize, one stat after the other.                         *)
AddSize ==
  /\ pc = "total" /\ i <= Files
  /\ totalsize' = totalsize + StatSize(i)
  /\ i' = i + 1
  /\ UNCHANGED <<pc, insize, inpos, fileSizes, comprsize, room, opened, origin,
                 refused, result, fileVars>>

NothingFound ==
  /\ pc = "total" /\ i > Files
  /\ totalsize = 0
  /\ result' = "failure"
  /\ pc' = "returned"
  /\ UNCHANGED <<i, totalsize, insize, inpos, fileSizes, comprsize, room,
                 opened, origin, refused, fileVars>>

Allocate ==
  /\ pc = "total" /\ i > Files
  /\ totalsize > 0
  /\ room' = totalsize + PadSize
  /\ comprsize' = CompressBound(totalsize)
  /\ i' = 1
  /\ pc' = "next"
  /\ UNCHANGED <<totalsize, insize, inpos, fileSizes, opened, origin, refused,
                 result, fileVars>>

(* alloc_and_touch writes to the buffer before anybody looks whether there  *)
(* is one.                                                                  *)
AllocationFails ==
  /\ pc = "total" /\ i > Files
  /\ totalsize > 0
  /\ pc' = "crashed"
  /\ UNCHANGED <<i, totalsize, insize, inpos, fileSizes, comprsize, room,
                 opened, origin, refused, result, fileVars>>

SkipDirectory ==
  /\ pc = "next" /\ i <= Files
  /\ kind[i] = "directory"
  /\ i' = i + 1
  /\ UNCHANGED <<pc, totalsize, insize, inpos, fileSizes, comprsize, room,
                 opened, origin, refused, result, fileVars>>

SkipUnreadable_Close ==
  /\ pc = "next" /\ i <= Files
  /\ kind[i] # "directory"
  /\ i' = i + 1
  /\ refused' = refused \cup {i}
  /\ opened' = opened - 1
  /\ UNCHANGED <<pc, totalsize, insize, inpos, fileSizes, comprsize, room,
                 origin, result, fileVars>>

SkipUnreadable ==
  /\ pc = "next" /\ i <= Files
  /\ kind[i] # "directory"
  /\ i' = i + 1
  /\ refused' = refused \cup {i}
  /\ UNCHANGED <<pc, totalsize, insize, inpos, fileSizes, comprsize, room,
                 opened, origin, result, fileVars>>

OpenFile ==
  /\ pc = "next" /\ i <= Files
  /\ kind[i] = "regular"
  /\ opened' = opened + 1
  /\ pc' = "measure"
  /\ UNCHANGED <<i, totalsize, insize, inpos, fileSizes, comprsize, room,
                 origin, refused, result, fileVars>>

Measure_Padded ==
  /\ pc = "measure"
  /\ insize' = size[i]
  /\ pc' = IF inpos + size[i] > room THEN "clean" ELSE "read"
  /\ UNCHANGED <<i, totalsize, inpos, fileSizes, comprsize, room, opened,
                 origin, refused, result, fileVars>>

Measure_Skip ==
  /\ pc = "measure"
  /\ IF inpos + size[i] > totalsize
       THEN pc' = "next" /\ i' = i + 1 /\ opened' = opened - 1 /\ UNCHANGED insize
       ELSE pc' = "read" /\ insize' = size[i] /\ UNCHANGED <<i, opened>>
  /\ UNCHANGED <<totalsize, inpos, fileSizes, comprsize, room, origin, refused,
                 result, fileVars>>

Measure_NoneLeft ==
  /\ pc = "measure"
  /\ insize' = size[i]
  /\ pc' = IF inpos + size[i] >= totalsize THEN "clean" ELSE "read"
  /\ UNCHANGED <<i, totalsize, inpos, fileSizes, comprsize, room, opened,
                 origin, refused, result, fileVars>>

(* The file is measured again; it must fit in what is left of inbuf, and    *)
(* PAD_SIZE is none of that.                                                *)
Measure ==
  /\ pc = "measure"
  /\ insize' = size[i]
  /\ pc' = IF inpos + size[i] > totalsize THEN "clean" ELSE "read"
  /\ UNCHANGED <<i, totalsize, inpos, fileSizes, comprsize, room, opened,
                 origin, refused, result, fileVars>>

Accept_Measured ==
  LET n == Available(i, 0, insize)
  IN /\ fileSizes' = Append(fileSizes, insize)
     /\ inpos' = inpos + n
     /\ origin' = origin \o [k \in 1 .. n |-> i]
     /\ UNCHANGED insize

Accept ==
  LET n == Available(i, 0, insize)
  IN /\ fileSizes' = Append(fileSizes, n)
     /\ inpos' = inpos + n
     /\ origin' = origin \o [k \in 1 .. n |-> i]
     /\ insize' = n

ReadFile ==
  /\ pc = "read"
  /\ Accept
  /\ opened' = opened - 1
  /\ i' = i + 1
  /\ pc' = "next"
  /\ UNCHANGED <<totalsize, comprsize, room, refused, result, fileVars>>

NoFiles ==
  /\ pc = "next" /\ i > Files
  /\ fileSizes = <<>>
  /\ pc' = "clean"
  /\ UNCHANGED <<i, totalsize, insize, inpos, fileSizes, comprsize, room,
                 opened, origin, refused, result, fileVars>>

(* totalsize = inpos, then the header, the memcpy test and the codecs'.     *)
RunTests ==
  /\ pc = "next" /\ i > Files
  /\ fileSizes # <<>>
  /\ totalsize' = inpos
  /\ pc' = "tested"
  /\ UNCHANGED <<i, insize, inpos, fileSizes, comprsize, room, opened, origin,
                 refused, result, fileVars>>

(* _clean, reached after the tests and from the two ways out before them.   *)
Clean ==
  /\ pc \in {"clean", "tested"}
  /\ room' = 0
  /\ comprsize' = 0
  /\ result' = "success"
  /\ pc' = "returned"
  /\ UNCHANGED <<i, totalsize, insize, inpos, fileSizes, opened, origin,
                 refused, fileVars>>

Others ==
  /\ Interfere
  /\ UNCHANGED joinVars

Ended == pc \in {"returned", "crashed"}

Finished == Ended /\ UNCHANGED allVars

JoinStep ==
  \/ AddSize
  \/ NothingFound
  \/ Allocate
  \/ AllocationFails
  \/ SkipDirectory
  \/ SkipUnreadable
  \/ OpenFile
  \/ Measure
  \/ ReadFile
  \/ NoFiles
  \/ RunTests
  \/ Clean

Next == JoinStep \/ Others \/ Finished

Spec == Init /\ [][Next]_allVars

-------------------------------------------------------------------------------
TypeOK ==
  /\ FilesTypeOK
  /\ pc \in {"total", "next", "measure", "read", "tested", "clean", "returned", "crashed"}
  /\ i \in 1 .. Files + 1
  /\ {totalsize, insize, inpos, comprsize, room, opened} \subseteq Nat
  /\ fileSizes \in Seq(Nat)
  /\ origin \in Seq(File)
  /\ refused \subseteq File
  /\ result \in {"none", "success", "failure"}

(* However the files change after their sizes were added up, the joined     *)
(* input stays PAD_SIZE below the end of inbuf and has the bound of         *)
(* lzbench_compress in compbuf.                                             *)
JoinedFits ==
  pc \in {"next", "read", "tested"} =>
    LET filled == IF pc = "read" THEN inpos + insize ELSE inpos
    IN filled + PadSize <= room /\ CompressBound(filled) <= comprsize

(* lzbench_test cuts the input by file_sizes alone: they add up to the      *)
(* bytes in inbuf, and the pieces are the files', each of one file, in the  *)
(* order of the arguments, even if a file shrank while it was read.         *)
CutAtFiles ==
  pc = "tested" =>
    /\ Sum(fileSizes) = totalsize
    /\ Len(origin) = totalsize
    /\ \A j \in 1 .. Len(fileSizes) :
         LET before == SumTo(fileSizes, j - 1)
         IN \A k, m \in before + 1 .. before + fileSizes[j] : origin[k] = origin[m]
    /\ \A k, m \in 1 .. totalsize : k <= m => origin[k] <= origin[m]

(* All that could be opened is tested or nothing: a file that grew never    *)
(* makes lzbench_join test the others without it, or without one that came  *)
(* later.                                                                   *)
NoneLeftOut ==
  pc = "tested" =>
    Len(fileSizes) >= Cardinality({f \in File : kind[f] = "regular"} \ refused)

(* The two ways out before the tests, both with result 0: one leaves a      *)
(* stream open and is taken only if somebody changed the files, the other   *)
(* only if fopen refused every argument that still is a regular file, and   *)
(* without a change there is such a file (lzbench_join, goto _clean).       *)
EarlyOutExplained ==
  pc = "clean" =>
    \/ opened = 1 /\ changes > 0
    \/ /\ opened = 0
       /\ \A f \in File : kind[f] = "regular" => f \in refused
       /\ changes = 0 => \E f \in refused : kind[f] = "regular"
===============================================================================
