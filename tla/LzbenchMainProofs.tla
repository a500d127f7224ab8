--------------------------- MODULE LzbenchMainProofs ---------------------------
(***************************************************************************)
(* What holds of lzbench_main for any number of files of any size, however *)
(* others change them, and for every record of options.                    *)
(***************************************************************************)
EXTENDS LzbenchMain, NumberLemmas

(* Between opening a file and its first test there is nothing to show.      *)
Fresh == pc \in {"measure", "allocate", "seek", "read", "baseline"} => tested = {}

(* The bytes in inbuf lie before the position of the stream.                *)
ReadBefore == pc \in {"baseline", "test", "more"} => insize <= pos

(* Once a codec may have run, the memcpy row is there, or the first         *)
(* argument was passed over.                                                *)
BaselineDone ==
  i >= 2 \/ pc \in {"test", "more", "close"} => header \/ kind[1] # "regular"

NothingTested == i = 1 /\ pc \notin {"test", "more", "close"} => tested = {}

(* The limit is applied to insize before the buffers are allocated.         *)
LimitApplied ==
  /\ pc = "allocate" /\ params.memLimit > 0 => insize <= params.memLimit
  /\ MemoryWithinLimit

Inv ==
  /\ TypeOK
  /\ Fresh
  /\ ReadBefore
  /\ BaselineDone
  /\ NothingTested
  /\ LimitApplied

-------------------------------------------------------------------------------
LEMMA BoundNat ==
  ASSUME NEW n \in Nat
  PROVE  CompressBound(n) \in Nat /\ n <= CompressBound(n)
BY DivNat, MainAssumption DEF CompressBound

LEMMA BoundMonotone ==
  ASSUME NEW m \in Nat, NEW n \in Nat, m <= n
  PROVE  CompressBound(m) <= CompressBound(n)
<1>1. m \div ExpandDiv <= n \div ExpandDiv
  BY DivMonotone, MainAssumption
<1>2. m \div ExpandDiv \in Nat /\ n \div ExpandDiv \in Nat
  BY DivNat, MainAssumption
<1> QED
  BY <1>1, <1>2, MainAssumption DEF CompressBound

(* The three buffers of a limited run (main, comment of case 'm'). *)
LEMMA BuffersWithinLimit ==
  ASSUME NEW p \in Params, p.memLimit > 0, NEW n \in Nat, n <= p.memLimit
  PROVE  2 * (n + PadSize) + CompressBound(n) <= 4 * p.memLimit
<1>1. IsParams(p) /\ PadSize \in Nat
  BY MainAssumption
<1>2. p.memLimit \in Nat /\ 3 * PadSize + p.memLimit \div ExpandDiv <= p.memLimit
  BY <1>1 DEF IsParams
<1>3. n \div ExpandDiv <= p.memLimit \div ExpandDiv
  BY <1>2, DivMonotone, MainAssumption
<1>4. n \div ExpandDiv \in Nat /\ p.memLimit \div ExpandDiv \in Nat
  BY <1>2, DivNat, MainAssumption
<1> QED
  BY <1>1, <1>2, <1>3, <1>4 DEF CompressBound

(* What a read gets is a number, and no more than was asked for. *)
LEMMA AvailableNat ==
  ASSUME FilesTypeOK, NEW f \in File, NEW p \in Nat, NEW n \in Nat
  PROVE  /\ Available(f, p, n) \in 0 .. n
         /\ p <= size[f] => Available(f, p, n) = Smaller(n, size[f] - p)
<1>1. size[f] \in Nat
  BY FilesAssumption DEF FilesTypeOK
<1> QED
  BY <1>1 DEF Available, Smaller

LEMMA FreadTypes ==
  ASSUME TypeOK, i \in File, Fread
  PROVE  /\ asked' = insize /\ insize' \in 0 .. insize
         /\ pos' = pos + insize' /\ pos' \in Nat
         /\ eof' \in BOOLEAN
<1>1. pos \in Nat /\ insize \in Nat /\ eof \in BOOLEAN /\ FilesTypeOK
  BY DEF TypeOK
<1>2. Available(i, pos, insize) \in 0 .. insize
  BY <1>1, AvailableNat
<1>3. insize' \in {0, Available(i, pos, insize)}
  BY DEF Fread
<1>4. eof' \in BOOLEAN
  BY <1>1 DEF Fread
<1>5. insize' \in 0 .. insize
  BY <1>1, <1>2, <1>3
<1>6. asked' = insize /\ pos' = pos + insize'
  BY DEF Fread
<1>7. pos' \in Nat
  <2>1. pos \in Nat /\ insize \in Nat
    BY <1>1
  <2>2. insize' \in Nat
    BY <2>1, <1>5
  <2> QED
    BY <2>1, <2>2, <1>6, SumNat
<1> QED
  BY <1>4, <1>5, <1>6, <1>7

(* A position -R chooses. *)
LEMMA PositionsFit ==
  ASSUME TypeOK, NEW p \in Positions
  PROVE  p \in Nat /\ p + params.chunkSize <= realInsize
<1>1. realInsize \in Nat /\ params.chunkSize \in Nat \ {0}
  BY MainAssumption DEF TypeOK, IsParams
<1>2. PICK n \in Nat : n = realInsize \div params.chunkSize
  BY <1>1, DivNat
<1>3. params.chunkSize * n <= realInsize
  BY <1>1, <1>2
<1>4. PICK q \in 0 .. n - 1 : p = q * params.chunkSize
  BY <1>2 DEF Positions
<1>5. q + 1 <= n /\ q \in Nat
  BY <1>2, <1>4
<1>6. params.chunkSize * (q + 1) <= params.chunkSize * n
  BY <1>1, <1>2, <1>5
<1>7. params.chunkSize * (q + 1) = p + params.chunkSize /\ p \in Nat
  BY <1>1, <1>4, <1>5
<1> QED
  BY <1>1, <1>2, <1>3, <1>6, <1>7

-------------------------------------------------------------------------------
LEMMA InvInit ==
  Init => Inv
<1> SUFFICES ASSUME Init PROVE Inv
  OBVIOUS
<1> USE DEF Init
<1>1. FilesTypeOK
  BY FilesAssumption DEF FilesInit, FilesTypeOK
<1>2. TypeOK
  <2>1. i \in 1 .. Files + 1
    BY FilesAssumption
  <2>2. eof \in BOOLEAN /\ still \in BOOLEAN /\ header \in BOOLEAN
    BY Zenon
  <2> QED
    BY <1>1, <2>1, <2>2 DEF TypeOK
<1>3. MemoryWithinLimit
  BY MainAssumption DEF MemoryWithinLimit, IsParams
<1> QED
  BY <1>2, <1>3 DEF Inv, Fresh, ReadBefore, BaselineDone, NothingTested, LimitApplied

(* What a step of others, or of the program, leaves of the rest. *)
LEMMA InvOthers ==
  ASSUME Inv, Others
  PROVE  Inv'
<1>1. TypeOK /\ FilesTypeOK
  BY DEF Inv, TypeOK
<1>2. FilesTypeOK' /\ (kind[1] # "regular" => kind'[1] # "regular")
  <2>1. CASE Resize
    BY <1>1, <2>1, FilesAssumption DEF FilesTypeOK, Resize
  <2>2. CASE Unlink
    BY <1>1, <2>2, FilesAssumption DEF FilesTypeOK, Unlink, File
  <2> QED
    BY <2>1, <2>2 DEF Others, Interfere
<1>3. /\ pc' = pc /\ params' = params /\ i' = i /\ pos' = pos /\ eof' = eof
      /\ realInsize' = realInsize /\ insize' = insize /\ comprsize' = comprsize
      /\ room' = room /\ start' = start /\ tested' = tested /\ header' = header
      /\ asked' = asked /\ still' \in BOOLEAN
  BY <1>1 DEF Others, TypeOK
<1>4. TypeOK'
  BY <1>1, <1>2, <1>3 DEF TypeOK
<1>5. BaselineDone'
  BY <1>2, <1>3 DEF Inv, BaselineDone
<1>6. Fresh' /\ ReadBefore' /\ NothingTested' /\ LimitApplied'
  BY <1>3 DEF Inv, Fresh, ReadBefore, NothingTested, LimitApplied, MemoryWithinLimit
<1> QED
  BY <1>4, <1>5, <1>6 DEF Inv

(* An argument is passed over, a file is opened or done with, or the        *)
(* program ends: the buffers keep their sizes or are freed.                 *)
LEMMA InvSkip ==
  ASSUME Inv, SkipDirectory \/ SkipUnreadable
  PROVE  Inv'
<1> USE DEF SkipDirectory, SkipUnreadable, fileVars
<1>1. TypeOK'
  BY FilesAssumption DEF Inv, TypeOK, FilesTypeOK
<1>2. BaselineDone'
  <2>1. i \in 1 .. Files + 1
    BY DEF Inv, TypeOK
  <2>2. i >= 2 \/ kind[1] # "regular"
    BY <2>1, FilesAssumption
  <2> QED
    BY <2>2 DEF Inv, BaselineDone
<1>3. NothingTested'
  BY FilesAssumption DEF Inv, TypeOK, NothingTested
<1>4. Fresh' /\ ReadBefore' /\ LimitApplied'
  BY DEF Inv, Fresh, ReadBefore, LimitApplied, MemoryWithinLimit
<1> QED
  BY <1>1, <1>2, <1>3, <1>4 DEF Inv

LEMMA InvOpenFile ==
  ASSUME Inv, OpenFile
  PROVE  Inv'
<1> USE DEF OpenFile, fileVars
<1>1. TypeOK'
  BY DEF Inv, TypeOK, FilesTypeOK
<1> QED
  BY <1>1 DEF Inv, Fresh, ReadBefore, BaselineDone, NothingTested, LimitApplied,
              MemoryWithinLimit

LEMMA InvMeasure ==
  ASSUME Inv, Measure
  PROVE  Inv'
<1> USE DEF Measure, fileVars
<1>1. size[i] \in Nat /\ params.memLimit \in Nat
  <2>1. i \in File /\ size \in [File -> 0 .. MaxSize] /\ MaxSize \in Nat
    BY FilesAssumption DEF Inv, TypeOK, FilesTypeOK, File
  <2>2. params.memLimit \in Nat
    BY MainAssumption DEF Inv, TypeOK, IsParams
  <2> QED
    BY <2>1, <2>2
<1>2. insize' \in Nat /\ (params.memLimit > 0 => insize' <= params.memLimit)
  BY <1>1
<1>3. TypeOK'
  <2>1. realInsize' \in Nat /\ pos' \in Nat /\ pc' = "allocate"
    BY <1>1
  <2>2. eof' \in BOOLEAN
    BY Zenon
  <2> QED
    BY <1>2, <2>1, <2>2 DEF Inv, TypeOK, FilesTypeOK
<1>4. LimitApplied'
  BY <1>2 DEF Inv, LimitApplied, MemoryWithinLimit
<1> QED
  BY <1>3, <1>4 DEF Inv, Fresh, ReadBefore, BaselineDone, NothingTested

(* The buffers are made for insize bytes, which the limit bounds. *)
LEMMA InvAllocate ==
  ASSUME Inv, Allocate
  PROVE  Inv'
<1> USE DEF Allocate, fileVars
<1>1. insize \in Nat /\ PadSize \in Nat /\ params \in Params
  BY MainAssumption DEF Inv, TypeOK
<1>2. room' \in Nat /\ comprsize' \in Nat /\ pc' \in {"seek", "read"}
  BY <1>1, BoundNat
<1>3. TypeOK'
  BY <1>2 DEF Inv, TypeOK, FilesTypeOK
<1>4. MemoryWithinLimit'
  <2>1. params.memLimit > 0 => insize <= params.memLimit
    BY DEF Inv, LimitApplied
  <2> QED
    BY <1>1, <2>1, BuffersWithinLimit DEF MemoryWithinLimit
<1> QED
  BY <1>2, <1>3, <1>4 DEF Inv, Fresh, ReadBefore, BaselineDone, NothingTested,
                          LimitApplied

LEMMA InvAllocationFails ==
  ASSUME Inv, AllocationFails
  PROVE  Inv'
<1> USE DEF AllocationFails, fileVars
<1>1. TypeOK'
  BY DEF Inv, TypeOK, FilesTypeOK
<1> QED
  BY <1>1 DEF Inv, Fresh, ReadBefore, BaselineDone, NothingTested, LimitApplied,
              MemoryWithinLimit

LEMMA InvSeek ==
  ASSUME Inv, Seek
  PROVE  Inv'
<1> USE DEF Seek, fileVars
<1>1. TypeOK /\ params.chunkSize \in Nat
  BY MainAssumption DEF Inv, TypeOK, IsParams
<1>2. insize' \in Nat /\ pos' \in Nat
  BY <1>1, PositionsFit DEF TypeOK
<1>3. TypeOK'
  BY <1>1, <1>2 DEF TypeOK, FilesTypeOK
<1> QED
  BY <1>3 DEF Inv, Fresh, ReadBefore, BaselineDone, NothingTested, LimitApplied,
              MemoryWithinLimit

LEMMA InvReadFirst ==
  ASSUME Inv, ReadFirst
  PROVE  Inv'
<1> USE DEF ReadFirst, fileVars
<1>1. TypeOK /\ i \in File /\ pos \in Nat /\ insize \in Nat
  BY DEF Inv, TypeOK, File
<1>2. /\ asked' = insize /\ insize' \in 0 .. insize
      /\ pos' = pos + insize' /\ pos' \in Nat /\ eof' \in BOOLEAN
  BY <1>1, FreadTypes
<1>3. insize' \in Nat /\ insize' <= pos'
  <2>1. pos \in Nat /\ insize \in Nat /\ insize' \in 0 .. insize
    BY <1>1, <1>2
  <2>2. insize' \in Nat
    BY <2>1
  <2>3. pos' = pos + insize'
    BY <1>2
  <2> QED
    BY <2>1, <2>2, <2>3, SumNat
<1>4. TypeOK'
  BY <1>1, <1>2, <1>3 DEF TypeOK, FilesTypeOK
<1>5. BaselineDone' /\ NothingTested' /\ Fresh'
  BY <1>1, <1>3 DEF Inv, BaselineDone, NothingTested, Fresh, File
<1>6. ReadBefore' /\ LimitApplied'
  BY <1>3 DEF Inv, ReadBefore, LimitApplied, MemoryWithinLimit
<1> QED
  BY <1>4, <1>5, <1>6 DEF Inv

LEMMA InvTestBaseline ==
  ASSUME Inv, TestBaseline
  PROVE  Inv'
<1> USE DEF TestBaseline, fileVars
<1>1. TypeOK'
  BY DEF Inv, TypeOK, FilesTypeOK
<1> QED
  BY <1>1 DEF Inv, Fresh, ReadBefore, BaselineDone, NothingTested, LimitApplied,
              MemoryWithinLimit

LEMMA InvTest ==
  ASSUME Inv, TestWhole \/ TestPart
  PROVE  Inv'
<1> USE DEF TestWhole, TestPart, fileVars
<1>1. pos \in Nat /\ insize \in Nat /\ insize <= pos
  BY DEF Inv, TypeOK, ReadBefore
<1>2. Part.from \in Nat /\ Part.len \in Nat
  BY <1>1 DEF Part
<1>3. TypeOK'
  BY <1>2 DEF Inv, TypeOK, FilesTypeOK
<1> QED
  BY <1>3 DEF Inv, Fresh, ReadBefore, BaselineDone, NothingTested, LimitApplied,
              MemoryWithinLimit

LEMMA InvReadNext ==
  ASSUME Inv, ReadNext
  PROVE  Inv'
<1> USE DEF ReadNext, fileVars
<1>1. TypeOK /\ i \in File /\ pos \in Nat /\ insize \in Nat
  BY DEF Inv, TypeOK, File
<1>2. /\ asked' = insize /\ insize' \in 0 .. insize
      /\ pos' = pos + insize' /\ pos' \in Nat /\ eof' \in BOOLEAN
  BY <1>1, FreadTypes
<1>3. insize' \in Nat /\ insize' <= pos'
  <2>1. pos \in Nat /\ insize \in Nat /\ insize' \in 0 .. insize
    BY <1>1, <1>2
  <2>2. insize' \in Nat
    BY <2>1
  <2>3. pos' = pos + insize'
    BY <1>2
  <2> QED
    BY <2>1, <2>2, <2>3, SumNat
<1>4. TypeOK'
  BY <1>1, <1>2, <1>3 DEF TypeOK, FilesTypeOK
<1> QED
  BY <1>3, <1>4 DEF Inv, Fresh, ReadBefore, BaselineDone, NothingTested,
                    LimitApplied, MemoryWithinLimit

LEMMA InvLeaveParts ==
  ASSUME Inv, LeaveParts
  PROVE  Inv'
<1> USE DEF LeaveParts, fileVars
<1>1. TypeOK'
  BY DEF Inv, TypeOK, FilesTypeOK
<1> QED
  BY <1>1 DEF Inv, Fresh, ReadBefore, BaselineDone, NothingTested, LimitApplied,
              MemoryWithinLimit

LEMMA InvCloseFile ==
  ASSUME Inv, CloseFile
  PROVE  Inv'
<1> USE DEF CloseFile, fileVars
<1>1. TypeOK'
  BY FilesAssumption DEF Inv, TypeOK, FilesTypeOK
<1>2. params.memLimit \in Nat
  BY MainAssumption DEF Inv, TypeOK, IsParams
<1>3. MemoryWithinLimit'
  BY <1>2 DEF MemoryWithinLimit
<1>4. BaselineDone' /\ NothingTested'
  BY FilesAssumption DEF Inv, TypeOK, BaselineDone, NothingTested
<1> QED
  BY <1>1, <1>3, <1>4 DEF Inv, Fresh, ReadBefore, LimitApplied

LEMMA InvStep ==
  Inv /\ [Next]_mainVars => Inv'
<1> SUFFICES ASSUME Inv, [Next]_mainVars PROVE Inv'
  OBVIOUS
<1>1. CASE Others
  BY <1>1, InvOthers
<1>2. CASE MainStep
  BY <1>2, InvSkip, InvOpenFile, InvMeasure, InvAllocate, InvAllocationFails,
     InvSeek, InvReadFirst, InvTestBaseline, InvTest, InvReadNext,
     InvLeaveParts, InvCloseFile DEF MainStep
<1>3. CASE UNCHANGED mainVars
  BY <1>3 DEF mainVars, runVars, fileVars, Inv, TypeOK, FilesTypeOK, Fresh,
              ReadBefore, BaselineDone, NothingTested, LimitApplied,
              MemoryWithinLimit
<1> QED
  BY <1>1, <1>2, <1>3 DEF Next, Finished

LEMMA InvAlways ==
  Spec => []Inv
BY InvInit, InvStep, PTL DEF Spec

(* The types of lzbench_main: sizes and positions never fall below zero.    *)
THEOREM MainTypes == Spec => []TypeOK
<1>1. Inv => TypeOK
  BY DEF Inv
<1> QED
  BY <1>1, InvAlways, PTL

(* The memcpy row stands before any codec's, whatever happens to the files  *)
(* (lzbench_main, `if (i == 0)`).                                           *)
THEOREM BaselineFirst == Spec => []MemcpyFirst
<1>1. Inv => MemcpyFirst
  BY DEF Inv, TypeOK, BaselineDone, NothingTested, MemcpyFirst
<1> QED
  BY <1>1, InvAlways, PTL

(* With -m the buffers together stay below four times mem_limit.            *)
THEOREM MemoryBounded == Spec => []MemoryWithinLimit
<1>1. Inv => MemoryWithinLimit
  BY DEF Inv, LimitApplied
<1> QED
  BY <1>1, InvAlways, PTL

-------------------------------------------------------------------------------
(* The parts in hand: those tested are the bytes from the first read up to  *)
(* what inbuf holds now, and no two overlap.                                *)
Followed ==
  /\ \A p, q \in tested : p = q \/ Bytes(p) \cap Bytes(q) = {}
  /\ pc \in {"baseline", "test"} =>
       start <= pos - insize /\ Tested = start .. pos - insize - 1
  /\ pc \in {"more", "close"} => start <= pos /\ Tested = start .. pos - 1

LEMMA Intervals ==
  ASSUME NEW a \in Int, NEW b \in Int, NEW c \in Int, a <= b, b <= c
  PROVE  /\ (a .. b - 1) \cup (b .. c - 1) = a .. c - 1
         /\ (a .. b - 1) \cap (b .. c - 1) = {}
OBVIOUS

(* The part in hand begins where the last one ended. *)
LEMMA PartFollows ==
  ASSUME Inv, Followed, pc = "test", tested' = tested \cup {Part}
  PROVE  /\ start <= pos
         /\ Tested' = start .. pos - 1
         /\ \A p, q \in tested' : p = q \/ Bytes(p) \cap Bytes(q) = {}
<1>1. /\ pos \in Nat /\ insize \in Nat /\ insize <= pos /\ start \in Nat
      /\ start <= pos - insize /\ Tested = start .. pos - insize - 1
  BY DEF Inv, TypeOK, ReadBefore, Followed
<1>2. Bytes(Part) = pos - insize .. pos - 1
  <2>1. Part.from = pos - insize /\ Part.len = insize
    BY DEF Part
  <2>2. pos - insize + insize - 1 = pos - 1
    BY <1>1
  <2> QED
    BY <2>1, <2>2 DEF Bytes
<1>3. Tested' = Tested \cup Bytes(Part)
  BY DEF Tested, Bytes
<1>4. Tested' = start .. pos - 1 /\ Tested \cap Bytes(Part) = {}
  BY <1>1, <1>2, <1>3, Intervals
<1>5. \A p \in tested : Bytes(p) \cap Bytes(Part) = {}
  BY <1>4 DEF Tested
<1>6. \A p, q \in tested : p = q \/ Bytes(p) \cap Bytes(q) = {}
  BY DEF Followed
<1>7. \A p, q \in tested' : p = q \/ Bytes(p) \cap Bytes(q) = {}
  BY <1>5, <1>6
<1> QED
  BY <1>1, <1>4, <1>7

LEMMA FollowedStep ==
  ASSUME Inv, Followed, [Next]_mainVars
  PROVE  Followed'
<1>1. CASE ReadFirst
  <2>1. tested' = {} /\ start' = pos /\ pc' \in {"baseline", "test"}
    BY <1>1 DEF Inv, Fresh, ReadFirst
  <2>2. pos \in Nat /\ insize' \in Nat /\ pos' = pos + insize'
    <3>1. TypeOK /\ i \in File /\ Fread /\ pos \in Nat /\ insize \in Nat
      BY <1>1 DEF Inv, TypeOK, File, ReadFirst
    <3>2. insize' \in 0 .. insize /\ pos' = pos + insize'
      BY <3>1, FreadTypes
    <3> QED
      BY <3>1, <3>2
  <2>3. pos' - insize' = pos
    BY <2>2, SumNat
  <2>4. Tested' = {} /\ pos .. pos - 1 = {}
    BY <2>1, <2>2 DEF Tested
  <2>5. pos <= pos
    BY <2>2
  <2>6. start' <= pos' - insize' /\ Tested' = start' .. pos' - insize' - 1
    BY <2>1, <2>3, <2>4, <2>5, Zenon
  <2> QED
    BY <2>1, <2>6 DEF Followed
<1>2. CASE ReadNext
  <2>1. tested' = tested /\ start' = start /\ pc = "more" /\ pc' = "test"
    BY <1>2 DEF ReadNext
  <2>2. pos \in Nat /\ insize' \in Nat /\ pos' = pos + insize'
    <3>1. TypeOK /\ i \in File /\ Fread /\ pos \in Nat /\ insize \in Nat
      BY <1>2 DEF Inv, TypeOK, File, ReadNext
    <3>2. insize' \in 0 .. insize /\ pos' = pos + insize'
      BY <3>1, FreadTypes
    <3> QED
      BY <3>1, <3>2
  <2>3. pos' - insize' = pos
    BY <2>2, SumNat
  <2>4. Tested' = Tested
    BY <2>1 DEF Tested
  <2> QED
    BY <2>1, <2>3, <2>4 DEF Followed
<1>3. CASE TestWhole \/ TestPart
  <2>1. /\ pc = "test" /\ tested' = tested \cup {Part} /\ pc' \in {"more", "close"}
        /\ pos' = pos /\ start' = start
    BY <1>3 DEF TestWhole, TestPart
  <2> QED
    BY <2>1, PartFollows DEF Followed
<1>4. CASE LeaveParts
  <2>1. pos - insize = pos /\ pos - insize - 1 = pos - 1
    BY <1>4 DEF Inv, TypeOK, LeaveParts
  <2> QED
    BY <1>4, <2>1 DEF Followed, LeaveParts, Tested
<1>5. CASE OpenFile
  BY <1>5 DEF Followed, OpenFile
<1>6. CASE TestBaseline
  BY <1>6 DEF Followed, TestBaseline, Tested
<1>7. CASE /\ tested' = tested
           /\ pc' \in {"next", "measure", "allocate", "seek", "read", "crashed"}
  BY <1>7 DEF Followed
<1>8. CASE /\ tested' = tested /\ pc' = pc /\ pos' = pos /\ insize' = insize
           /\ start' = start
  BY <1>8 DEF Followed, Tested
<1> QED
  <2>1. CASE SkipDirectory \/ SkipUnreadable \/ Measure \/ Allocate
             \/ AllocationFails \/ Seek \/ CloseFile
    BY <2>1, <1>7 DEF SkipDirectory, SkipUnreadable, Measure, Allocate,
       AllocationFails, Seek, CloseFile
  <2>2. CASE Others \/ UNCHANGED mainVars
    BY <2>2, <1>8 DEF Others, mainVars, runVars
  <2> QED
    BY <1>1, <1>2, <1>3, <1>4, <1>5, <1>6, <2>1, <2>2 DEF Next, MainStep, Finished

-------------------------------------------------------------------------------
(* The runs without -R, and those with -R that have no limit: with both the *)
(* run main_limited_sample shows what goes wrong.                           *)
Separate == \A p \in Params : p.randomRead => p.memLimit = 0

(* The buffers hold what is, or was, to be read.                            *)
Fits ==
  /\ pc = "seek" => params.randomRead
  /\ pc \in {"allocate", "seek"} /\ params.randomRead => insize = realInsize
  /\ pc \in {"seek", "read", "baseline", "test", "more"} =>
       insize <= room /\ CompressBound(insize) <= comprsize
  /\ pc \in {"baseline", "test", "more"} => asked <= room

LEMMA FitsRead ==
  ASSUME Inv, Fits, pc \in {"read", "more"}, Fread, UNCHANGED <<comprsize, room>>
  PROVE  /\ insize' <= room' /\ asked' <= room'
         /\ CompressBound(insize') <= comprsize'
<1>1. /\ TypeOK /\ i \in File /\ insize \in Nat /\ room \in Nat /\ comprsize \in Nat
      /\ insize <= room /\ CompressBound(insize) <= comprsize
  BY DEF Inv, TypeOK, File, Fits
<1>2. asked' = insize /\ insize' \in 0 .. insize
  BY <1>1, FreadTypes
<1>3. insize' \in Nat /\ insize' <= insize
  BY <1>1, <1>2
<1>4. CompressBound(insize') <= CompressBound(insize)
  BY <1>1, <1>3, BoundMonotone
<1>5. CompressBound(insize') \in Nat /\ CompressBound(insize) \in Nat
  BY <1>1, <1>3, BoundNat
<1> QED
  BY <1>1, <1>2, <1>3, <1>4, <1>5

LEMMA FitsStep ==
  ASSUME Separate, Inv, Fits, [Next]_mainVars
  PROVE  Fits'
<1>1. CASE Measure
  <2>1. params.randomRead => params.memLimit = 0
    BY DEF Separate, Inv, TypeOK
  <2> QED
    BY <1>1, <2>1 DEF Measure, Fits
<1>2. CASE Allocate
  <2>1. insize \in Nat /\ PadSize \in Nat
    BY MainAssumption DEF Inv, TypeOK
  <2>2. insize <= insize + PadSize /\ CompressBound(insize) <= CompressBound(insize)
    BY <2>1, BoundNat
  <2>3. /\ pc = "allocate" /\ pc' = IF params.randomRead THEN "seek" ELSE "read"
        /\ room' = insize + PadSize /\ comprsize' = CompressBound(insize)
        /\ params' = params /\ insize' = insize /\ realInsize' = realInsize
    BY <1>2 DEF Allocate
  <2>4. CompressBound(insize)' = CompressBound(insize)
    BY <2>3 DEF CompressBound
  <2> QED
    BY <2>2, <2>3, <2>4 DEF Fits
<1>3. CASE Seek
  <2>1. /\ params.randomRead /\ insize = realInsize /\ insize \in Nat
        /\ params.chunkSize \in Nat /\ room \in Nat /\ comprsize \in Nat
        /\ insize <= room /\ CompressBound(insize) <= comprsize
    BY <1>3, MainAssumption DEF Inv, TypeOK, IsParams, Fits, Seek
  <2>2. insize' \in Nat /\ insize' <= insize
    BY <1>3, <2>1 DEF Seek
  <2>3. CompressBound(insize') <= CompressBound(insize)
    BY <2>1, <2>2, BoundMonotone
  <2>4. CompressBound(insize') \in Nat /\ CompressBound(insize) \in Nat
    BY <2>1, <2>2, BoundNat
  <2>5. pc' = "read" /\ room' = room /\ comprsize' = comprsize
    BY <1>3 DEF Seek
  <2>6. insize' <= room /\ CompressBound(insize') <= comprsize
    BY <2>1, <2>2, <2>3, <2>4
  <2> QED
    BY <2>5, <2>6 DEF Fits, CompressBound
<1>4. CASE ReadFirst
  BY <1>4, FitsRead DEF ReadFirst, Fits, CompressBound
<1>5. CASE ReadNext
  BY <1>5, FitsRead DEF ReadNext, Fits, CompressBound
<1>6. CASE pc' \in {"next", "measure", "close", "crashed"}
  BY <1>6 DEF Fits
<1>7. CASE /\ pc' = pc \/ (pc = "baseline" /\ pc' = "test") \/ (pc = "test" /\ pc' = "more")
           /\ params' = params /\ insize' = insize /\ realInsize' = realInsize
           /\ room' = room /\ comprsize' = comprsize /\ asked' = asked
  BY <1>7 DEF Fits, CompressBound
<1> QED
  <2>1. CASE SkipDirectory \/ SkipUnreadable \/ OpenFile \/ AllocationFails
             \/ TestWhole \/ LeaveParts \/ CloseFile
    BY <2>1, <1>6 DEF SkipDirectory, SkipUnreadable, OpenFile, AllocationFails,
       TestWhole, LeaveParts, CloseFile
  <2>2. CASE TestBaseline \/ TestPart \/ Others \/ UNCHANGED mainVars
    BY <2>2, <1>7 DEF TestBaseline, TestPart, Others, mainVars, runVars
  <2> QED
    BY <1>1, <1>2, <1>3, <1>4, <1>5, <2>1, <2>2 DEF Next, MainStep, Finished

-------------------------------------------------------------------------------
(* What lzbench_main is to test of a file. *)
Wanted == IF params.randomRead THEN Smaller(params.chunkSize, realInsize) ELSE realInsize

(* What it asks of the file before the first read, *)
Asking ==
  /\ pc \in {"allocate", "seek"} =>
       pos = 0 /\ insize = IF Limited THEN params.memLimit ELSE realInsize
  /\ pc = "read" =>
       /\ pos + insize <= realInsize
       /\ IF Limited THEN pos = 0 /\ insize = params.memLimit ELSE insize = Wanted
  /\ pc \in {"allocate", "seek", "read"} => eof = FALSE

(* and how far it got afterwards. *)
Whole ==
  pc \in {"baseline", "test", "more", "close"} => pos - start = Wanted /\ pc # "more"

InParts ==
  pc \in {"baseline", "test", "more", "close"} =>
    /\ start = 0 /\ pos <= realInsize
    /\ eof = TRUE => pos = realInsize
    /\ pc = "more" => insize > 0
    /\ pc \in {"baseline", "test"} /\ insize = 0 => pos = realInsize
    /\ pc = "close" => pos = realInsize

(* All of this of a file that nobody has changed since it was opened.       *)
Steady ==
  still = TRUE /\ pc \in {"allocate", "seek", "read", "baseline", "test", "more", "close"} =>
    /\ realInsize = size[i]
    /\ Asking
    /\ IF Limited THEN InParts ELSE Whole

LEMMA AvailableAll ==
  ASSUME FilesTypeOK, NEW f \in File, NEW p \in Nat, NEW n \in Nat, p <= size[f]
  PROVE  /\ Available(f, p, n) \in 0 .. n
         /\ p + Available(f, p, n) <= size[f]
         /\ Available(f, p, n) < n => p + Available(f, p, n) = size[f]
         /\ p + n <= size[f] => Available(f, p, n) = n
<1>1. size[f] \in Nat
  BY FilesAssumption DEF FilesTypeOK
<1> QED
  BY <1>1 DEF Available, Smaller

(* Numbers and file in hand, as every step below needs them. *)
LEMMA Typed ==
  ASSUME Inv
  PROVE  /\ FilesTypeOK /\ pos \in Nat /\ insize \in Nat /\ realInsize \in Nat /\ start \in Nat
         /\ params.memLimit \in Nat /\ params.chunkSize \in Nat
         /\ pc \notin {"next", "crashed"} => i \in File
BY FilesAssumption, MainAssumption DEF Inv, TypeOK, IsParams, File

LEMMA SteadyMeasure ==
  ASSUME Inv, Measure
  PROVE  Steady'
<1>1. /\ realInsize' = size[i] /\ size' = size /\ i' = i /\ pos' = 0 /\ eof' = FALSE
      /\ pc' = "allocate" /\ params' = params
      /\ insize' = IF params.memLimit > 0 /\ size[i] > params.memLimit
                     THEN params.memLimit ELSE size[i]
  BY DEF Measure, fileVars
<1>2. Limited' <=> params.memLimit > 0 /\ size[i] > params.memLimit
  BY <1>1 DEF Limited
<1> QED
  BY <1>1, <1>2 DEF Steady, Asking, InParts, Whole

LEMMA SteadyAllocate ==
  ASSUME Separate, Inv, Steady, Allocate
  PROVE  Steady'
<1>1. /\ realInsize' = realInsize /\ size' = size /\ i' = i /\ pos' = pos /\ eof' = eof
      /\ params' = params /\ insize' = insize /\ still' = still
      /\ pc = "allocate" /\ pc' = IF params.randomRead THEN "seek" ELSE "read"
  BY DEF Allocate, fileVars
<1>2. (Limited' <=> Limited) /\ Wanted' = Wanted
  BY <1>1 DEF Limited, Wanted
<1>3. CASE params.randomRead
  BY <1>1, <1>2, <1>3 DEF Steady, Asking, InParts, Whole
<1>4. CASE ~params.randomRead
  <2>1. pc' = "read" /\ Wanted = realInsize
    BY <1>1, <1>4 DEF Wanted
  <2> SUFFICES ASSUME still = TRUE PROVE Steady'
    BY <1>1 DEF Steady
  <2>2. /\ realInsize = size[i] /\ pos = 0 /\ eof = FALSE
        /\ insize = IF Limited THEN params.memLimit ELSE realInsize
    BY <1>1 DEF Steady, Asking
  <2>3. pos + insize <= realInsize
    BY <2>2, Typed DEF Limited
  <2> QED
    BY <1>1, <1>2, <2>1, <2>2, <2>3 DEF Steady, Asking, InParts, Whole
<1> QED
  BY <1>3, <1>4

LEMMA SteadySeek ==
  ASSUME Separate, Inv, Fits, Steady, Seek
  PROVE  Steady'
<1>1. /\ realInsize' = realInsize /\ size' = size /\ i' = i /\ eof' = eof
      /\ params' = params /\ still' = still /\ pc = "seek" /\ pc' = "read"
      /\ params.randomRead /\ insize = realInsize /\ params.memLimit = 0
  BY DEF Seek, fileVars, Fits, Separate, Inv, TypeOK
<1>2. ~Limited /\ ~Limited' /\ Wanted' = Wanted
  BY <1>1, Typed DEF Limited, Wanted
<1> SUFFICES ASSUME still = TRUE PROVE Steady'
  BY <1>1 DEF Steady
<1>3. realInsize = size[i] /\ pos = 0 /\ eof = FALSE
  BY <1>1 DEF Steady, Asking
<1>4. insize' = Wanted /\ pos' + insize' <= realInsize
  <2>1. CASE params.chunkSize < realInsize
    <3>1. insize' = params.chunkSize /\ pos' \in Positions
      BY <2>1 DEF Seek
    <3>2. pos' + insize' <= realInsize
      BY <3>1, PositionsFit DEF Inv
    <3> QED
      BY <1>1, <2>1, <3>1, <3>2 DEF Wanted, Smaller
  <2>2. CASE ~(params.chunkSize < realInsize)
    <3>1. insize' = realInsize /\ pos' = 0
      BY <1>3, <2>2 DEF Seek
    <3>2. 0 + realInsize <= realInsize
      BY Typed
    <3> QED
      BY <1>1, <2>2, <3>1, <3>2 DEF Wanted, Smaller
  <2> QED
    BY <2>1, <2>2
<1> QED
  BY <1>1, <1>2, <1>3, <1>4 DEF Steady, Asking, InParts, Whole

(* A first read gets all it asks for; so nothing is missing of a file that  *)
(* is tested whole.                                                         *)
LEMMA SteadyReadFirst ==
  ASSUME Inv, Steady, ReadFirst
  PROVE  Steady'
<1>1. /\ realInsize' = realInsize /\ size' = size /\ i' = i /\ params' = params
      /\ still' = still /\ pc = "read" /\ pc' \in {"baseline", "test"} /\ start' = pos
  BY DEF ReadFirst, fileVars
<1>2. (Limited' <=> Limited) /\ Wanted' = Wanted
  BY <1>1 DEF Limited, Wanted
<1> SUFFICES ASSUME still = TRUE PROVE Steady'
  BY <1>1 DEF Steady
<1>3. /\ realInsize = size[i] /\ eof = FALSE /\ pos + insize <= realInsize
      /\ IF Limited THEN pos = 0 /\ insize = params.memLimit ELSE insize = Wanted
  BY <1>1 DEF Steady, Asking
<1>4. /\ FilesTypeOK /\ i \in File /\ pos \in Nat /\ insize \in Nat
      /\ realInsize \in Nat
  BY <1>1, Typed
<1>5. Available(i, pos, insize) = insize
  <2>1. pos <= size[i] /\ pos + insize <= size[i]
    BY <1>3, <1>4
  <2> QED
    BY <1>4, <2>1, AvailableAll
<1>6. ~(insize < insize)
  BY <1>4
<1>7. insize' = insize /\ pos' = pos + insize' /\ eof' = FALSE
  BY <1>3, <1>5, <1>6 DEF ReadFirst, Fread
<1>8. CASE Limited
  <2>1. pos = 0 /\ insize > 0 /\ insize < realInsize
    BY <1>3, <1>8 DEF Limited
  <2>2. start' = 0 /\ pos' <= realInsize /\ insize' > 0
    BY <1>1, <1>4, <1>7, <2>1
  <2>3. ~(insize' = 0)
    BY <1>4, <1>7, <2>1
  <2> QED
    BY <1>1, <1>2, <1>3, <1>7, <1>8, <2>2, <2>3 DEF Steady, Asking, InParts
<1>9. CASE ~Limited
  <2>1. pos' - start' = insize
    BY <1>1, <1>4, <1>7
  <2>2. pos' - start' = Wanted
    BY <1>3, <1>9, <2>1
  <2> QED
    BY <1>1, <1>2, <1>3, <1>7, <1>9, <2>2 DEF Steady, Asking, Whole
<1> QED
  BY <1>8, <1>9

(* A later read gets nothing only at the end of the file. *)
LEMMA SteadyReadNext ==
  ASSUME Inv, Steady, ReadNext
  PROVE  Steady'
<1>1. /\ realInsize' = realInsize /\ size' = size /\ i' = i /\ params' = params
      /\ still' = still /\ pc = "more" /\ pc' = "test" /\ start' = start
  BY DEF ReadNext, fileVars
<1>2. (Limited' <=> Limited) /\ Wanted' = Wanted
  BY <1>1 DEF Limited, Wanted
<1> SUFFICES ASSUME still = TRUE PROVE Steady'
  BY <1>1 DEF Steady
<1>3. /\ realInsize = size[i] /\ Limited /\ start = 0 /\ pos <= realInsize
      /\ (eof = TRUE => pos = realInsize) /\ insize > 0
  BY <1>1 DEF Steady, InParts, Whole
<1>4. /\ FilesTypeOK /\ i \in File /\ pos \in Nat /\ insize \in Nat
      /\ realInsize \in Nat /\ eof \in BOOLEAN
  BY <1>1, Typed DEF Inv, TypeOK
<1> DEFINE n == Available(i, pos, insize)
<1>5. /\ n \in Nat /\ n <= insize /\ pos + n <= realInsize
      /\ (n < insize => pos + n = realInsize)
  <2>1. pos <= size[i]
    BY <1>3
  <2>2. n \in 0 .. insize /\ pos + n <= size[i] /\ (n < insize => pos + n = size[i])
    BY <1>4, <2>1, AvailableAll
  <2> HIDE DEF n
  <2> QED
    BY <1>3, <1>4, <2>2
<1>6. /\ insize' \in IF eof THEN {0, n} ELSE {n}
      /\ pos' = pos + insize' /\ eof' = (eof \/ n < insize)
  BY DEF ReadNext, Fread
<1> HIDE DEF n
<1>7. insize' = n
  <2>1. CASE eof = TRUE
    <3>1. n = 0
      BY <1>3, <1>4, <1>5, <2>1
    <3> QED
      BY <1>6, <3>1
  <2>2. CASE eof = FALSE
    BY <1>6, <2>2
  <2> QED
    BY <1>4, <2>1, <2>2
<1>8. pos' = pos + n
  BY <1>6, <1>7
<1>9. eof' = TRUE => pos + n = realInsize
  <2>1. CASE n < insize
    BY <1>5, <2>1
  <2>2. CASE ~(n < insize)
    <3>1. n > 0
      BY <1>3, <1>4, <1>5, <2>2
    <3>2. ASSUME eof = TRUE PROVE FALSE
      <4>1. pos = realInsize
        BY <1>3, <3>2
      <4> QED
        BY <1>4, <1>5, <3>1, <4>1
    <3> QED
      BY <1>4, <1>6, <2>2, <3>2, Zenon
  <2> QED
    BY <2>1, <2>2
<1>10. n = 0 => pos + n = realInsize
  BY <1>3, <1>4, <1>5
<1> QED
  BY <1>1, <1>2, <1>3, <1>5, <1>7, <1>8, <1>9, <1>10 DEF Steady, Asking, InParts

LEMMA SteadyStep ==
  ASSUME Separate, Inv, Fits, Steady, [Next]_mainVars
  PROVE  Steady'
<1>1. CASE TestWhole
  BY <1>1 DEF TestWhole, fileVars, Steady, Asking, InParts, Whole, Limited, Wanted
<1>2. CASE TestPart
  <2>1. insize > 0
    BY <1>2 DEF TestPart
  <2> QED
    BY <1>2, <2>1 DEF TestPart, fileVars, Steady, Asking, InParts, Whole, Limited, Wanted
<1>3. CASE LeaveParts
  BY <1>3 DEF LeaveParts, fileVars, Steady, Asking, InParts, Whole, Limited, Wanted
<1>4. CASE TestBaseline
  BY <1>4 DEF TestBaseline, fileVars, Steady, Asking, InParts, Whole, Limited, Wanted
<1>5. CASE Others
  <2>1. still' = TRUE => still = TRUE /\ \A f \in File : f = i => size'[f] = size[f]
    BY <1>5 DEF Others
  <2>2. pc \notin {"next", "crashed"} => i \in File
    BY Typed
  <2> QED
    BY <1>5, <2>1, <2>2 DEF Others, Steady, Asking, InParts, Whole, Limited, Wanted
<1>6. CASE UNCHANGED mainVars
  BY <1>6 DEF mainVars, runVars, fileVars, Steady, Asking, InParts, Whole, Limited, Wanted
<1>7. CASE SkipDirectory \/ SkipUnreadable \/ OpenFile \/ AllocationFails \/ CloseFile
  BY <1>7 DEF SkipDirectory, SkipUnreadable, OpenFile, AllocationFails, CloseFile, Steady
<1> QED
  BY <1>1, <1>2, <1>3, <1>4, <1>5, <1>6, <1>7, SteadyMeasure, SteadyAllocate,
     SteadySeek, SteadyReadFirst, SteadyReadNext DEF Next, MainStep, Finished

-------------------------------------------------------------------------------
LEMMA CoverInit ==
  Init => Followed /\ Fits /\ Steady
BY DEF Init, Followed, Fits, Steady

LEMMA CoverAlways ==
  ASSUME Separate
  PROVE  Spec => [](Inv /\ Followed /\ Fits /\ Steady)
<1>1. Inv /\ Followed /\ Fits /\ Steady /\ [Next]_mainVars
        => (Inv /\ Followed /\ Fits /\ Steady)'
  BY InvStep, FollowedStep, FitsStep, SteadyStep
<1> QED
  BY <1>1, InvInit, CoverInit, PTL DEF Spec

(* Without -R, or without -m, no read is longer than inbuf and no codec     *)
(* gets more than compbuf has room for, whatever others do to the files     *)
(* after they were measured.                                                *)
THEOREM ReadsInBuffers == ASSUME Separate PROVE Spec => []ReadsFit
<1>1. Inv /\ Followed /\ Fits /\ Steady => ReadsFit
  BY DEF Fits, ReadsFit
<1> QED
  BY <1>1, CoverAlways, PTL

(* Without -R, or without -m, the parts tested follow each other, and a     *)
(* file that nobody changes is tested whole or, with -R, for one whole      *)
(* chunk.                                                                   *)
THEOREM PartsCoverFile == ASSUME Separate PROVE Spec => []PartsCover
<1>1. ASSUME Inv, Followed, Fits, Steady PROVE PartsCover
  <2>1. /\ \A p, q \in tested : p = q \/ Bytes(p) \cap Bytes(q) = {}
        /\ pc \in {"more", "close"} => Tested = start .. pos - 1
    BY <1>1 DEF Followed
  <2>2. ASSUME pc = "close", still
        PROVE  pos - start = IF params.randomRead
                               THEN Smaller(params.chunkSize, realInsize) ELSE realInsize
    <3>1. still = TRUE
      BY <1>1, <2>2 DEF Inv, TypeOK
    <3>2. CASE Limited
      <4>1. start = 0 /\ pos = realInsize
        BY <1>1, <2>2, <3>1, <3>2 DEF Steady, InParts
      <4>2. ~params.randomRead
        BY <1>1, <3>2, Typed DEF Separate, Inv, TypeOK, Limited
      <4> QED
        BY <1>1, <4>1, <4>2, Typed
    <3>3. CASE ~Limited
      BY <1>1, <2>2, <3>1, <3>3 DEF Steady, Whole, Wanted
    <3> QED
      BY <3>2, <3>3
  <2> QED
    BY <2>1, <2>2 DEF PartsCover
<1> QED
  BY <1>1, CoverAlways, PTL

===============================================================================
