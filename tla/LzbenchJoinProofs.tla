--------------------------- MODULE LzbenchJoinProofs ---------------------------
(***************************************************************************)
(* What holds of lzbench_join for any number of files of any size, however *)
(* others change them while they are added up, measured and read.          *)
(***************************************************************************)
EXTENDS LzbenchJoin, FiniteSetTheorems, NumberLemmas

(* The stream of the file in hand is the only open one.                     *)
InHand ==
  /\ pc \in {"measure", "read"} => i <= Files /\ opened = 1
  /\ pc \in {"total", "next", "tested"} => opened = 0
  /\ pc = "clean" => opened \in {0, 1}

(* The buffers were made for totalsize bytes, and what is in inbuf, or is   *)
(* about to be, is never more.                                              *)
Sized ==
  /\ pc = "total" => inpos = 0
  /\ pc \in {"next", "measure", "read"} =>
       room = totalsize + PadSize /\ comprsize = CompressBound(totalsize)
  /\ pc \in {"next", "measure"} => inpos <= totalsize
  /\ pc = "read" => inpos + insize <= totalsize
  /\ JoinedFits

(* The arguments done with that are regular files still and were opened:    *)
(* each was joined.                                                         *)
RegularBelow(n) == {f \in File : f < n /\ kind[f] = "regular" /\ f \notin refused}

AllJoined ==
  /\ pc \in {"next", "measure", "read"} =>
       Cardinality(RegularBelow(i)) <= Len(fileSizes)
  /\ pc = "clean" /\ opened = 0 => \A f \in File : kind[f] = "regular" => f \in refused
  /\ NoneLeftOut

Inv ==
  /\ TypeOK
  /\ InHand
  /\ Sized
  /\ AllJoined

-------------------------------------------------------------------------------
LEMMA BoundNat ==
  ASSUME NEW n \in Nat
  PROVE  CompressBound(n) \in Nat /\ n <= CompressBound(n)
BY DivNat, JoinAssumption DEF CompressBound

LEMMA BoundMonotone ==
  ASSUME NEW m \in Nat, NEW n \in Nat, m <= n
  PROVE  CompressBound(m) <= CompressBound(n)
<1>1. m \div ExpandDiv <= n \div ExpandDiv
  BY DivMonotone, JoinAssumption
<1>2. m \div ExpandDiv \in Nat /\ n \div ExpandDiv \in Nat
  BY DivNat, JoinAssumption
<1> QED
  BY <1>1, <1>2, JoinAssumption DEF CompressBound

LEMMA AvailableNat ==
  ASSUME FilesTypeOK, NEW f \in File, NEW n \in Nat
  PROVE  Available(f, 0, n) \in 0 .. n
<1>1. size[f] \in Nat
  BY FilesAssumption DEF FilesTypeOK
<1> QED
  BY <1>1 DEF Available, Smaller

(* There are finitely many arguments, and one is done with at a time. *)
LEMMA RegularFinite ==
  ASSUME NEW n
  PROVE  IsFiniteSet(RegularBelow(n)) /\ Cardinality(RegularBelow(n)) \in Nat
<1>1. IsFiniteSet(File)
  BY FS_Interval, FilesAssumption DEF File
<1>2. RegularBelow(n) \in SUBSET File
  BY DEF RegularBelow
<1>3. IsFiniteSet(RegularBelow(n))
  BY <1>1, <1>2, FS_Subset
<1> QED
  BY <1>3, FS_CardinalityType

LEMMA RegularNext ==
  ASSUME NEW n \in File
  PROVE  /\ Cardinality(RegularBelow(n + 1)) <= Cardinality(RegularBelow(n)) + 1
         /\ kind[n] # "regular" \/ n \in refused => RegularBelow(n + 1) = RegularBelow(n)
<1>1. File = 1 .. Files /\ Files \in Nat
  BY FilesAssumption DEF File
<1>2. RegularBelow(n + 1) \subseteq RegularBelow(n) \cup {n}
  BY <1>1 DEF RegularBelow
<1>3. kind[n] # "regular" \/ n \in refused => RegularBelow(n + 1) = RegularBelow(n)
  BY <1>1 DEF RegularBelow
<1>4. IsFiniteSet(RegularBelow(n)) /\ Cardinality(RegularBelow(n)) \in Nat
  BY RegularFinite
<1> DEFINE S == RegularBelow(n) \cup {n}
<1>5. IsFiniteSet(S) /\ Cardinality(S) \in Nat /\ Cardinality(S) <= Cardinality(RegularBelow(n)) + 1
  <2> DEFINE c == Cardinality(RegularBelow(n))
  <2>1. IsFiniteSet(S) /\ Cardinality(S) = IF n \in RegularBelow(n) THEN c ELSE c + 1
    BY <1>4, FS_AddElement
  <2>2. c \in Nat
    BY <1>4
  <2> HIDE DEF S, c
  <2>3. Cardinality(S) \in Nat /\ Cardinality(S) <= c + 1
    BY <2>1, <2>2
  <2> QED
    BY <2>1, <2>3 DEF c
<1>6. Cardinality(RegularBelow(n + 1)) <= Cardinality(S)
  BY <1>2, <1>5, FS_Subset
<1>7. Cardinality(RegularBelow(n + 1)) \in Nat
  BY RegularFinite
<1> QED
  BY <1>3, <1>4, <1>5, <1>6, <1>7

-------------------------------------------------------------------------------
LEMMA InvInit ==
  Init => Inv
<1> SUFFICES ASSUME Init PROVE Inv
  OBVIOUS
<1> USE DEF Init
<1>1. FilesTypeOK
  BY FilesAssumption DEF FilesInit, FilesTypeOK
<1>2. TypeOK
  BY <1>1, FilesAssumption DEF TypeOK
<1> QED
  BY <1>2 DEF Inv, InHand, Sized, JoinedFits, AllJoined, NoneLeftOut

(* What others do to the files disturbs no size already read, and only      *)
(* takes regular files away.                                                *)
LEMMA InvOthers ==
  ASSUME Inv, Others
  PROVE  Inv'
<1>1. TypeOK /\ FilesTypeOK
  BY DEF Inv, TypeOK
<1>2. /\ FilesTypeOK'
      /\ \A f \in File : kind'[f] = "regular" => kind[f] = "regular"
  <2>1. CASE Resize
    BY <1>1, <2>1, FilesAssumption DEF FilesTypeOK, Resize
  <2>2. CASE Unlink
    BY <1>1, <2>2, FilesAssumption DEF FilesTypeOK, Unlink
  <2> QED
    BY <2>1, <2>2 DEF Others, Interfere
<1>3. UNCHANGED joinVars
  BY DEF Others
<1>4. TypeOK'
  BY <1>1, <1>2, <1>3 DEF TypeOK, joinVars
<1>5. InHand' /\ Sized'
  BY <1>3 DEF joinVars, Inv, InHand, Sized, JoinedFits, CompressBound
<1>6. AllJoined'
  <2>1. /\ pc' = pc /\ i' = i /\ fileSizes' = fileSizes
        /\ Len(fileSizes) \in Nat
    BY <1>1, <1>3 DEF joinVars, TypeOK
  <2>2. RegularBelow(i)' \in SUBSET RegularBelow(i)
    BY <1>2, <1>3, <2>1 DEF RegularBelow, joinVars
  <2>3. /\ Cardinality(RegularBelow(i)') <= Cardinality(RegularBelow(i))
        /\ Cardinality(RegularBelow(i)') \in Nat /\ Cardinality(RegularBelow(i)) \in Nat
    BY <2>2, RegularFinite, FS_Subset, FS_CardinalityType
  <2> DEFINE R == {f \in File : kind[f] = "regular"} \ refused
  <2>4. R' \in SUBSET R
    BY <1>2, <1>3 DEF joinVars
  <2>5. IsFiniteSet(R)
    <3>1. IsFiniteSet(File)
      BY FS_Interval, FilesAssumption DEF File
    <3>2. R \in SUBSET File
      OBVIOUS
    <3> HIDE DEF R
    <3> QED
      BY <3>1, <3>2, FS_Subset
  <2>6. /\ Cardinality(R') <= Cardinality(R)
        /\ Cardinality(R') \in Nat /\ Cardinality(R) \in Nat
    BY <2>4, <2>5, FS_Subset, FS_CardinalityType
  <2>7. AllJoined => /\ pc \in {"next", "measure", "read"} =>
                          Cardinality(RegularBelow(i)) <= Len(fileSizes)
                     /\ pc = "tested" => Cardinality(R) <= Len(fileSizes)
    BY DEF AllJoined, NoneLeftOut
  <2>8. /\ pc \in {"next", "measure", "read"} =>
             Cardinality(RegularBelow(i)') <= Len(fileSizes)
        /\ pc = "tested" => Cardinality(R') <= Len(fileSizes)
    <3> HIDE DEF R
    <3> QED
      BY <2>1, <2>3, <2>6, <2>7 DEF Inv
  <2>9. pc' = "clean" /\ opened' = 0 => \A f \in File : kind'[f] = "regular" => f \in refused'
    BY <1>2, <1>3 DEF joinVars, Inv, AllJoined
  <2> QED
    BY <2>1, <2>8, <2>9 DEF AllJoined, NoneLeftOut
<1> QED
  BY <1>4, <1>5, <1>6 DEF Inv

LEMMA InvAddSize ==
  ASSUME Inv, AddSize
  PROVE  Inv'
<1> USE DEF AddSize, fileVars
<1>1. i \in File /\ totalsize \in Nat /\ FilesTypeOK
  BY DEF Inv, TypeOK, File
<1>2. StatSize(i) \in Nat
  BY <1>1, FilesAssumption DEF StatSize, FilesTypeOK
<1>3. totalsize' \in Nat
  BY <1>1, <1>2
<1>4. TypeOK'
  BY <1>3, FilesAssumption DEF Inv, TypeOK, FilesTypeOK
<1> QED
  BY <1>4 DEF Inv, InHand, Sized, JoinedFits, AllJoined, NoneLeftOut

LEMMA InvAllocate ==
  ASSUME Inv, Allocate
  PROVE  Inv'
<1> USE DEF Allocate, fileVars
<1>1. totalsize \in Nat /\ inpos \in Nat /\ PadSize \in Nat
  BY JoinAssumption DEF Inv, TypeOK
<1>2. pc' = "next" /\ inpos' = inpos /\ i' = 1
  OBVIOUS
<1>3. totalsize + PadSize \in Nat /\ CompressBound(totalsize) \in Nat
  BY <1>1, BoundNat
<1>4. TypeOK'
  BY <1>3, FilesAssumption DEF Inv, TypeOK, FilesTypeOK
<1>5. inpos = 0 /\ 0 <= totalsize /\ 0 + PadSize <= totalsize + PadSize
  BY <1>1 DEF Inv, Sized
<1>6. CompressBound(0) <= CompressBound(totalsize)
  BY <1>1, BoundMonotone
<1>7. Sized'
  BY <1>2, <1>5, <1>6 DEF Sized, JoinedFits, CompressBound
<1>8. AllJoined'
  <2>1. RegularBelow(1) = {} /\ RegularBelow(i)' = RegularBelow(1)
    BY <1>2, FilesAssumption DEF RegularBelow, File
  <2>2. Cardinality(RegularBelow(1)) = 0
    BY <2>1, FS_EmptySet
  <2>3. fileSizes' \in Seq(Nat)
    BY <1>4 DEF TypeOK
  <2>4. Cardinality(RegularBelow(i)') <= Len(fileSizes')
    BY <2>1, <2>2, <2>3
  <2> QED
    BY <1>2, <2>4 DEF AllJoined, NoneLeftOut
<1> QED
  BY <1>2, <1>4, <1>7, <1>8 DEF Inv, InHand

(* An argument that is no readable file is passed over. *)
LEMMA InvSkip ==
  ASSUME Inv, SkipDirectory \/ SkipUnreadable
  PROVE  Inv'
<1> USE DEF SkipDirectory, SkipUnreadable, fileVars
<1>1. /\ i \in File /\ i' = i + 1 /\ pc = "next" /\ pc' = "next" /\ opened' = opened
      /\ kind[i] # "regular" \/ i \in refused'
      /\ refused' \in {refused, refused \cup {i}}
  BY DEF Inv, TypeOK, File
<1>2. TypeOK'
  <2>1. i' \in 1 .. Files + 1
    BY <1>1, FilesAssumption DEF File
  <2>2. refused' \subseteq File
    BY <1>1 DEF Inv, TypeOK
  <2> QED
    BY <2>1, <2>2 DEF Inv, TypeOK, FilesTypeOK
<1>3. Sized'
  BY DEF Inv, Sized, JoinedFits, CompressBound
<1>4. AllJoined'
  <2>1. i \in Nat /\ File = 1 .. Files /\ Files \in Nat
    BY <1>1, FilesAssumption DEF File
  <2>2. RegularBelow(i)' \in SUBSET RegularBelow(i)
    BY <1>1, <2>1 DEF RegularBelow
  <2>3. /\ Cardinality(RegularBelow(i)') <= Cardinality(RegularBelow(i))
        /\ Cardinality(RegularBelow(i)') \in Nat /\ Cardinality(RegularBelow(i)) \in Nat
    BY <2>2, RegularFinite, FS_Subset, FS_CardinalityType
  <2>4. Cardinality(RegularBelow(i)) <= Len(fileSizes) /\ Len(fileSizes) \in Nat
        /\ fileSizes' = fileSizes
    BY <1>1 DEF Inv, AllJoined, TypeOK
  <2>5. Cardinality(RegularBelow(i)') <= Len(fileSizes')
    BY <2>3, <2>4
  <2> QED
    BY <1>1, <2>5 DEF AllJoined, NoneLeftOut
<1> QED
  BY <1>2, <1>3, <1>4 DEF Inv, InHand

LEMMA InvOpenFile ==
  ASSUME Inv, OpenFile
  PROVE  Inv'
<1> USE DEF OpenFile, fileVars
<1>1. TypeOK' /\ InHand'
  BY DEF Inv, TypeOK, FilesTypeOK, InHand
<1>2. RegularBelow(i)' = RegularBelow(i)
  BY DEF RegularBelow
<1> QED
  BY <1>1, <1>2 DEF Inv, Sized, JoinedFits, CompressBound, AllJoined, NoneLeftOut

(* A file that would go beyond totalsize ends it all. *)
LEMMA InvMeasure ==
  ASSUME Inv, Measure
  PROVE  Inv'
<1> USE DEF Measure, fileVars
<1>1. i \in File /\ FilesTypeOK /\ inpos \in Nat /\ totalsize \in Nat /\ PadSize \in Nat
  BY JoinAssumption DEF Inv, TypeOK, File, InHand
<1>2. size[i] \in Nat
  BY <1>1, FilesAssumption DEF FilesTypeOK
<1>3. TypeOK' /\ InHand'
  BY <1>2 DEF Inv, TypeOK, FilesTypeOK, InHand
<1>4. CASE inpos + size[i] > totalsize
  <2>1. pc' = "clean" /\ opened' = 1
    BY <1>4 DEF Inv, InHand
  <2> QED
    BY <1>3, <2>1 DEF Inv, Sized, JoinedFits, AllJoined, NoneLeftOut
<1>5. CASE ~(inpos + size[i] > totalsize)
  <2>1. pc' = "read" /\ insize' = size[i]
    BY <1>5
  <2>2. inpos + size[i] \in Nat /\ inpos + size[i] <= totalsize
    BY <1>1, <1>2, <1>5
  <2>3. CompressBound(inpos + size[i]) <= CompressBound(totalsize)
    BY <1>1, <2>2, BoundMonotone
  <2>4. inpos + size[i] + PadSize <= totalsize + PadSize
    BY <1>1, <2>2
  <2>5. Sized'
    BY <2>1, <2>2, <2>3, <2>4 DEF Inv, Sized, JoinedFits, CompressBound
  <2>6. RegularBelow(i)' = RegularBelow(i)
    BY DEF RegularBelow
  <2> QED
    BY <1>3, <2>1, <2>5, <2>6 DEF Inv, AllJoined, NoneLeftOut
<1> QED
  BY <1>4, <1>5

LEMMA Joining ==
  ASSUME NEW T, NEW s \in Seq(T), NEW t \in Seq(T)
  PROVE  s \o t \in Seq(T)
OBVIOUS

(* A shorter file than was measured takes less of the room.                 *)
LEMMA InvReadFile ==
  ASSUME Inv, ReadFile
  PROVE  Inv'
<1> DEFINE n == Available(i, 0, insize)
<1>1. /\ i \in File /\ FilesTypeOK /\ inpos \in Nat /\ insize \in Nat
      /\ totalsize \in Nat /\ PadSize \in Nat /\ opened = 1 /\ refused \subseteq File
      /\ fileSizes \in Seq(Nat) /\ origin \in Seq(File)
  BY JoinAssumption DEF Inv, TypeOK, File, InHand, ReadFile
<1>2. n \in Nat /\ n <= insize
  <2>1. n \in 0 .. insize
    BY <1>1, AvailableNat
  <2> HIDE DEF n
  <2> QED
    BY <1>1, <2>1
<1>3. /\ fileSizes' = Append(fileSizes, n) /\ inpos' = inpos + n /\ insize' = n
      /\ origin' = origin \o [k \in 1 .. n |-> i]
      /\ opened' = opened - 1 /\ i' = i + 1 /\ pc = "read" /\ pc' = "next"
      /\ UNCHANGED <<totalsize, comprsize, room, refused, result, kind, size, changes>>
  BY DEF ReadFile, Accept, fileVars
<1> HIDE DEF n
<1>4. fileSizes' \in Seq(Nat) /\ Len(fileSizes') = Len(fileSizes) + 1
  BY <1>1, <1>2, <1>3
<1>5. origin' \in Seq(File)
  <2>1. [k \in 1 .. n |-> i] \in Seq(File)
    BY <1>1, <1>2
  <2> QED
    BY <1>1, <1>3, <2>1, Joining
<1>6. inpos + n \in Nat /\ inpos + n <= totalsize
  <2>1. inpos + insize <= totalsize
    BY <1>3 DEF Inv, Sized
  <2> QED
    BY <1>1, <1>2, <2>1
<1>7. TypeOK'
  <2>1. i' \in 1 .. Files + 1
    BY <1>1, <1>3, FilesAssumption DEF File
  <2>2. opened' \in Nat
    BY <1>1, <1>3
  <2>3. FilesTypeOK'
    BY <1>1, <1>3 DEF FilesTypeOK
  <2> QED
    BY <1>2, <1>3, <1>4, <1>5, <1>6, <2>1, <2>2, <2>3 DEF Inv, TypeOK
<1>8. Sized'
  <2>1. CompressBound(inpos + n) <= CompressBound(totalsize)
    BY <1>1, <1>6, BoundMonotone
  <2>2. inpos + n + PadSize <= totalsize + PadSize
    BY <1>1, <1>6
  <2> QED
    BY <1>3, <1>6, <2>1, <2>2 DEF Inv, Sized, JoinedFits, CompressBound
<1>9. AllJoined'
  <2>1. RegularBelow(i)' = RegularBelow(i + 1)
    BY <1>3 DEF RegularBelow
  <2>2. /\ Cardinality(RegularBelow(i + 1)) <= Cardinality(RegularBelow(i)) + 1
        /\ Cardinality(RegularBelow(i + 1)) \in Nat /\ Cardinality(RegularBelow(i)) \in Nat
    BY <1>1, RegularNext, RegularFinite
  <2>3. Cardinality(RegularBelow(i)) <= Len(fileSizes) /\ Len(fileSizes) \in Nat
    BY <1>1, <1>3 DEF Inv, AllJoined
  <2>4. Cardinality(RegularBelow(i + 1)) <= Len(fileSizes')
    BY <1>4, <2>2, <2>3
  <2> QED
    BY <1>3, <2>1, <2>4 DEF AllJoined, NoneLeftOut
<1> QED
  BY <1>3, <1>7, <1>8, <1>9 DEF Inv, InHand

(* All arguments are done with: what is counted of them is all there is.    *)
LEMMA InvRunTests ==
  ASSUME Inv, RunTests
  PROVE  Inv'
<1> USE DEF RunTests, fileVars
<1>1. TypeOK'
  BY DEF Inv, TypeOK, FilesTypeOK
<1>2. Sized'
  BY DEF Inv, Sized, JoinedFits, CompressBound
<1>3. AllJoined'
  <2>1. i \in Nat /\ i > Files
    BY FilesAssumption DEF Inv, TypeOK
  <2>2. RegularBelow(i) = {f \in File : kind[f] = "regular"} \ refused
    BY <2>1, FilesAssumption DEF RegularBelow, File
  <2> QED
    BY <2>2 DEF Inv, AllJoined, NoneLeftOut
<1> QED
  BY <1>1, <1>2, <1>3 DEF Inv, InHand

(* The ways out. *)
LEMMA InvOut ==
  ASSUME Inv, NothingFound \/ AllocationFails \/ Clean
  PROVE  Inv'
<1> USE DEF NothingFound, AllocationFails, Clean, fileVars
<1>1. TypeOK'
  BY DEF Inv, TypeOK, FilesTypeOK
<1> QED
  BY <1>1 DEF Inv, InHand, Sized, JoinedFits, AllJoined, NoneLeftOut

(* With no size in file_sizes no argument was opened that still is a        *)
(* regular file.                                                            *)
LEMMA InvNoFiles ==
  ASSUME Inv, NoFiles
  PROVE  Inv'
<1> USE DEF NoFiles, fileVars
<1>1. TypeOK' /\ InHand' /\ Sized'
  BY DEF Inv, TypeOK, FilesTypeOK, InHand, Sized, JoinedFits
<1>2. i \in Nat /\ i > Files /\ pc = "next" /\ fileSizes = <<>>
  BY FilesAssumption DEF Inv, TypeOK
<1>3. Cardinality(RegularBelow(i)) <= 0
  BY <1>2 DEF Inv, AllJoined
<1>4. IsFiniteSet(RegularBelow(i)) /\ Cardinality(RegularBelow(i)) \in Nat
  BY RegularFinite
<1>5. Cardinality(RegularBelow(i)) = 0
  BY <1>3, <1>4
<1>6. RegularBelow(i) = {}
  BY <1>4, <1>5, FS_EmptySet
<1>7. ASSUME NEW f \in File, kind[f] = "regular" PROVE f \in refused
  <2>1. f < i
    BY <1>2, FilesAssumption DEF File
  <2> QED
    BY <1>6, <1>7, <2>1 DEF RegularBelow
<1>8. AllJoined'
  BY <1>7 DEF AllJoined, NoneLeftOut
<1> QED
  BY <1>1, <1>8 DEF Inv

LEMMA InvStep ==
  Inv /\ [Next]_allVars => Inv'
<1> SUFFICES ASSUME Inv, [Next]_allVars PROVE Inv'
  OBVIOUS
<1>1. CASE JoinStep
  BY <1>1, InvAddSize, InvAllocate, InvSkip, InvOpenFile, InvMeasure, InvReadFile,
     InvRunTests, InvNoFiles, InvOut DEF JoinStep
<1>2. CASE Others
  BY <1>2, InvOthers
<1>3. CASE UNCHANGED allVars
  <2>1. TypeOK' /\ InHand' /\ Sized'
    BY <1>3 DEF allVars, joinVars, fileVars, Inv, TypeOK, FilesTypeOK, InHand,
                Sized, JoinedFits, CompressBound
  <2>2. AllJoined'
    BY <1>3 DEF allVars, joinVars, fileVars, Inv, AllJoined, NoneLeftOut, RegularBelow
  <2> QED
    BY <2>1, <2>2 DEF Inv
<1> QED
  BY <1>1, <1>2, <1>3 DEF Next, Finished

LEMMA InvAlways ==
  Spec => []Inv
BY InvInit, InvStep, PTL DEF Spec

(* The types of lzbench_join; no stream is closed twice.                    *)
THEOREM JoinTypes == Spec => []TypeOK
<1>1. Inv => TypeOK
  BY DEF Inv
<1> QED
  BY <1>1, InvAlways, PTL

(* However the files change after their sizes were added up, the joined     *)
(* input stays PAD_SIZE below the end of inbuf, and compbuf has the bound   *)
(* of lzbench_compress for it.                                              *)
THEOREM JoinedInBuffers == Spec => []JoinedFits
<1>1. Inv => JoinedFits
  BY DEF Inv, Sized
<1> QED
  BY <1>1, InvAlways, PTL

(* When the tests begin, every argument that is still a regular file is in  *)
(* the joined input: no way through the loop leaves one out.                *)
THEOREM EveryFileJoined == Spec => []NoneLeftOut
<1>1. Inv => NoneLeftOut
  BY DEF Inv, AllJoined
<1> QED
  BY <1>1, InvAlways, PTL

-------------------------------------------------------------------------------
(* The pieces are those of the files read, one after the other, each of one *)
(* file.                                                                    *)
Pieces ==
  /\ SumTo(fileSizes, Len(fileSizes)) = inpos
  /\ Len(origin) = inpos
  /\ \A j \in 1 .. Len(fileSizes) :
       \A k, m \in SumTo(fileSizes, j - 1) + 1 .. SumTo(fileSizes, j) :
         origin[k] = origin[m]
  /\ \A k, m \in 1 .. inpos : k <= m => origin[k] <= origin[m]

(* The file in hand is behind all that is in inbuf.                          *)
Ahead ==
  /\ pc = "total" => fileSizes = <<>>
  /\ pc \in {"next", "measure", "read"} => \A k \in 1 .. inpos : origin[k] < i
  /\ pc = "tested" => totalsize = inpos

(* As long as nobody changes the files, the loops find the sizes that were   *)
(* added up.                                                                 *)
Untouched ==
  /\ \A g \in File : kind[g] # "regular" => size[g] = 0
  /\ pc = "total" => totalsize = SumTo(size, i - 1)
  /\ totalsize > 0 => \E g \in File : kind[g] = "regular"
  /\ pc \in {"next", "measure", "read"} =>
       /\ totalsize = SumTo(size, Files) /\ totalsize > 0
       /\ inpos <= SumTo(size, i - 1)
  /\ pc = "read" => insize = size[i]
  /\ pc = "clean" => opened = 0 /\ \E g \in File : kind[g] = "regular"

Unchanged == changes = 0 => Untouched

LEMMA SizesNat ==
  ASSUME TypeOK
  PROVE  /\ \A k \in 1 .. Files : size[k] \in Nat
         /\ \A k \in 1 .. Len(fileSizes) : fileSizes[k] \in Nat
         /\ Len(fileSizes) \in Nat /\ Files \in Nat
<1>1. Files \in Nat /\ File = 1 .. Files
  BY FilesAssumption DEF File
<1>2. \A k \in 1 .. Files : size[k] \in Nat
  <2>1. size \in [File -> 0 .. MaxSize] /\ 0 .. MaxSize \subseteq Nat
    BY FilesAssumption DEF TypeOK, FilesTypeOK
  <2> QED
    BY <2>1, <1>1
<1>3. fileSizes \in Seq(Nat)
  BY DEF TypeOK
<1>4. Len(fileSizes) \in Nat /\ \A k \in 1 .. Len(fileSizes) : fileSizes[k] \in Nat
  BY <1>3
<1> QED
  BY <1>1, <1>2, <1>4

LEMMA Appending ==
  ASSUME NEW T, NEW s \in Seq(T), NEW e \in T
  PROVE  /\ Append(s, e) \in Seq(T)
         /\ Len(s) \in Nat /\ Len(Append(s, e)) = Len(s) + 1
         /\ Append(s, e)[Len(s) + 1] = e
         /\ \A k \in 1 .. Len(s) : Append(s, e)[k] = s[k] /\ s[k] \in T
OBVIOUS

LEMMA JoiningParts ==
  ASSUME NEW T, NEW s \in Seq(T), NEW r \in Seq(T)
  PROVE  /\ Len(s \o r) = Len(s) + Len(r)
         /\ \A k \in 1 .. Len(s) : (s \o r)[k] = s[k]
         /\ \A k \in Len(s) + 1 .. Len(s) + Len(r) : (s \o r)[k] = r[k - Len(s)]
OBVIOUS

-------------------------------------------------------------------------------
LEMMA PiecesInit ==
  Init => Pieces /\ Ahead /\ Unchanged
<1> SUFFICES ASSUME Init PROVE Pieces /\ Ahead /\ Unchanged
  OBVIOUS
<1> USE DEF Init
<1>1. TypeOK
  BY InvInit DEF Inv
<1>2. SumTo(fileSizes, 0) = 0 /\ SumTo(size, 0) = 0
  BY <1>1, SizesNat, SumToNext
<1>3. Pieces /\ Ahead
  BY <1>2 DEF Pieces, Ahead
<1>4. Untouched
  BY <1>2 DEF FilesInit, File, Untouched
<1> QED
  BY <1>3, <1>4 DEF Unchanged

(* A step that leaves inbuf alone.                                           *)
LEMMA PiecesKept ==
  ASSUME Pieces, UNCHANGED <<fileSizes, inpos, origin>>
  PROVE  Pieces'
BY DEF Pieces

LEMMA PiecesRead ==
  ASSUME Inv, Pieces, Ahead, ReadFile
  PROVE  Pieces' /\ Ahead'
<1> DEFINE n == Available(i, 0, insize)
<1>1. /\ i \in File /\ inpos \in Nat /\ insize \in Nat /\ TypeOK /\ FilesTypeOK
      /\ fileSizes \in Seq(Nat) /\ origin \in Seq(File) /\ Files \in Nat
  BY FilesAssumption DEF Inv, TypeOK, File, InHand, ReadFile
<1>2. n \in Nat
  <2>1. n \in 0 .. insize
    BY <1>1, AvailableNat
  <2> HIDE DEF n
  <2> QED
    BY <1>1, <2>1
<1>3. /\ fileSizes' = Append(fileSizes, n) /\ inpos' = inpos + n
      /\ origin' = origin \o [k \in 1 .. n |-> i]
      /\ i' = i + 1 /\ pc = "read" /\ pc' = "next"
  BY DEF ReadFile, Accept
<1> HIDE DEF n
<1>4. PICK L \in Nat : L = Len(fileSizes)
  BY <1>1
<1>5. PICK t \in Seq(Nat) : t = Append(fileSizes, n)
  BY <1>1, <1>2, Appending
<1>6. /\ Len(t) = L + 1 /\ t[L + 1] = n
      /\ \A k \in 1 .. L : t[k] = fileSizes[k] /\ fileSizes[k] \in Nat
      /\ \A k \in 1 .. L + 1 : t[k] \in Nat
  <2>1. /\ Len(t) = L + 1 /\ t[L + 1] = n
        /\ \A k \in 1 .. L : t[k] = fileSizes[k] /\ fileSizes[k] \in Nat
    BY <1>1, <1>2, <1>4, <1>5, Appending
  <2>2. ASSUME NEW k \in 1 .. L + 1 PROVE t[k] \in Nat
    BY <1>5, <2>1
  <2> QED
    BY <2>1, <2>2
<1>7. \A j \in 0 .. L : SumTo(t, j) = SumTo(fileSizes, j)
  <2>1. ASSUME NEW j \in 0 .. L PROVE SumTo(t, j) = SumTo(fileSizes, j)
    <3>1. \A k \in 1 .. j : fileSizes[k] \in Nat /\ t[k] = fileSizes[k]
      BY <1>6
    <3> QED
      BY <3>1, SumToSame
  <2> QED
    BY <2>1
<1>8. SumTo(t, L) = inpos
  BY <1>4, <1>7 DEF Pieces
<1>9. SumTo(t, L + 1) = inpos + n
  <2>1. PICK m \in Nat : m = L + 1
    OBVIOUS
  <2>2. m > 0 /\ m - 1 = L
    BY <2>1
  <2>3. SumTo(t, m) = SumTo(t, m - 1) + t[m]
    BY <2>1, <2>2, <1>6, SumToNext
  <2> QED
    BY <2>1, <2>2, <2>3, <1>6, <1>8
<1>10. PICK o \in Seq(File) : o = origin'
  <2>1. [k \in 1 .. n |-> i] \in Seq(File)
    BY <1>1, <1>2
  <2> QED
    BY <1>1, <1>3, <2>1, Joining
<1>11. /\ Len(o) = inpos + n
       /\ \A k \in 1 .. inpos : o[k] = origin[k]
       /\ \A k \in inpos + 1 .. inpos + n : o[k] = i
  <2>1. PICK r : r = [k \in 1 .. n |-> i]
    OBVIOUS
  <2>2. r \in Seq(File) /\ Len(r) = n /\ \A k \in 1 .. n : r[k] = i
    BY <2>1, <1>1, <1>2
  <2>3. o = origin \o r /\ Len(origin) = inpos
    BY <1>3, <1>10, <2>1 DEF Pieces
  <2>4. /\ Len(o) = inpos + n
        /\ \A k \in 1 .. inpos : o[k] = origin[k]
        /\ \A k \in inpos + 1 .. inpos + n : o[k] = r[k - inpos]
    <3>1. PICK a \in Seq(File) : a = origin
      BY <1>1
    <3>2. /\ Len(a \o r) = Len(a) + Len(r)
          /\ \A k \in 1 .. Len(a) : (a \o r)[k] = a[k]
          /\ \A k \in Len(a) + 1 .. Len(a) + Len(r) : (a \o r)[k] = r[k - Len(a)]
      BY <2>2, JoiningParts
    <3>3. Len(a) = inpos /\ o = a \o r
      BY <3>1, <2>3
    <3> QED
      BY <3>1, <3>2, <3>3, <2>2
  <2>5. ASSUME NEW k \in inpos + 1 .. inpos + n PROVE o[k] = i
    <3>1. k - inpos \in 1 .. n
      BY <1>1, <1>2
    <3> QED
      BY <2>2, <2>4, <3>1
  <2> QED
    BY <2>4, <2>5
<1>12. /\ \A k \in 1 .. inpos : origin[k] < i /\ origin[k] \in Nat
       /\ i \in Nat
  <2>1. File \subseteq Nat
    BY <1>1 DEF File
  <2>2. Len(origin) = inpos
    BY DEF Pieces
  <2>3. \A k \in 1 .. inpos : origin[k] \in File
    BY <1>1, <2>2
  <2>4. \A k \in 1 .. inpos : origin[k] < i
    BY <1>3 DEF Ahead
  <2> QED
    BY <1>1, <2>1, <2>3, <2>4
<1>13. ASSUME NEW j \in 1 .. L + 1,
              NEW k \in SumTo(t, j - 1) + 1 .. SumTo(t, j),
              NEW m \in SumTo(t, j - 1) + 1 .. SumTo(t, j)
       PROVE  o[k] = o[m]
  <2>1. CASE j = L + 1
    <3>1. j - 1 = L
      BY <2>1
    <3>2. k \in inpos + 1 .. inpos + n /\ m \in inpos + 1 .. inpos + n
      BY <2>1, <3>1, <1>8, <1>9
    <3> QED
      BY <3>2, <1>11
  <2>2. CASE j # L + 1
    <3>1. j \in 1 .. L /\ j \in 0 .. L /\ j - 1 \in 0 .. L
      BY <2>2, <1>4
    <3>2. /\ k \in SumTo(fileSizes, j - 1) + 1 .. SumTo(fileSizes, j)
          /\ m \in SumTo(fileSizes, j - 1) + 1 .. SumTo(fileSizes, j)
      BY <3>1, <1>7
    <3>3. origin[k] = origin[m]
      BY <3>1, <3>2, <1>4 DEF Pieces
    <3>4. SumTo(fileSizes, j) <= inpos
      <4>1. SumTo(fileSizes, j) <= SumTo(fileSizes, L)
        BY <1>6, <3>1, SumToMonotone
      <4> QED
        BY <4>1, <1>7, <1>8
    <3>5. SumTo(fileSizes, j) \in Nat /\ SumTo(fileSizes, j - 1) \in Nat
      <4>1. \A q \in 1 .. j : fileSizes[q] \in Nat
        BY <3>1, <1>6
      <4>2. PICK p \in Nat : p = j - 1
        BY <3>1
      <4>3. \A q \in 1 .. p : fileSizes[q] \in Nat
        BY <4>1, <4>2
      <4> QED
        BY <4>1, <4>2, <4>3, <3>1, SumToNext
    <3>6. k \in 1 .. inpos /\ m \in 1 .. inpos
      BY <3>2, <3>4, <3>5, <1>1
    <3> QED
      BY <3>3, <3>6, <1>11
  <2> QED
    BY <2>1, <2>2
<1>14. ASSUME NEW k \in 1 .. inpos + n, NEW m \in 1 .. inpos + n, k <= m
       PROVE  o[k] <= o[m]
  <2>1. CASE m \in 1 .. inpos
    <3>1. k \in 1 .. inpos
      BY <2>1, <1>14, <1>1
    <3> QED
      BY <3>1, <2>1, <1>11, <1>14 DEF Pieces
  <2>2. CASE m \in inpos + 1 .. inpos + n
    <3>1. o[m] = i
      BY <2>2, <1>11
    <3>2. CASE k \in 1 .. inpos
      <4>1. o[k] = origin[k] /\ origin[k] \in Nat /\ origin[k] < i
        BY <3>2, <1>11, <1>12
      <4> QED
        BY <3>1, <4>1, <1>12
    <3>3. CASE k \in inpos + 1 .. inpos + n
      <4>1. o[k] = i
        BY <3>3, <1>11
      <4> QED
        BY <3>1, <4>1, <1>12
    <3> QED
      BY <3>2, <3>3, <1>1, <1>2
  <2> QED
    BY <2>1, <2>2, <1>1, <1>2
<1>15. Pieces'
  <2>1. fileSizes' = t /\ Len(t) = L + 1 /\ origin' = o /\ inpos' = inpos + n
    BY <1>3, <1>5, <1>6, <1>10
  <2>2. SumTo(fileSizes', Len(fileSizes')) = inpos'
    BY <2>1, <1>9
  <2>3. Len(origin') = inpos'
    BY <2>1, <1>11
  <2> QED
    BY <2>1, <2>2, <2>3, <1>13, <1>14 DEF Pieces
<1>16. Ahead'
  <2>1. ASSUME NEW k \in 1 .. inpos + n PROVE o[k] < i + 1
    <3>1. CASE k \in 1 .. inpos
      <4>1. o[k] = origin[k] /\ origin[k] \in Nat /\ origin[k] < i
        BY <3>1, <1>11, <1>12
      <4> QED
        BY <4>1, <1>12
    <3>2. CASE k \in inpos + 1 .. inpos + n
      <4>1. o[k] = i
        BY <3>2, <1>11
      <4> QED
        BY <4>1, <1>12
    <3> QED
      BY <3>1, <3>2, <1>1, <1>2
  <2> QED
    BY <2>1, <1>3, <1>10 DEF Ahead
<1> QED
  BY <1>15, <1>16

LEMMA PiecesStep ==
  ASSUME Inv, Pieces, Ahead, [Next]_allVars
  PROVE  Pieces' /\ Ahead'
<1>1. i \in Nat /\ inpos \in Nat /\ origin \in Seq(File) /\ Len(origin) = inpos
      /\ \A g \in File : g \in Nat
  BY FilesAssumption DEF Inv, TypeOK, Pieces, File
<1>2. \A k \in 1 .. inpos : origin[k] \in Nat
  BY <1>1
<1>3. CASE AddSize \/ NothingFound \/ AllocationFails \/ OpenFile \/ Measure
           \/ NoFiles \/ RunTests \/ Clean \/ Others \/ UNCHANGED allVars
  <2>1. UNCHANGED <<fileSizes, inpos, origin>>
    BY <1>3 DEF AddSize, NothingFound, AllocationFails, OpenFile, Measure, NoFiles,
                RunTests, Clean, Others, allVars, joinVars
  <2>2. Pieces'
    BY <2>1, PiecesKept
  <2>3. Ahead'
    BY <1>3 DEF Ahead, AddSize, NothingFound, AllocationFails, OpenFile, Measure,
                NoFiles, RunTests, Clean, Others, allVars, joinVars
  <2> QED
    BY <2>2, <2>3
<1>4. CASE Allocate
  <2>1. UNCHANGED <<fileSizes, inpos, origin>> /\ inpos = 0
    BY <1>4 DEF Allocate, Inv, Sized
  <2>2. Pieces'
    BY <2>1, PiecesKept
  <2>3. Ahead'
    BY <1>4, <2>1 DEF Allocate, Ahead
  <2> QED
    BY <2>2, <2>3
<1>5. CASE SkipDirectory \/ SkipUnreadable
  <2>1. UNCHANGED <<fileSizes, inpos, origin, pc>> /\ i' = i + 1 /\ pc = "next"
    BY <1>5 DEF SkipDirectory, SkipUnreadable
  <2>2. Pieces'
    BY <2>1, PiecesKept
  <2>3. \A k \in 1 .. inpos : origin[k] < i + 1
    BY <1>1, <1>2, <2>1 DEF Ahead
  <2>4. Ahead'
    BY <2>1, <2>3 DEF Ahead
  <2> QED
    BY <2>2, <2>4
<1>6. CASE ReadFile
  BY <1>6, PiecesRead
<1> QED
  BY <1>3, <1>4, <1>5, <1>6 DEF Next, JoinStep, Finished

LEMMA UnchangedRead ==
  ASSUME Inv, changes = 0, Untouched, ReadFile
  PROVE  Untouched'
<1>1. /\ i \in File /\ i \in 1 .. Files /\ TypeOK
      /\ size[i] \in Nat /\ \A k \in 1 .. i : size[k] \in Nat
  <2>1. /\ i \in 1 .. Files /\ TypeOK
    BY FilesAssumption DEF Inv, TypeOK, InHand, ReadFile
  <2> QED
    BY <2>1, SizesNat DEF File
<1>2. Available(i, 0, insize) = size[i]
  BY <1>1 DEF Available, Smaller, Untouched, ReadFile
<1>3. inpos' = inpos + size[i] /\ i' = i + 1 /\ pc' = "next" /\ pc = "read"
      /\ UNCHANGED <<size, kind, totalsize>>
  BY <1>2 DEF ReadFile, Accept, fileVars
<1>4. SumTo(size, i) = SumTo(size, i - 1) + size[i]
  BY <1>1, SumToNext
<1>5. i' - 1 = i
  BY <1>1, <1>3
<1>6. inpos' <= SumTo(size, i' - 1)
  <2>1. inpos <= SumTo(size, i - 1)
    BY <1>3 DEF Untouched
  <2>2. SumTo(size, i - 1) \in Nat /\ inpos \in Nat
    <3>1. i - 1 \in Nat /\ \A k \in 1 .. i - 1 : size[k] \in Nat
      BY <1>1
    <3> QED
      BY <1>1, <3>1, SumToNext DEF TypeOK
  <2> QED
    BY <1>1, <1>3, <1>4, <1>5, <2>1, <2>2
<1> QED
  BY <1>3, <1>6 DEF Untouched

(* The ways out before the tests need a file that is not what it was.        *)
LEMMA UnchangedMeasure ==
  ASSUME Inv, changes = 0, Untouched, Measure
  PROVE  Untouched'
<1>1. /\ i \in 1 .. Files /\ size[i] \in Nat
      /\ \A k \in 1 .. i : size[k] \in Nat
      /\ \A k \in 1 .. Files : size[k] \in Nat /\ Files \in Nat
  <2>1. i \in 1 .. Files /\ TypeOK
    BY FilesAssumption DEF Inv, TypeOK, InHand, Measure
  <2> QED
    BY <2>1, SizesNat
<1>2. SumTo(size, i) = SumTo(size, i - 1) + size[i]
  BY <1>1, SumToNext
<1>3. SumTo(size, i) <= SumTo(size, Files)
  BY <1>1, SumToMonotone
<1>4. inpos <= SumTo(size, i - 1) /\ totalsize = SumTo(size, Files) /\ inpos \in Nat
  BY DEF Untouched, Measure, Inv, TypeOK
<1>5. SumTo(size, Files) \in Nat /\ SumTo(size, i) \in Nat /\ SumTo(size, i - 1) \in Nat
  <2>1. i - 1 \in Nat /\ \A k \in 1 .. i - 1 : size[k] \in Nat
    BY <1>1
  <2> QED
    BY <1>1, <2>1, SumToNext
<1>6. ~(inpos + size[i] > totalsize)
  BY <1>1, <1>2, <1>3, <1>4, <1>5
<1>7. pc' = "read" /\ insize' = size[i] /\ UNCHANGED <<i, totalsize, inpos, size, kind>>
  BY <1>6 DEF Measure, fileVars
<1> QED
  BY <1>4, <1>7 DEF Untouched, Measure

LEMMA UnchangedStep ==
  ASSUME Inv, Pieces, changes = 0, Untouched, [Next]_allVars
  PROVE  Unchanged'
<1>1. /\ i \in 1 .. Files + 1 /\ TypeOK /\ Files \in Nat /\ totalsize \in Nat
      /\ \A k \in 1 .. Files : size[k] \in Nat
  BY FilesAssumption, SizesNat DEF Inv, TypeOK
<1>2. ASSUME NEW j \in 1 .. Files
      PROVE  SumTo(size, j) = SumTo(size, j - 1) + size[j] /\ SumTo(size, j - 1) \in Nat
  <2>1. j \in Nat /\ j > 0 /\ j - 1 \in Nat
    BY <1>1
  <2>2. \A k \in 1 .. j : size[k] \in Nat
    BY <1>1
  <2>3. \A k \in 1 .. j - 1 : size[k] \in Nat
    BY <1>1
  <2> QED
    BY <2>1, <2>2, <2>3, SumToNext
<1>3. CASE AddSize
  <2>1. i \in 1 .. Files /\ i + 1 - 1 = i
    BY <1>1, <1>3 DEF AddSize
  <2>2. StatSize(i) = size[i]
    BY <2>1 DEF StatSize, Untouched, File
  <2>3. totalsize' = SumTo(size, i)
    BY <1>2, <1>3, <2>1, <2>2 DEF AddSize, Untouched
  <2>4. totalsize' = SumTo(size, i' - 1) /\ pc' = "total" /\ UNCHANGED <<size, kind>>
    BY <1>3, <2>1, <2>3 DEF AddSize, fileVars
  <2>5. totalsize' > 0 => \E g \in File : kind'[g] = "regular"
    <3>1. CASE totalsize > 0
      BY <2>4, <3>1 DEF Untouched
    <3>2. CASE StatSize(i) # 0
      <4>1. kind[i] = "regular" /\ i \in File
        BY <2>1, <3>2 DEF StatSize, File
      <4> QED
        BY <2>4, <4>1
    <3>3. totalsize' = totalsize + StatSize(i)
      BY <1>3 DEF AddSize
    <3> QED
      BY <1>1, <3>1, <3>2, <3>3
  <2>6. Untouched'
    BY <2>4, <2>5 DEF Untouched
  <2> QED
    BY <2>6 DEF Unchanged
<1>4. CASE Allocate
  <2>1. i = Files + 1 /\ i - 1 = Files
    BY <1>1, <1>4 DEF Allocate
  <2>2. totalsize = SumTo(size, Files) /\ inpos = 0
    BY <1>4, <2>1 DEF Allocate, Untouched, Inv, Sized
  <2>3. SumTo(size, 0) = 0
    BY <1>1, SumToNext
  <2>4. /\ pc' = "next" /\ i' - 1 = 0 /\ totalsize > 0
        /\ UNCHANGED <<totalsize, inpos, size, kind>>
    BY <1>4 DEF Allocate, fileVars
  <2>5. Untouched'
    BY <2>2, <2>3, <2>4 DEF Untouched
  <2> QED
    BY <2>5 DEF Unchanged
<1>5. CASE SkipDirectory \/ SkipUnreadable
  <2>1. /\ i \in 1 .. Files /\ i + 1 - 1 = i /\ pc = "next"
        /\ i' = i + 1 /\ UNCHANGED <<pc, totalsize, inpos, size, kind>>
    BY <1>1, <1>5 DEF SkipDirectory, SkipUnreadable, fileVars
  <2>2. inpos <= SumTo(size, i - 1) /\ inpos \in Nat
    BY <1>1, <2>1 DEF Untouched, TypeOK
  <2>3. inpos <= SumTo(size, i)
    BY <1>1, <1>2, <2>1, <2>2
  <2>4. inpos' <= SumTo(size, i' - 1)
    <3>1. i' - 1 = i
      BY <2>1
    <3> QED
      BY <2>1, <2>3, <3>1
  <2>5. Untouched'
    BY <2>1, <2>4 DEF Untouched
  <2> QED
    BY <2>5 DEF Unchanged
<1>6. CASE NoFiles
  <2>1. /\ totalsize > 0 /\ opened' = 0 /\ pc' = "clean"
        /\ UNCHANGED <<totalsize, size, kind>>
    BY <1>6 DEF NoFiles, Untouched, Inv, InHand, fileVars
  <2>2. Untouched'
    BY <2>1 DEF Untouched
  <2> QED
    BY <2>2 DEF Unchanged
<1>7. CASE NothingFound \/ AllocationFails \/ RunTests \/ Clean
  <2>1. /\ pc' \notin {"total", "next", "measure", "read", "clean"}
        /\ UNCHANGED <<size, kind>>
        /\ totalsize' = totalsize \/ (totalsize' = inpos /\ inpos <= totalsize)
    BY <1>7 DEF NothingFound, AllocationFails, RunTests, Clean, fileVars, Inv, Sized
  <2>2. totalsize' > 0 => totalsize > 0
    BY <2>1 DEF Inv, TypeOK
  <2>3. Untouched'
    BY <2>1, <2>2 DEF Untouched
  <2> QED
    BY <2>3 DEF Unchanged
<1>8. CASE OpenFile \/ UNCHANGED allVars
  <2>1. Untouched'
    BY <1>8 DEF OpenFile, Untouched, allVars, joinVars, fileVars
  <2> QED
    BY <2>1 DEF Unchanged
<1>9. CASE Others
  <2>1. changes' = 1
    BY <1>9 DEF Others, Interfere, Resize, Unlink
  <2> QED
    BY <2>1 DEF Unchanged
<1>10. CASE ReadFile
  BY <1>10, UnchangedRead DEF Unchanged
<1>11. CASE Measure
  BY <1>11, UnchangedMeasure DEF Unchanged
<1> QED
  BY <1>3, <1>4, <1>5, <1>6, <1>7, <1>8, <1>9, <1>10, <1>11 DEF Next, JoinStep, Finished

(* Once a file was changed, one always was.                                  *)
LEMMA UnchangedAlways ==
  ASSUME Inv, Pieces, Unchanged, [Next]_allVars
  PROVE  Unchanged'
<1>1. CASE changes = 0
  BY <1>1, UnchangedStep DEF Unchanged
<1>2. CASE changes # 0
  <2>1. changes \in Nat
    BY FilesAssumption DEF Inv, TypeOK, FilesTypeOK
  <2>2. changes' = changes \/ changes' = changes + 1
    BY DEF Next, JoinStep, AddSize, NothingFound, Allocate, AllocationFails,
           SkipDirectory, SkipUnreadable, OpenFile, Measure, ReadFile, NoFiles,
           RunTests, Clean, Others, Interfere, Resize, Unlink, Finished, allVars,
           fileVars
  <2>3. changes' # 0
    BY <1>2, <2>1, <2>2
  <2> QED
    BY <2>3 DEF Unchanged
<1> QED
  BY <1>1, <1>2

LEMMA PiecesAlways ==
  Spec => [](Pieces /\ Ahead /\ Unchanged)
<1>1. Inv /\ Pieces /\ Ahead /\ Unchanged /\ [Next]_allVars
        => (Pieces /\ Ahead /\ Unchanged)'
  BY PiecesStep, UnchangedAlways
<1> QED
  BY <1>1, PiecesInit, InvAlways, PTL DEF Spec

(* lzbench_test cuts the input where the files end: the sizes in file_sizes *)
(* add up to what was read, and each piece is one file's, in the order of   *)
(* the arguments, even if a file shrank between its measuring and reading.  *)
THEOREM PiecesAreFiles == Spec => []CutAtFiles
<1>1. Inv /\ Pieces /\ Ahead => CutAtFiles
  <2> SUFFICES ASSUME Inv, Pieces, Ahead, pc = "tested" PROVE CutAtFiles
    BY DEF CutAtFiles
  <2>1. totalsize = inpos /\ TypeOK
    BY DEF Ahead, Inv
  <2>2. /\ Len(fileSizes) \in Nat
        /\ \A k \in 1 .. Len(fileSizes) : fileSizes[k] \in Nat
    BY <2>1, SizesNat
  <2>3. ASSUME NEW j \in 1 .. Len(fileSizes)
        PROVE  SumTo(fileSizes, j - 1) + fileSizes[j] = SumTo(fileSizes, j)
    <3>1. j \in Nat /\ j > 0 /\ \A k \in 1 .. j : fileSizes[k] \in Nat
      BY <2>2
    <3> QED
      BY <3>1, SumToNext
  <2>4. /\ Sum(fileSizes) = totalsize
        /\ Len(origin) = totalsize
        /\ \A k, m \in 1 .. totalsize : k <= m => origin[k] <= origin[m]
    BY <2>1 DEF Pieces, Sum
  <2>5. \A j \in 1 .. Len(fileSizes) :
          \A k, m \in SumTo(fileSizes, j - 1) + 1
                        .. SumTo(fileSizes, j - 1) + fileSizes[j] :
            origin[k] = origin[m]
    BY <2>3 DEF Pieces
  <2> QED
    BY <2>4, <2>5 DEF CutAtFiles
<1> QED
  BY <1>1, InvAlways, PiecesAlways, PTL

(* Before its tests lzbench_join goes to _clean with a stream open only if  *)
(* a file was changed, and without one only if fopen refused every argument *)
(* that still is a regular file; with the files unchanged, there is one.    *)
THEOREM EarlyOutsExplained == Spec => []EarlyOutExplained
<1>1. Inv /\ Pieces /\ Ahead /\ Unchanged => EarlyOutExplained
  <2> SUFFICES ASSUME Inv, Unchanged, pc = "clean" PROVE EarlyOutExplained
    BY DEF EarlyOutExplained
  <2>1. changes \in Nat
    BY FilesAssumption DEF Inv, TypeOK, FilesTypeOK
  <2>2. CASE opened = 0
    BY <2>2 DEF Inv, AllJoined, Unchanged, Untouched, EarlyOutExplained
  <2>3. CASE opened = 1
    <3>1. changes # 0
      BY <2>3 DEF Unchanged, Untouched
    <3> QED
      BY <2>1, <2>3, <3>1 DEF EarlyOutExplained
  <2> QED
    BY <2>2, <2>3 DEF Inv, InHand
<1> QED
  BY <1>1, InvAlways, PiecesAlways, PTL
===============================================================================
