--------------------------- MODULE ChunkCodecProofs ---------------------------
(***************************************************************************)
(* What holds of ChunkCodec for every chunking, padding, expansion ratio   *)
(* and codec: the types, that compbuf never runs out, that no call leaves  *)
(* its buffers and that decompression reads where compression wrote.       *)
(***************************************************************************)
EXTENDS ChunkCodec, TLAPS

(* Floors add up to at most the floor of the sum: the shares of the sixth   *)
(* that chunks take separately fit the one compbuf got for all of them.     *)
LEMMA DivSplit ==
  ASSUME NEW D \in Nat, D > 0, NEW a \in Nat, NEW b \in Nat
  PROVE  (a \div D) + (b \div D) <= (a + b) \div D
<1> DEFINE qa == a \div D
           qb == b \div D
           q == (a + b) \div D
<1>1. qa \in Nat /\ D * qa <= a
  BY Z3
<1>2. qb \in Nat /\ D * qb <= b
  BY Z3
<1>3. q \in Nat /\ a + b < D * q + D
  BY Z3
<1> HIDE DEF qa, qb, q
<1>4. D * (qa + qb) < D * (q + 1)
  BY <1>1, <1>2, <1>3
<1>5. qa + qb < q + 1
  BY <1>1, <1>2, <1>3, <1>4
<1> QED
  BY <1>1, <1>2, <1>3, <1>5 DEF qa, qb, q

(* A sixth (or any share) of a length is a natural number.                  *)
LEMMA DivNat ==
  ASSUME NEW a \in Nat
  PROVE  a \div ExpandDiv \in Nat
  BY CodecAssumption, Z3

(* The bound of compbuf and a codec's worst case are lengths.               *)
LEMMA BoundFacts ==
  ASSUME NEW n \in Nat
  PROVE  CompressBound(n) \in Nat /\ n <= CompressBound(n)
<1>1. n \div ExpandDiv \in Nat /\ PadSize \in Nat
  BY DivNat, CodecAssumption
<1> QED
  BY <1>1 DEF CompressBound

(* A multiple of the overhead grows with the number of chunks.              *)
LEMMA OverheadGrows ==
  ASSUME NEW m \in Nat, NEW n \in Nat, m <= n
  PROVE  /\ m * Overhead \in Nat
         /\ m * Overhead <= n * Overhead
         /\ (m + 1) * Overhead = m * Overhead + Overhead
<1>1. Overhead \in Nat
  BY CodecAssumption
<1>2. PICK d \in Nat : n = m + d
  <2>1. n - m \in Nat /\ n = m + (n - m)
    OBVIOUS
  <2> QED BY <2>1
<1>3. n * Overhead = m * Overhead + d * Overhead /\ d * Overhead \in Nat
  BY <1>1, <1>2
<1> QED
  BY <1>1, <1>3

(* The chunk list by chunks: parts are positive, they follow each other     *)
(* from 0 and end with the input.                                           *)
LEMMA CutFacts ==
  ASSUME cut \in Chunkings
  PROVE  /\ N \in Nat /\ N >= 1
         /\ InSize \in Nat /\ InSize > 0
         /\ cut[1] = 0 /\ cut[N + 1] = InSize
         /\ \A j \in 1 .. N + 1 : cut[j] \in Nat /\ cut[j] <= InSize
         /\ \A j \in Chunk : /\ Part(j) \in Nat /\ Part(j) > 0
                             /\ cut[j] + Part(j) = cut[j + 1]
                             /\ j + 1 \in 1 .. N + 1
<1>1. IsChunking(cut)
  BY CodecAssumption
<1>2. Len(cut) \in Nat /\ Len(cut) >= 2 /\ cut[1] = 0
  BY <1>1 DEF IsChunking
<1>3. \A j \in 1 .. Len(cut) : cut[j] \in Nat
  BY <1>1 DEF IsChunking
<1>4. \A j \in 1 .. Len(cut) - 1 : cut[j] < cut[j + 1]
  BY <1>1, <1>2 DEF IsChunking
<1>5. \A j \in 1 .. Len(cut) : cut[j] <= cut[Len(cut)]
  BY <1>1, <1>2, <1>3 DEF IsChunking
<1>6. cut[Len(cut)] > 0
  BY <1>1, <1>2, <1>3 DEF IsChunking
<1> QED
  BY <1>2, <1>3, <1>4, <1>5, <1>6 DEF N, InSize, Chunk, Part

-------------------------------------------------------------------------------
(* While it compresses, lzbench_compress has used at most the worst cases   *)
(* of the chunks it has done, and the history at follows it.                *)
Packing ==
  pc = "compress" =>
    /\ inb = cut[i]
    /\ outb + outsize = IF baseline THEN InSize ELSE CompressBound(InSize)
    /\ outb <= inb + inb \div ExpandDiv + (i - 1) * Overhead
    /\ baseline => outb = inb
    /\ i > 1 => outb > 0
    /\ at[i] = outb
    /\ \A j \in 1 .. i - 1 : at[j + 1] = at[j] + comprSizes[j]
    /\ \A j \in 1 .. i : at[j] <= outb

(* A whole image lies chunk after chunk in compbuf.                         *)
Packed ==
  pc \in {"packed", "decompress", "unpacked", "cleared"} /\ complen # 0 =>
    /\ \A j \in Chunk : at[j + 1] = at[j] + comprSizes[j]
    /\ \A j \in 1 .. N + 1 : at[j] <= complen

Unpacking ==
  pc = "decompress" =>
    /\ outb <= cut[i]
    /\ complen # 0 => inb = at[i]

(* compbuf is overrun only by a codec that ignores its room, once there     *)
(* are more chunks than PAD_SIZE pays for.                                  *)
Overrunning == pc = "overrun" => ~Obedient /\ i * Overhead > PadSize

Inv ==
  /\ TypeOK
  /\ at[1] = 0
  /\ Packing
  /\ Packed
  /\ Unpacking
  /\ Overrunning

(* The room of a chunk: as long as PAD_SIZE pays for the overheads so far,  *)
(* what is left of compbuf covers its worst case.                           *)
LEMMA RoomForChunk ==
  ASSUME Inv, pc = "compress", i <= N, i * Overhead <= PadSize, ~baseline
  PROVE  WorstCase(Part(i)) <= outsize /\ Part(i) <= outsize
<1>1. /\ N \in Nat /\ i \in Chunk /\ Part(i) \in Nat /\ InSize \in Nat
      /\ inb \in Nat /\ inb + Part(i) <= InSize /\ inb + Part(i) \in Nat
      /\ i - 1 \in Nat /\ i \in Nat /\ i <= N
  <2>1. cut \in Chunkings /\ i \in 1 .. N + 1 /\ inb = cut[i] /\ inb \in Nat
    BY DEF Inv, TypeOK, Packing
  <2>2. N \in Nat /\ InSize \in Nat
    BY <2>1, CutFacts
  <2>3. i \in Chunk
    BY <2>1, <2>2 DEF Chunk
  <2>4. Part(i) \in Nat /\ cut[i] + Part(i) = cut[i + 1] /\ i + 1 \in 1 .. N + 1
    BY <2>1, <2>3, CutFacts
  <2>5. cut[i + 1] <= InSize /\ cut[i + 1] \in Nat
    BY <2>1, <2>4, CutFacts
  <2> QED
    BY <2>1, <2>2, <2>3, <2>4, <2>5
<1>2. ExpandDiv \in Nat /\ ExpandDiv > 0 /\ Overhead \in Nat /\ PadSize \in Nat
  BY CodecAssumption
<1>3. inb \div ExpandDiv + Part(i) \div ExpandDiv <= (inb + Part(i)) \div ExpandDiv
  BY <1>1, <1>2, DivSplit
<1>4. (inb + Part(i)) \div ExpandDiv <= InSize \div ExpandDiv
  <2> DEFINE rest == InSize - (inb + Part(i))
             done == inb + Part(i)
  <2>1. rest \in Nat /\ done \in Nat /\ done + rest = InSize
    BY <1>1
  <2>2. rest \div ExpandDiv \in Nat /\ done \div ExpandDiv \in Nat
    BY <2>1, DivNat
  <2>3. done \div ExpandDiv + rest \div ExpandDiv <= (done + rest) \div ExpandDiv
    BY <2>1, <1>2, DivSplit
  <2>4. InSize \div ExpandDiv \in Nat
    BY <1>1, DivNat
  <2> QED
    BY <2>1, <2>2, <2>3, <2>4
<1>5. /\ (i - 1) * Overhead + Overhead = i * Overhead
      /\ (i - 1) * Overhead \in Nat
      /\ i * Overhead \in Nat
  <2>1. (i - 1) + 1 = i
    BY <1>1
  <2>2. (i - 1) * Overhead \in Nat /\ ((i - 1) + 1) * Overhead = (i - 1) * Overhead + Overhead
    BY <1>1, OverheadGrows
  <2>3. i * Overhead \in Nat
    BY <1>1, OverheadGrows
  <2> QED
    BY <2>1, <2>2, <2>3
<1>6. i * Overhead <= PadSize
  OBVIOUS
<1>7. /\ outb \in Nat /\ outsize \in Nat
      /\ outb + outsize = InSize + InSize \div ExpandDiv + PadSize
      /\ outb <= inb + inb \div ExpandDiv + (i - 1) * Overhead
  BY DEF Inv, TypeOK, Packing, CompressBound
<1>8. /\ inb \div ExpandDiv \in Nat /\ Part(i) \div ExpandDiv \in Nat
      /\ InSize \div ExpandDiv \in Nat /\ (inb + Part(i)) \div ExpandDiv \in Nat
  BY <1>1, DivNat
<1> QED
  BY <1>1, <1>2, <1>3, <1>4, <1>5, <1>6, <1>7, <1>8 DEF WorstCase

-------------------------------------------------------------------------------
(* The buffers before the first test satisfy the invariant.                 *)
LEMMA InvInit == Init => Inv
<1> SUFFICES ASSUME Init PROVE Inv
  OBVIOUS
<1>1. cut \in Chunkings /\ N \in Nat /\ N >= 1
  BY CutFacts DEF Init
<1>2. TypeOK
  BY <1>1, CodecAssumption DEF Init, TypeOK, Chunk
<1>3. at[1] = 0
  BY <1>1 DEF Init
<1> QED
  BY <1>2, <1>3 DEF Inv, Packing, Packed, Unpacking, Overrunning, Init

(* A codec that scribbles in its room leaves compbuf its size.              *)
LEMMA ScratchDomain ==
  ASSUME NEW buf \in Scratch
  PROVE  DOMAIN buf = DOMAIN comp
  BY DEF Scratch, Write

(* The tail of the compression loop keeps the invariant for any length      *)
(* within the chunk's worst case and the room left.                         *)
LEMMA EmitStep ==
  ASSUME Inv, pc = "compress", i <= N,
         NEW len \in Nat, len > 0, len <= outsize, len <= WorstCase(Part(i)),
         baseline => len = Part(i),
         Emit(len), DOMAIN comp' = DOMAIN comp
  PROVE  Inv'
<1>1. /\ cut' = cut /\ N' = N /\ InSize' = InSize /\ Chunk' = Chunk
      /\ pc' = pc /\ baseline' = baseline
  BY DEF Emit, N, InSize, Chunk
<1>2. /\ cut \in Chunkings /\ i \in Chunk /\ i + 1 \in 1 .. N + 1 /\ N \in Nat
      /\ Part(i) \in Nat /\ cut[i] + Part(i) = cut[i + 1] /\ Part(i) > 0
      /\ cut[i + 1] \in Nat /\ i \in Nat /\ i >= 1
  <2>1. cut \in Chunkings /\ i \in 1 .. N + 1
    BY DEF Inv, TypeOK
  <2>2. N \in Nat
    BY <2>1, CutFacts
  <2>3. i \in Chunk /\ i \in Nat /\ i >= 1
    BY <2>1, <2>2 DEF Chunk
  <2>4. /\ Part(i) \in Nat /\ cut[i] + Part(i) = cut[i + 1] /\ Part(i) > 0
        /\ i + 1 \in 1 .. N + 1
    BY <2>1, <2>3, CutFacts
  <2> QED
    BY <2>1, <2>2, <2>3, <2>4, CutFacts
<1>3. /\ inb' = cut'[i'] /\ inb' \in Nat /\ inb' = inb + Part(i)
      /\ outb' = outb + len /\ outsize' = outsize - len /\ i' = i + 1
  BY <1>1, <1>2 DEF Emit, Inv, TypeOK, Packing
<1>4. /\ comprSizes' = [comprSizes EXCEPT ![i] = len]
      /\ at' = [at EXCEPT ![i + 1] = outb + len]
      /\ comprSizes \in [Chunk -> Nat] /\ at \in [1 .. N + 1 -> Nat]
      /\ outb \in Nat /\ outsize \in Nat
  BY DEF Emit, Inv, TypeOK
<1>5. TypeOK'
  BY <1>1, <1>2, <1>3, <1>4 DEF Emit, Inv, TypeOK, CompressBound
<1>6. at'[1] = 0
  <2>1. 1 # i + 1 /\ 1 \in 1 .. N + 1
    BY <1>2
  <2> QED
    BY <2>1, <1>4 DEF Inv
<1>7. outb' <= inb' + inb' \div ExpandDiv + (i' - 1) * Overhead
  <2>1. ExpandDiv \in Nat /\ ExpandDiv > 0 /\ Overhead \in Nat
    BY CodecAssumption
  <2>2. inb \in Nat /\ i \in Nat /\ i - 1 \in Nat /\ inb + Part(i) \in Nat
    BY <1>2 DEF Inv, TypeOK, Chunk
  <2>3. inb \div ExpandDiv + Part(i) \div ExpandDiv <= (inb + Part(i)) \div ExpandDiv
    BY <2>1, <2>2, <1>2, DivSplit
  <2>4. /\ inb \div ExpandDiv \in Nat /\ Part(i) \div ExpandDiv \in Nat
        /\ (inb + Part(i)) \div ExpandDiv \in Nat
    BY <2>2, <1>2, DivNat
  <2>5. /\ (i - 1) * Overhead \in Nat /\ i * Overhead \in Nat
        /\ (i - 1) * Overhead + Overhead = i * Overhead
    <3>1. (i - 1) + 1 = i
      BY <2>2
    <3>2. /\ (i - 1) * Overhead \in Nat
          /\ ((i - 1) + 1) * Overhead = (i - 1) * Overhead + Overhead
      BY <2>2, OverheadGrows
    <3>3. i * Overhead \in Nat
      BY <2>2, OverheadGrows
    <3> QED
      BY <3>1, <3>2, <3>3
  <2>6. outb <= inb + inb \div ExpandDiv + (i - 1) * Overhead
    BY DEF Inv, Packing
  <2>7. len <= Part(i) + Part(i) \div ExpandDiv + Overhead
    BY DEF WorstCase
  <2>8. outb + len <= (inb + Part(i)) + (inb + Part(i)) \div ExpandDiv + i * Overhead
    <3> DEFINE a == inb \div ExpandDiv
               b == Part(i) \div ExpandDiv
               c == (inb + Part(i)) \div ExpandDiv
               m == (i - 1) * Overhead
               n == i * Overhead
               p == Part(i)
    <3>0. /\ p \in Nat /\ inb \in Nat /\ outb \in Nat /\ len \in Nat
          /\ Overhead \in Nat
      BY <1>2, <1>4, <2>1, <2>2
    <3>1. /\ a \in Nat /\ b \in Nat /\ c \in Nat /\ m \in Nat /\ n \in Nat
          /\ a + b <= c /\ m + Overhead = n
      BY <2>3, <2>4, <2>5
    <3>2. outb <= inb + a + m /\ len <= p + b + Overhead
      BY <2>6, <2>7
    <3> HIDE DEF a, b, c, m, n, p
    <3>3. outb + len <= (inb + p) + c + n
      BY <3>0, <3>1, <3>2
    <3> QED
      BY <3>3 DEF c, n, p
  <2>9. i' - 1 = i
    BY <1>3, <2>2
  <2> QED
    BY <2>8, <2>9, <1>3
<1>8. outb' + outsize' = IF baseline' THEN InSize' ELSE CompressBound(InSize')
  <2>1. outb' + outsize' = outb + outsize
    BY <1>3, <1>4
  <2> QED
    BY <2>1, <1>1 DEF Inv, Packing
<1>9. baseline' => outb' = inb'
  BY <1>1, <1>3 DEF Inv, Packing
<1>10. outb' > 0 /\ at'[i'] = outb'
  BY <1>2, <1>3, <1>4
<1>11. \A j \in 1 .. i' - 1 : at'[j + 1] = at'[j] + comprSizes'[j]
  <2> SUFFICES ASSUME NEW j \in 1 .. i' - 1
               PROVE  at'[j + 1] = at'[j] + comprSizes'[j]
    OBVIOUS
  <2>1. j \in 1 .. i /\ j \in Chunk /\ j + 1 \in 1 .. N + 1
    BY <1>2, <1>3 DEF Chunk
  <2>2. CASE j = i
    BY <2>1, <2>2, <1>2, <1>4 DEF Inv, Packing
  <2>3. CASE j # i
    BY <2>1, <2>3, <1>2, <1>4 DEF Inv, Packing, Chunk
  <2> QED
    BY <2>2, <2>3
<1>12. \A j \in 1 .. i' : at'[j] <= outb'
  <2> SUFFICES ASSUME NEW j \in 1 .. i' PROVE at'[j] <= outb'
    OBVIOUS
  <2>1. CASE j = i + 1
    BY <2>1, <1>2, <1>3, <1>4
  <2>2. CASE j # i + 1
    <3>1. j \in 1 .. i /\ j \in 1 .. N + 1
      BY <2>2, <1>2, <1>3
    <3>2. at'[j] = at[j] /\ at[j] \in Nat
      BY <3>1, <2>2, <1>2, <1>4
    <3> QED
      BY <3>1, <3>2, <1>3, <1>4 DEF Inv, Packing
  <2> QED
    BY <2>1, <2>2
<1>13. Packing'
  BY <1>3, <1>7, <1>8, <1>9, <1>10, <1>11, <1>12 DEF Packing
<1>14. Packed' /\ Unpacking' /\ Overrunning'
  BY <1>1 DEF Packed, Unpacking, Overrunning
<1> QED
  BY <1>5, <1>6, <1>13, <1>14 DEF Inv

(* The tail of the decompression loop keeps the invariant for any length    *)
(* within the chunk: the offset in compbuf moves by the recorded size.      *)
LEMMA ConsumeStep ==
  ASSUME Inv, pc = "decompress", i <= N,
         NEW dlen \in Nat, dlen <= Part(i), Consume(dlen),
         DOMAIN decomp' = DOMAIN decomp,
         UNCHANGED <<cut, baseline, outsize, comprSizes, complen, comp, at, seen>>
  PROVE  Inv'
<1>1. /\ cut' = cut /\ N' = N /\ InSize' = InSize /\ Chunk' = Chunk
      /\ pc' = pc /\ baseline' = baseline /\ complen' = complen
      /\ decomplen' = decomplen /\ at' = at /\ comprSizes' = comprSizes
  BY DEF Consume, N, InSize, Chunk
<1>2. /\ N \in Nat /\ i \in Nat /\ i \in Chunk /\ i + 1 \in 1 .. N + 1
      /\ comprSizes[i] \in Nat
      /\ Part(i) \in Nat /\ cut[i] + Part(i) = cut[i + 1]
      /\ cut[i] \in Nat /\ cut[i + 1] \in Nat
  <2>1. cut \in Chunkings /\ i \in 1 .. N + 1 /\ comprSizes \in [Chunk -> Nat]
    BY DEF Inv, TypeOK
  <2>2. N \in Nat
    BY <2>1, CutFacts
  <2>3. i \in Chunk /\ i \in Nat
    BY <2>1, <2>2 DEF Chunk
  <2>4. /\ Part(i) \in Nat /\ cut[i] + Part(i) = cut[i + 1]
        /\ i + 1 \in 1 .. N + 1
    BY <2>1, <2>3, CutFacts
  <2> QED
    BY <2>1, <2>2, <2>3, <2>4, CutFacts
<1>3. /\ inb' = inb + comprSizes[i] /\ outb' = outb + dlen /\ i' = i + 1
      /\ inb \in Nat /\ outb \in Nat
  BY DEF Consume, Inv, TypeOK
<1>4. TypeOK'
  BY <1>1, <1>2, <1>3 DEF Inv, TypeOK, CompressBound
<1>5. outb' <= cut'[i']
  <2>1. outb <= cut[i]
    BY DEF Inv, Unpacking
  <2> QED
    BY <2>1, <1>1, <1>2, <1>3
<1>6. complen' # 0 => inb' = at'[i']
  BY <1>1, <1>2, <1>3 DEF Inv, Unpacking, Packed
<1>7. Packed' /\ Packing' /\ Overrunning' /\ at'[1] = 0
  BY <1>1 DEF Inv, Packed, Packing, Overrunning
<1> QED
  BY <1>4, <1>5, <1>6, <1>7 DEF Inv, Unpacking

(* Every step keeps the invariant: one step of the proof per action.        *)
LEMMA InvStep == Inv /\ [Next]_codecVars => Inv'
<1> SUFFICES ASSUME Inv, [Next]_codecVars PROVE Inv'
  OBVIOUS
<1> USE DEF Inv
<1>0. /\ cut \in Chunkings /\ N \in Nat /\ N >= 1 /\ InSize \in Nat
      /\ cut[1] = 0 /\ 1 \in 1 .. N + 1
      /\ outsize \in Nat /\ outb \in Nat /\ i \in Nat /\ i \in 1 .. N + 1
  <2>1. cut \in Chunkings /\ i \in 1 .. N + 1
    BY DEF TypeOK
  <2> QED
    BY <2>1, CutFacts DEF TypeOK
<1>1. CASE StartCompress
  <2>1. /\ cut' = cut /\ N' = N /\ InSize' = InSize /\ Chunk' = Chunk
        /\ at' = at /\ pc' = "compress" /\ i' = 1 /\ inb' = 0 /\ outb' = 0
        /\ baseline' = baseline
        /\ outsize' = IF baseline THEN InSize ELSE CompressBound(InSize)
    BY <1>1 DEF StartCompress, N, InSize, Chunk
  <2>2. CompressBound(InSize) \in Nat
    BY <1>0, DivNat, CodecAssumption DEF CompressBound
  <2>3. TypeOK'
    BY <2>1, <2>2, <1>0, <1>1 DEF StartCompress, TypeOK, CompressBound
  <2>4. 0 \div ExpandDiv \in Nat /\ (1 - 1) * Overhead = 0
    BY DivNat, CodecAssumption
  <2>5. Packing'
    BY <2>1, <2>2, <2>4, <1>0 DEF Packing, CompressBound
  <2> QED
    BY <2>1, <2>3, <2>5 DEF Packed, Unpacking, Overrunning
<1>2. CASE KeepChunk
  <2>1. PICK clen \in CodecResults(Part(i), outsize) :
          /\ ~Stored(clen, Part(i))
          /\ clen <= outsize
          /\ \E buf \in Scratch :
               comp' = Write(buf, outb, clen,
                             LAMBDA k : Encoded(inb, Part(i), clen, k))
          /\ Emit(clen)
    BY <1>2 DEF KeepChunk
  <2>2. pc = "compress" /\ i <= N /\ i \in Chunk
    BY <1>0, <1>2 DEF KeepChunk, Chunk
  <2>3. Part(i) \in Nat /\ Part(i) \div ExpandDiv \in Nat
    BY <1>0, <2>2, CutFacts, DivNat
  <2>4. /\ OutPart(Part(i), outsize) \in Int /\ WorstCase(Part(i)) \in Nat
    BY <1>0, <2>3, CodecAssumption DEF OutPart, Smaller, CompressBound, WorstCase
  <2>5. ~baseline /\ clen \in Nat /\ clen > 0 /\ clen <= WorstCase(Part(i))
    BY <2>1, <2>3, <2>4 DEF CodecResults, Stored, Smaller
  <2>6. clen <= outsize
    BY <2>1
  <2>7. DOMAIN comp' = DOMAIN comp
    BY <2>1, ScratchDomain DEF Write
  <2> QED
    BY <2>1, <2>2, <2>5, <2>6, <2>7, EmitStep
<1>3. CASE StoreChunk
  <2>1. pc = "compress" /\ i <= N /\ i \in Chunk /\ Emit(Part(i)) /\ Part(i) <= outsize
    BY <1>0, <1>3 DEF StoreChunk, Chunk
  <2>2. Part(i) \in Nat /\ Part(i) > 0 /\ Part(i) \div ExpandDiv \in Nat
    BY <1>0, <2>1, CutFacts, DivNat
  <2>3. Part(i) <= WorstCase(Part(i))
    BY <2>2, CodecAssumption DEF WorstCase
  <2>4. DOMAIN comp' = DOMAIN comp
    BY <1>3, ScratchDomain DEF StoreChunk, Write
  <2> QED
    BY <2>1, <2>2, <2>3, <2>4, EmitStep
<1>4. CASE GiveUp
  <2>1. /\ cut' = cut /\ N' = N /\ InSize' = InSize /\ Chunk' = Chunk
        /\ pc' = "packed" /\ complen' = 0
    BY <1>4 DEF GiveUp, N, InSize, Chunk
  <2>2. DOMAIN comp' = DOMAIN comp
    BY <1>4, ScratchDomain DEF GiveUp
  <2>3. TypeOK'
    BY <2>1, <2>2, <1>4 DEF GiveUp, TypeOK, CompressBound
  <2> QED
    BY <2>1, <2>3, <1>4 DEF GiveUp, Packing, Packed, Unpacking, Overrunning
<1>5. CASE EndCompress
  <2>1. /\ cut' = cut /\ N' = N /\ InSize' = InSize /\ Chunk' = Chunk
        /\ pc' = "packed" /\ complen' = outb /\ at' = at
        /\ comprSizes' = comprSizes /\ pc = "compress" /\ i = N + 1
    BY <1>0, <1>5 DEF EndCompress, N, InSize, Chunk
  <2>2. TypeOK'
    BY <2>1, <1>5 DEF EndCompress, TypeOK, CompressBound
  <2>3. Packed'
    BY <2>1, <1>0 DEF Packed, Packing, Chunk
  <2> QED
    BY <2>1, <2>2, <2>3 DEF Packing, Unpacking, Overrunning
<1>6. CASE StartDecompress
  <2>1. /\ cut' = cut /\ N' = N /\ InSize' = InSize /\ Chunk' = Chunk
        /\ pc' = "decompress" /\ complen' = complen /\ at' = at
        /\ comprSizes' = comprSizes /\ i' = 1 /\ inb' = 0 /\ outb' = 0
        /\ pc \in {"packed", "unpacked", "cleared"}
    BY <1>6 DEF StartDecompress, N, InSize, Chunk
  <2>2. TypeOK'
    BY <2>1, <1>0, <1>6 DEF StartDecompress, TypeOK, CompressBound, Restored
  <2> QED
    BY <2>1, <2>2, <1>0 DEF Packing, Packed, Unpacking, Overrunning
<1>7. CASE CopyChunk
  <2>1. /\ pc = "decompress" /\ i <= N /\ i \in Chunk /\ Consume(Part(i))
        /\ UNCHANGED <<cut, baseline, outsize, comprSizes, complen, comp, at, seen>>
    BY <1>0, <1>7 DEF CopyChunk, Chunk
  <2>2. Part(i) \in Nat
    BY <1>0, <2>1, CutFacts
  <2>3. DOMAIN decomp' = DOMAIN decomp
    BY <1>7 DEF CopyChunk, Write
  <2> QED
    BY <2>1, <2>2, <2>3, ConsumeStep
<1>8. CASE DecodeChunk
  <2>1. /\ pc = "decompress" /\ i <= N /\ i \in Chunk
        /\ UNCHANGED <<cut, baseline, outsize, comprSizes, complen, comp, at, seen>>
    BY <1>0, <1>8 DEF DecodeChunk, Chunk
  <2>2. Part(i) \in Nat
    BY <1>0, <2>1, CutFacts
  <2>3. CASE \E j \in Chunk :
               /\ Part(j) <= Part(i)
               /\ decomp' = Write(decomp, outb, Part(j),
                                  LAMBDA k : InByte(cut[j] + k))
               /\ Consume(Part(j))
    <3>1. PICK j \in Chunk :
               /\ Part(j) <= Part(i)
               /\ decomp' = Write(decomp, outb, Part(j),
                                  LAMBDA k : InByte(cut[j] + k))
               /\ Consume(Part(j))
      BY <2>3
    <3>2. Part(j) \in Nat /\ DOMAIN decomp' = DOMAIN decomp
      BY <1>0, <3>1, CutFacts DEF Write
    <3> QED
      BY <3>1, <3>2, <2>1, ConsumeStep
  <2>4. CASE \E dlen \in 1 .. Part(i) : DecodeWrong(dlen) /\ Consume(dlen)
    <3>1. PICK dlen \in 1 .. Part(i) : DecodeWrong(dlen) /\ Consume(dlen)
      BY <2>4
    <3>2. dlen \in Nat /\ dlen <= Part(i)
      BY <3>1, <2>2
    <3>3. DOMAIN decomp' = DOMAIN decomp
      BY <3>1 DEF DecodeWrong, Write
    <3> QED
      BY <3>1, <3>2, <3>3, <2>1, ConsumeStep
  <2>5. CASE /\ DecodeWrong(0) /\ decomplen' = 0 /\ pc' = "unpacked"
             /\ UNCHANGED <<i, inb, outb>>
    <3>1. cut' = cut /\ N' = N /\ InSize' = InSize /\ Chunk' = Chunk
      BY <2>1 DEF N, InSize, Chunk
    <3>2. DOMAIN decomp' = DOMAIN decomp
      BY <2>5 DEF DecodeWrong, Write
    <3>3. TypeOK'
      BY <2>1, <2>5, <3>1, <3>2 DEF TypeOK, CompressBound
    <3> QED
      BY <2>1, <2>5, <3>1, <3>3 DEF Packing, Packed, Unpacking, Overrunning
  <2> QED
    BY <1>8, <2>3, <2>4, <2>5 DEF DecodeChunk
<1>9. CASE EndDecompress
  <2>1. /\ cut' = cut /\ N' = N /\ InSize' = InSize /\ Chunk' = Chunk
        /\ pc = "decompress" /\ pc' = "unpacked"
    BY <1>9 DEF EndDecompress, N, InSize, Chunk
  <2>2. TypeOK'
    BY <2>1, <1>9 DEF EndDecompress, TypeOK, CompressBound
  <2> QED
    BY <2>1, <2>2, <1>9 DEF EndDecompress, Packing, Packed, Unpacking, Overrunning
<1>10. CASE ClearOutput
  <2>1. /\ cut' = cut /\ N' = N /\ InSize' = InSize /\ Chunk' = Chunk
        /\ pc = "unpacked" /\ pc' = "cleared" /\ DOMAIN decomp' = DOMAIN decomp
    BY <1>10 DEF ClearOutput, N, InSize, Chunk
  <2>2. TypeOK'
    BY <2>1, <1>10 DEF ClearOutput, TypeOK, CompressBound
  <2> QED
    BY <2>1, <2>2, <1>10 DEF ClearOutput, Packing, Packed, Unpacking, Overrunning
<1>11. CASE NextTest
  <2>1. PICK c \in Chunkings :
          /\ c[Len(c)] = InSize
          /\ cut' = c
          /\ comprSizes' = [j \in 1 .. Len(c) - 1 |-> 0]
          /\ at' = [j \in 1 .. Len(c) |-> 0]
    BY <1>11 DEF NextTest
  <2>2. Len(c) \in Nat /\ Len(c) >= 2
    BY CodecAssumption DEF IsChunking
  <2>3. /\ N' = Len(c) - 1 /\ Chunk' = 1 .. Len(c) - 1 /\ N' + 1 = Len(c)
        /\ InSize' = InSize
    BY <2>1, <2>2 DEF N, InSize, Chunk
  <2>4. TypeOK'
    <3>1. /\ comprSizes' \in [Chunk' -> Nat] /\ at' \in [1 .. N' + 1 -> Nat]
          /\ i' \in 1 .. N' + 1
      BY <2>1, <2>2, <2>3, <1>11 DEF NextTest
    <3>2. /\ DOMAIN comp' = 0 .. CompressBound(InSize') - 1
          /\ DOMAIN decomp' = 0 .. InSize' - 1
      BY <2>3, <1>11 DEF NextTest, TypeOK
    <3>3. CompressBound(InSize)' = CompressBound(InSize')
      BY DEF CompressBound
    <3> QED
      BY <3>1, <3>2, <3>3, <2>1, <2>3, <1>11 DEF NextTest, TypeOK
  <2>5. at'[1] = 0
    BY <2>1, <2>2
  <2> QED
    BY <2>4, <2>5, <1>11 DEF NextTest, Packing, Packed, Unpacking, Overrunning
<1>12. CASE UNCHANGED codecVars
  BY <1>12 DEF codecVars, TypeOK, Packing, Packed, Unpacking, Overrunning, N, InSize, Chunk,
               CompressBound
<1>13. CASE Overrun
  <2>1. PICK clen \in CodecResults(Part(i), outsize) : clen > outsize
    BY <1>13 DEF Overrun
  <2>2. /\ pc = "compress" /\ i <= N /\ i \in Chunk /\ pc' = "overrun"
        /\ i' = i /\ cut' = cut /\ N' = N /\ InSize' = InSize /\ Chunk' = Chunk
    BY <1>0, <1>13 DEF Overrun, N, InSize, Chunk
  <2>3. TypeOK'
    BY <2>2, <1>13 DEF Overrun, TypeOK, CompressBound
  <2>4. Part(i) \in Nat /\ Part(i) \div ExpandDiv \in Nat
    BY <1>0, <2>2, CutFacts, DivNat
  <2>5. /\ OutPart(Part(i), outsize) \in Int /\ WorstCase(Part(i)) \in Nat
        /\ OutPart(Part(i), outsize) <= outsize
    BY <1>0, <2>4, CodecAssumption DEF OutPart, Smaller, CompressBound, WorstCase
  <2>6. ~baseline /\ ~Obedient /\ clen \in Int /\ clen <= WorstCase(Part(i))
    BY <2>1, <2>4, <2>5, <1>0 DEF CodecResults, Smaller
  <2>7. i * Overhead > PadSize
    <3>1. i * Overhead \in Nat /\ PadSize \in Nat
      BY <1>0, OverheadGrows, CodecAssumption
    <3>2. ASSUME i * Overhead <= PadSize PROVE FALSE
      <4>1. WorstCase(Part(i)) <= outsize
        BY <3>2, <2>2, <2>6, RoomForChunk
      <4> QED
        BY <4>1, <2>1, <2>5, <2>6, <1>0
    <3> QED
      BY <3>1, <3>2
  <2> QED
    BY <2>2, <2>3, <2>6, <2>7, <1>13
       DEF Overrun, Packing, Packed, Unpacking, Overrunning
<1> QED
  BY <1>1, <1>2, <1>3, <1>4, <1>5, <1>6, <1>7, <1>8, <1>9, <1>10, <1>11, <1>12,
     <1>13 DEF Next, Undefined

(* Compression gives up only if the overheads of the chunks exceed PAD_SIZE.*)
LEMMA GiveUpNotPaid ==
  ASSUME Inv, GiveUp
  PROVE  ~(N * Overhead <= PadSize) /\ ~Roomy
<1> SUFFICES ASSUME N * Overhead <= PadSize PROVE FALSE
  <2>1. cut \in Chunkings
    BY DEF Inv, TypeOK
  <2> QED
    BY <2>1 DEF Roomy, N
<1>0. /\ cut \in Chunkings /\ N \in Nat /\ outb \in Nat /\ outsize \in Nat
      /\ i \in 1 .. N + 1
  <2>1. cut \in Chunkings /\ i \in 1 .. N + 1
    BY DEF Inv, TypeOK
  <2> QED
    BY <2>1, CutFacts DEF Inv, TypeOK
<1>1. pc = "compress" /\ i <= N /\ i \in Chunk /\ Part(i) > outsize
  BY <1>0 DEF GiveUp, Chunk
<1>2. Part(i) \in Nat /\ cut[i] + Part(i) = cut[i + 1] /\ i + 1 \in 1 .. N + 1
  BY <1>0, <1>1, CutFacts
<1>3. CASE ~baseline
  <2>1. i * Overhead <= PadSize
    <3>1. /\ i \in Nat /\ i * Overhead <= N * Overhead
          /\ i * Overhead \in Nat /\ N * Overhead \in Nat
      BY <1>0, <1>1, OverheadGrows
    <3>2. PadSize \in Nat
      BY CodecAssumption
    <3> QED
      BY <3>1, <3>2
  <2>2. Part(i) <= outsize
    BY <2>1, <1>1, <1>3, RoomForChunk
  <2> QED
    BY <2>2, <1>0, <1>1, <1>2
<1>4. CASE baseline
  <2>1. /\ cut[i + 1] \in Nat /\ cut[i + 1] <= InSize /\ InSize \in Nat
        /\ cut[i] \in Nat
    BY <1>0, <1>2, CutFacts
  <2>2. outb = cut[i] /\ outb + outsize = InSize
    BY <1>1, <1>4 DEF Inv, Packing
  <2> QED
    BY <2>1, <2>2, <1>0, <1>1, <1>2
<1> QED
  BY <1>3, <1>4

(* The invariant holds of every behaviour.                                  *)
LEMMA Invariance == Spec => []Inv
  BY InvInit, InvStep, PTL DEF Spec

-------------------------------------------------------------------------------
(* Every variable keeps its type; in particular outsize, a size_t in the    *)
(* code, never falls below zero, whatever chunks the codec fails on or      *)
(* expands: the model's runs end where a codec leaves compbuf, so that      *)
(* this is a fact of the stored chunks.                                     *)
THEOREM TypeCorrect == Spec => []TypeOK
<1>1. Inv => TypeOK
  BY DEF Inv
<1> QED
  BY <1>1, Invariance, PTL

(* Every chunk finds its worst case in compbuf while PAD_SIZE pays for the  *)
(* overheads so far; compbuf is left only by a codec that ignores its room, *)
(* and only past that many chunks; and decoders, whatever they claim, have  *)
(* not written past the chunks before.                                      *)
THEOREM BuffersSafe == Spec => []WithinBuffers
<1>1. Inv => WithinBuffers
  <2> SUFFICES ASSUME Inv PROVE WithinBuffers
    OBVIOUS
  <2>1. ASSUME pc = "compress", i <= N, ~baseline, i * Overhead <= PadSize
        PROVE  WorstCase(Part(i)) <= outsize
    BY <2>1, RoomForChunk
  <2> QED
    BY <2>1 DEF Inv, Packing, Unpacking, Overrunning, WithinBuffers
<1> QED
  BY <1>1, Invariance, PTL

(* The decompression of a whole image reads every chunk where it was        *)
(* written, and nothing past the image.                                     *)
THEOREM ReadsWhereWritten == Spec => []ReadsAligned
<1>1. Inv => ReadsAligned
  <2> SUFFICES ASSUME Inv, pc = "decompress", complen # 0
               PROVE  /\ inb = at[i]
                      /\ i <= N => inb + comprSizes[i] <= complen
    BY DEF ReadsAligned
  <2>1. inb = at[i]
    BY DEF Inv, Unpacking
  <2>2. ASSUME i <= N PROVE inb + comprSizes[i] <= complen
    <3>1. cut \in Chunkings /\ i \in 1 .. N + 1
      BY DEF Inv, TypeOK
    <3>2. N \in Nat
      BY <3>1, CutFacts
    <3>3. i \in Chunk /\ i + 1 \in 1 .. N + 1
      BY <2>2, <3>1, <3>2 DEF Chunk
    <3>4. at[i + 1] = at[i] + comprSizes[i] /\ at[i + 1] <= complen
      BY <3>3 DEF Inv, Packed
    <3> QED
      BY <2>1, <3>4
  <2> QED
    BY <2>1, <2>2
<1> QED
  BY <1>1, Invariance, PTL

(* As long as PAD_SIZE pays for the constant overhead of every chunk,       *)
(* lzbench_compress never runs out of compbuf, however many chunks of       *)
(* whatever sizes the input is cut into.                                    *)
THEOREM NoExhaustion == Spec => []OnlyOverheadsExhaust
<1>1. Init => OnlyOverheadsExhaust
  BY DEF Init, OnlyOverheadsExhaust, NeverExhausted
<1>2. Inv /\ OnlyOverheadsExhaust /\ [Next]_codecVars => OnlyOverheadsExhaust'
  <2> SUFFICES ASSUME Inv, OnlyOverheadsExhaust, [Next]_codecVars,
                      pc' = "packed", N' * Overhead <= PadSize
               PROVE  complen' # 0
    BY DEF OnlyOverheadsExhaust, NeverExhausted
  <2>0. /\ cut \in Chunkings /\ N \in Nat /\ N >= 1 /\ i \in 1 .. N + 1
        /\ i \in Nat /\ outb \in Nat /\ outsize \in Nat
    <3>1. cut \in Chunkings /\ i \in 1 .. N + 1
      BY DEF Inv, TypeOK
    <3> QED
      BY <3>1, CutFacts DEF Inv, TypeOK
  <2>1. CASE GiveUp
    <3>1. N' = N
      BY <2>1 DEF GiveUp, N
    <3> QED
      BY <2>1, <3>1, GiveUpNotPaid
  <2>2. CASE EndCompress
    BY <2>0, <2>2 DEF EndCompress, Inv, Packing
  <2>3. CASE \/ StartCompress \/ KeepChunk \/ StoreChunk \/ StartDecompress
             \/ CopyChunk \/ DecodeChunk \/ EndDecompress \/ ClearOutput
             \/ NextTest \/ Overrun
    BY <2>3 DEF StartCompress, KeepChunk, StoreChunk, StartDecompress, CopyChunk,
                DecodeChunk, EndDecompress, ClearOutput, NextTest, Overrun,
                Emit, Consume
  <2>4. CASE UNCHANGED codecVars
    BY <2>4 DEF codecVars, N, OnlyOverheadsExhaust, NeverExhausted
  <2> QED
    BY <2>1, <2>2, <2>3, <2>4 DEF Next, Undefined
<1> QED
  BY <1>1, <1>2, Invariance, PTL DEF Spec

-------------------------------------------------------------------------------
(* compbuf holds chunk j where at says: stored, if the recorded size is the *)
(* chunk's, and else as the stream the codec made of this very chunk.       *)
HoldsChunk(j) ==
  IF comprSizes[j] = Part(j)
    THEN \A k \in 0 .. Part(j) - 1 : comp[at[j] + k] = InByte(cut[j] + k)
    ELSE comprSizes[j] > 0 /\ IsStream(at[j], comprSizes[j], cut[j], Part(j))

Holding ==
  /\ pc = "compress" => \A j \in 1 .. i - 1 : HoldsChunk(j)
  /\ pc \in {"packed", "decompress", "unpacked", "cleared"} /\ complen # 0 =>
       (\A j \in Chunk : HoldsChunk(j)) /\ complen <= CompressBound(InSize)

Restoring ==
  Lossless /\ pc = "decompress" /\ complen # 0 =>
    outb = cut[i] /\ \A x \in 0 .. cut[i] - 1 : decomp[x] = InByte(x)

Content == Holding /\ Restoring /\ RoundTrip

(* A chunk put at outb is held there, and those before it still are.        *)
LEMMA EmitHolds ==
  ASSUME Inv, Content, pc = "compress", i <= N,
         NEW len \in Nat, len > 0, len <= outsize,
         Emit(len), DOMAIN comp' = DOMAIN comp,
         \A x \in DOMAIN comp : x < outb => comp'[x] = comp[x],
         IF len = Part(i)
           THEN \A k \in 0 .. len - 1 : comp'[outb + k] = InByte(inb + k)
           ELSE \A k \in 0 .. len - 1 :
                  comp'[outb + k] = Encoded(inb, Part(i), len, k)
  PROVE  Content'
<1>1. /\ cut' = cut /\ N' = N /\ InSize' = InSize /\ Chunk' = Chunk
      /\ pc' = pc /\ i' = i + 1 /\ \A j : Part(j)' = Part(j)
  BY DEF Emit, N, InSize, Chunk, Part
<1>2. /\ cut \in Chunkings /\ N \in Nat /\ i \in Nat /\ i >= 1 /\ i \in Chunk
      /\ i + 1 \in 1 .. N + 1
      /\ comprSizes \in [Chunk -> Nat] /\ at \in [1 .. N + 1 -> Nat]
      /\ outb \in Nat /\ outsize \in Nat /\ inb = cut[i] /\ at[i] = outb
      /\ InSize \in Nat
      /\ \A j \in 1 .. i - 1 : at[j + 1] = at[j] + comprSizes[j]
      /\ \A j \in 1 .. i : at[j] <= outb
      /\ outb + outsize \in {InSize, CompressBound(InSize)}
  <2>1. cut \in Chunkings /\ i \in 1 .. N + 1
    BY DEF Inv, TypeOK
  <2>2. N \in Nat /\ InSize \in Nat
    BY <2>1, CutFacts
  <2>3. i \in Nat /\ i >= 1 /\ i \in Chunk /\ i + 1 \in 1 .. N + 1
    BY <2>1, <2>2 DEF Chunk
  <2>4. /\ comprSizes \in [Chunk -> Nat] /\ at \in [1 .. N + 1 -> Nat]
        /\ outb \in Nat /\ outsize \in Nat
    BY DEF Inv, TypeOK
  <2>5. /\ inb = cut[i] /\ at[i] = outb
        /\ \A j \in 1 .. i - 1 : at[j + 1] = at[j] + comprSizes[j]
        /\ \A j \in 1 .. i : at[j] <= outb
        /\ outb + outsize \in {InSize, CompressBound(InSize)}
    BY Zenon DEF Inv, Packing
  <2> QED
    BY <2>1, <2>2, <2>3, <2>4, <2>5
<1>3. /\ comprSizes' = [comprSizes EXCEPT ![i] = len]
      /\ at' = [at EXCEPT ![i + 1] = outb + len]
  BY DEF Emit
<1>4. \A j \in 1 .. i' - 1 : HoldsChunk(j)'
  <2> SUFFICES ASSUME NEW j \in 1 .. i' - 1 PROVE HoldsChunk(j)'
    OBVIOUS
  <2>0. j \in 1 .. i /\ j \in Chunk /\ at'[j] = at[j]
    BY <1>1, <1>2, <1>3 DEF Chunk
  <2>1. CASE j = i
    <3>1. comprSizes'[j] = len /\ at'[j] = outb /\ Part(j)' = Part(i) /\ cut'[j] = inb
      BY <1>1, <1>2, <1>3, <2>0, <2>1
    <3> QED
      BY <3>1, <2>1 DEF HoldsChunk, IsStream
  <2>2. CASE j # i
    <3>1. /\ HoldsChunk(j) /\ comprSizes'[j] = comprSizes[j] /\ j \in 1 .. i - 1
          /\ j \in Nat
      <4>1. j \in 1 .. i - 1 /\ j \in Nat
        BY <1>2, <2>0, <2>2
      <4>2. HoldsChunk(j)
        BY <4>1 DEF Content, Holding
      <4>3. comprSizes'[j] = comprSizes[j]
        BY <1>2, <1>3, <2>0, <2>2
      <4> QED
        BY <4>1, <4>2, <4>3
    <3>2. /\ at[j] + comprSizes[j] <= outb
          /\ at[j] \in Nat /\ comprSizes[j] \in Nat /\ outb \in Nat
      <4>1. at[j + 1] = at[j] + comprSizes[j] /\ at[j + 1] <= outb
        <5>1. j + 1 \in 1 .. i
          BY <3>1, <1>2
        <5> QED
          BY <3>1, <5>1, <1>2
      <4>2. at[j] \in Nat /\ comprSizes[j] \in Nat
        BY <1>2, <2>0, <3>1 DEF Chunk
      <4> QED
        BY <4>1, <4>2, <1>2
    <3>3. \A k \in 0 .. comprSizes[j] - 1 : comp'[at[j] + k] = comp[at[j] + k]
      <4> SUFFICES ASSUME NEW k \in 0 .. comprSizes[j] - 1
                   PROVE  comp'[at[j] + k] = comp[at[j] + k]
        OBVIOUS
      <4>1. at[j] + k \in Nat /\ at[j] + k < outb
        <5>1. k \in Int /\ 0 <= k /\ k < comprSizes[j]
          BY <3>2
        <5>2. at[j] + k < at[j] + comprSizes[j]
          BY <5>1, <3>2
        <5> QED
          BY <5>1, <5>2, <3>2
      <4>2. outb <= CompressBound(InSize)
        <5> DEFINE bound == CompressBound(InSize)
        <5>1. InSize <= bound /\ bound \in Nat
          BY <1>2, BoundFacts
        <5>2. outb + outsize = InSize \/ outb + outsize = bound
          BY <1>2
        <5> HIDE DEF bound
        <5>3. outb + outsize <= bound
          BY <5>1, <5>2
        <5>4. outb <= outb + outsize
          BY <1>2
        <5>5. outb <= bound
          BY <5>1, <5>3, <5>4, <1>2
        <5> QED
          BY <5>5 DEF bound
      <4>3. CompressBound(InSize) \in Nat
        BY <1>2, BoundFacts
      <4>4. at[j] + k \in DOMAIN comp
        BY <4>1, <4>2, <4>3, <1>2 DEF Inv, TypeOK
      <4> QED
        BY <4>1, <4>4
    <3>4. Part(j)' = Part(j) /\ cut'[j] = cut[j]
      BY <1>1
    <3>5. CASE comprSizes[j] = Part(j)
      BY <3>1, <3>3, <3>4, <3>5, <2>0 DEF HoldsChunk
    <3>6. CASE comprSizes[j] # Part(j)
      BY <3>1, <3>3, <3>4, <3>6, <2>0 DEF HoldsChunk, IsStream
    <3> QED
      BY <3>5, <3>6
  <2> QED
    BY <2>1, <2>2
<1> QED
  BY <1>1, <1>4 DEF Content, Holding, Restoring, RoundTrip

(* An image that nobody touches still holds its chunks.                     *)
LEMMA HoldsStable ==
  ASSUME UNCHANGED <<cut, comp, at, comprSizes>>
  PROVE  /\ \A j : HoldsChunk(j)' = HoldsChunk(j)
         /\ N' = N /\ Chunk' = Chunk /\ InSize' = InSize
  BY DEF HoldsChunk, IsStream, Part, N, Chunk, InSize

(* Facts of the running decompression of a whole image: the current chunk   *)
(* lies in compbuf and its place in decomp.                                 *)
LEMMA DecodeFacts ==
  ASSUME Inv, Content, pc = "decompress", i <= N
  PROVE  /\ cut \in Chunkings /\ N \in Nat /\ i \in Nat /\ i \in Chunk
         /\ Part(i) \in Nat /\ Part(i) > 0 /\ cut[i] + Part(i) = cut[i + 1]
         /\ cut[i] \in Nat /\ cut[i + 1] \in Nat /\ cut[i + 1] <= InSize
         /\ InSize \in Nat /\ inb \in Nat /\ outb \in Nat /\ comprSizes[i] \in Nat
         /\ DOMAIN decomp = 0 .. InSize - 1
         /\ DOMAIN comp = 0 .. CompressBound(InSize) - 1
         /\ CompressBound(InSize) \in Nat
         /\ complen # 0 => /\ inb = at[i] /\ HoldsChunk(i)
                           /\ inb + comprSizes[i] <= CompressBound(InSize)
<1>1. cut \in Chunkings /\ i \in 1 .. N + 1
  BY DEF Inv, TypeOK
<1>2. N \in Nat /\ InSize \in Nat
  BY <1>1, CutFacts
<1>3. i \in Nat /\ i \in Chunk /\ i + 1 \in 1 .. N + 1
  BY <1>1, <1>2 DEF Chunk
<1>4. Part(i) \in Nat /\ Part(i) > 0 /\ cut[i] + Part(i) = cut[i + 1]
  BY <1>1, <1>3, CutFacts
<1>5. /\ cut[i] \in Nat /\ cut[i + 1] \in Nat /\ cut[i + 1] <= InSize
  BY <1>1, <1>3, CutFacts
<1>6. /\ inb \in Nat /\ outb \in Nat /\ comprSizes[i] \in Nat
      /\ DOMAIN decomp = 0 .. InSize - 1
      /\ DOMAIN comp = 0 .. CompressBound(InSize) - 1
  BY <1>3 DEF Inv, TypeOK
<1>7. CompressBound(InSize) \in Nat
  BY <1>2, BoundFacts
<1>8. ASSUME complen # 0
      PROVE  /\ inb = at[i] /\ HoldsChunk(i)
             /\ inb + comprSizes[i] <= CompressBound(InSize)
  <2>1. inb = at[i] /\ HoldsChunk(i) /\ complen <= CompressBound(InSize)
    BY <1>8, <1>3 DEF Inv, Unpacking, Content, Holding
  <2>2. at[i + 1] = at[i] + comprSizes[i] /\ at[i + 1] <= complen
    BY <1>8, <1>3 DEF Inv, Packed
  <2>3. complen \in Nat
    BY DEF Inv, TypeOK
  <2> QED
    BY <2>1, <2>2, <2>3, <1>6, <1>7
<1> QED
  BY <1>1, <1>2, <1>3, <1>4, <1>5, <1>6, <1>7, <1>8

(* A chunk restored in its place extends the restored prefix.               *)
LEMMA RestoreStep ==
  ASSUME Inv, Content, pc = "decompress", i <= N, Consume(Part(i)),
         UNCHANGED <<cut, comp, at, comprSizes, complen>>,
         \A x \in DOMAIN decomp : x < outb => decomp'[x] = decomp[x],
         complen # 0 /\ Lossless =>
           \A k \in 0 .. Part(i) - 1 : decomp'[outb + k] = InByte(cut[i] + k)
  PROVE  Content'
<1>1. Holding'
  BY HoldsStable DEF Content, Holding, Consume
<1>2. Restoring'
  <2> SUFFICES ASSUME Lossless, complen # 0
               PROVE  /\ outb' = cut[i']
                      /\ \A x \in 0 .. cut[i'] - 1 : decomp'[x] = InByte(x)
    BY DEF Restoring
  <2>1. i' = i + 1 /\ outb' = outb + Part(i)
    BY DEF Consume
  <2>2. outb = cut[i] /\ \A x \in 0 .. cut[i] - 1 : decomp[x] = InByte(x)
    BY DEF Content, Restoring
  <2>3. outb' = cut[i']
    BY <2>1, <2>2, DecodeFacts
  <2>4. ASSUME NEW x \in 0 .. cut[i'] - 1
        PROVE  decomp'[x] = InByte(x)
    <3>0. /\ cut[i] \in Nat /\ cut[i + 1] \in Nat /\ Part(i) \in Nat
          /\ cut[i] + Part(i) = cut[i + 1] /\ cut[i + 1] <= InSize
          /\ InSize \in Nat /\ DOMAIN decomp = 0 .. InSize - 1
      BY DecodeFacts
    <3>1. x \in 0 .. cut[i + 1] - 1 /\ x \in DOMAIN decomp /\ x \in Nat
      BY <2>1, <3>0
    <3>2. CASE x < cut[i]
      <4>1. x \in 0 .. cut[i] - 1
        BY <3>0, <3>1, <3>2
      <4>2. decomp[x] = InByte(x) /\ x < outb
        BY <4>1, <3>2, <2>2
      <4> QED
        BY <4>2, <3>1
    <3>3. CASE x >= cut[i]
      <4>1. x - cut[i] \in 0 .. Part(i) - 1 /\ outb + (x - cut[i]) = x
            /\ cut[i] + (x - cut[i]) = x
        BY <3>0, <3>1, <3>3, <2>2
      <4>2. decomp'[outb + (x - cut[i])] = InByte(cut[i] + (x - cut[i]))
        BY <4>1
      <4> QED
        BY <4>1, <4>2
    <3> QED
      BY <3>0, <3>1, <3>2, <3>3
  <2> QED
    BY <2>3, <2>4
<1> QED
  BY <1>1, <1>2 DEF Content, RoundTrip, Consume

(* The scratch space of a codec begins where the chunk's stream begins.     *)
LEMMA ScratchAbove ==
  ASSUME NEW buf \in Scratch, NEW x \in DOMAIN comp,
         outb \in Nat, x \in Int, x < outb
  PROVE  buf[x] = comp[x]
  BY DEF Scratch, Write

(* A position inside a chunk is the chunk's start and an offset.            *)
LEMMA OffsetWithin ==
  ASSUME NEW o \in Nat, NEW len \in Nat, NEW n \in Nat, o + len <= n,
         NEW k \in 0 .. len - 1
  PROVE  o + k \in 0 .. n - 1 /\ (o + k) - o = k /\ o + k \in o .. o + len - 1
<1>1. k \in Int /\ 0 <= k /\ k <= len - 1
  OBVIOUS
<1>2. o + k \in Int /\ o <= o + k /\ o + k <= o + len - 1 /\ (o + k) - o = k
  BY <1>1
<1> QED
  BY <1>2

(* Every step keeps what compbuf and decomp are known to hold.              *)
LEMMA ContentStep == Inv /\ Content /\ [Next]_codecVars => Content'
<1> SUFFICES ASSUME Inv, Content, [Next]_codecVars PROVE Content'
  OBVIOUS
<1>0. /\ cut \in Chunkings /\ N \in Nat /\ N >= 1 /\ InSize \in Nat
      /\ cut[1] = 0 /\ cut[N + 1] = InSize /\ i \in Nat /\ i \in 1 .. N + 1
      /\ outb \in Nat /\ outsize \in Nat /\ inb \in Nat
      /\ CompressBound(InSize) \in Nat /\ InSize <= CompressBound(InSize)
      /\ DOMAIN comp = 0 .. CompressBound(InSize) - 1
      /\ DOMAIN decomp = 0 .. InSize - 1
  <2>1. /\ cut \in Chunkings /\ i \in 1 .. N + 1
        /\ outb \in Nat /\ outsize \in Nat /\ inb \in Nat
        /\ DOMAIN comp = 0 .. CompressBound(InSize) - 1
        /\ DOMAIN decomp = 0 .. InSize - 1
    BY DEF Inv, TypeOK
  <2>2. N \in Nat /\ N >= 1 /\ InSize \in Nat /\ cut[1] = 0 /\ cut[N + 1] = InSize
    BY <2>1, CutFacts
  <2> QED
    BY <2>1, <2>2, BoundFacts
<1>a. ASSUME pc = "compress", NEW x \in 0 .. outsize - 1
      PROVE  outb + x \in DOMAIN comp /\ outb + x \in Nat /\ (outb + x) - outb = x
  <2>1. outb + outsize \in {InSize, CompressBound(InSize)}
    BY <1>a DEF Inv, Packing
  <2>2. outb + outsize <= CompressBound(InSize)
    BY <2>1, <1>0
  <2>3. outb + x < outb + outsize /\ outb + x \in Nat /\ (outb + x) - outb = x
    BY <1>0
  <2> QED
    BY <2>2, <2>3, <1>0
<1>1. CASE StartCompress
  <2>1. pc' = "compress" /\ i' = 1
    BY <1>1 DEF StartCompress
  <2> QED
    BY <2>1 DEF Content, Holding, Restoring, RoundTrip
<1>2. CASE KeepChunk
  <2>1. PICK clen \in CodecResults(Part(i), outsize) :
          /\ ~Stored(clen, Part(i))
          /\ clen <= outsize
          /\ \E buf \in Scratch :
               comp' = Write(buf, outb, clen,
                             LAMBDA k : Encoded(inb, Part(i), clen, k))
          /\ Emit(clen)
    BY <1>2 DEF KeepChunk
  <2>2. PICK buf \in Scratch :
          comp' = Write(buf, outb, clen, LAMBDA k : Encoded(inb, Part(i), clen, k))
    BY <2>1
  <2>3. pc = "compress" /\ i <= N /\ i \in Chunk
    BY <1>0, <1>2 DEF KeepChunk, Chunk
  <2>4. clen \in Nat /\ clen > 0 /\ clen # Part(i) /\ clen <= outsize
    <3>1. Part(i) \in Nat /\ Part(i) \div ExpandDiv \in Nat
      BY <1>0, <2>3, CutFacts, DivNat
    <3>2. OutPart(Part(i), outsize) \in Int /\ WorstCase(Part(i)) \in Nat
      BY <1>0, <3>1, CodecAssumption
         DEF OutPart, Smaller, CompressBound, WorstCase
    <3>3. clen \in Nat /\ clen > 0 /\ clen # Part(i)
      BY <2>1, <3>1, <3>2 DEF CodecResults, Stored, Smaller
    <3> QED
      BY <2>1, <3>3
  <2>5. DOMAIN buf = DOMAIN comp /\ DOMAIN comp' = DOMAIN comp
    BY <2>2, ScratchDomain DEF Write
  <2>6. ASSUME NEW x \in DOMAIN comp, x < outb
        PROVE  comp'[x] = comp[x]
    <3>1. x \in Int /\ x \notin outb .. outb + clen - 1
      BY <2>6, <1>0, <2>4
    <3>2. comp'[x] = buf[x]
      BY <2>2, <2>5, <3>1 DEF Write
    <3> QED
      BY <3>1, <3>2, <2>6, <1>0, ScratchAbove
  <2>7. ASSUME NEW k \in 0 .. clen - 1
        PROVE  comp'[outb + k] = Encoded(inb, Part(i), clen, k)
    <3>1. k \in 0 .. outsize - 1
      BY <2>4, <1>0
    <3>2. outb + k \in DOMAIN comp /\ outb + k \in Nat /\ (outb + k) - outb = k
      BY <3>1, <2>3, <1>a
    <3>3. outb + k \in outb .. outb + clen - 1
      BY <2>4, <1>0
    <3> QED
      BY <2>2, <2>5, <3>2, <3>3 DEF Write
  <2> QED
    BY <2>1, <2>3, <2>4, <2>5, <2>6, <2>7, EmitHolds
<1>3. CASE StoreChunk
  <2>1. PICK buf \in Scratch :
          comp' = Write(buf, outb, Part(i), LAMBDA k : InByte(inb + k))
    BY <1>3 DEF StoreChunk
  <2>2. pc = "compress" /\ i <= N /\ i \in Chunk /\ Emit(Part(i)) /\ Part(i) <= outsize
    BY <1>0, <1>3 DEF StoreChunk, Chunk
  <2>3. Part(i) \in Nat /\ Part(i) > 0
    BY <1>0, <2>2, CutFacts
  <2>4. DOMAIN buf = DOMAIN comp /\ DOMAIN comp' = DOMAIN comp
    BY <2>1, ScratchDomain DEF Write
  <2>5. ASSUME NEW x \in DOMAIN comp, x < outb
        PROVE  comp'[x] = comp[x]
    <3>1. x \in Int /\ x \notin outb .. outb + Part(i) - 1
      BY <2>5, <1>0, <2>3
    <3>2. comp'[x] = buf[x]
      BY <2>1, <2>4, <3>1 DEF Write
    <3> QED
      BY <3>1, <3>2, <2>5, <1>0, ScratchAbove
  <2>6. ASSUME NEW k \in 0 .. Part(i) - 1
        PROVE  comp'[outb + k] = InByte(inb + k)
    <3>1. k \in 0 .. outsize - 1
      BY <2>2, <2>3, <1>0
    <3>2. outb + k \in DOMAIN comp /\ outb + k \in Nat /\ (outb + k) - outb = k
      BY <3>1, <2>2, <1>a
    <3>3. outb + k \in outb .. outb + Part(i) - 1
      BY <2>3, <1>0
    <3> QED
      BY <2>1, <2>4, <3>2, <3>3 DEF Write
  <2> QED
    BY <2>2, <2>3, <2>4, <2>5, <2>6, EmitHolds
<1>4. CASE GiveUp
  BY <1>4 DEF GiveUp, Content, Holding, Restoring, RoundTrip
<1>5. CASE EndCompress
  <2>1. /\ pc = "compress" /\ pc' = "packed" /\ complen' = outb /\ i = N + 1
        /\ UNCHANGED <<cut, comp, at, comprSizes>>
    BY <1>0, <1>5 DEF EndCompress
  <2>2. \A j \in Chunk : HoldsChunk(j)
    BY <2>1, <1>0 DEF Content, Holding, Chunk
  <2>3. outb <= CompressBound(InSize)
    <3>1. outb + outsize \in {InSize, CompressBound(InSize)}
      BY <2>1 DEF Inv, Packing
    <3>2. outb <= outb + outsize
      BY <1>0
    <3> QED
      BY <3>1, <3>2, <1>0
  <2>4. CompressBound(InSize)' = CompressBound(InSize)
    BY <2>1, HoldsStable DEF CompressBound
  <2> QED
    BY <2>1, <2>2, <2>3, <2>4, HoldsStable DEF Content, Holding, Restoring, RoundTrip
<1>6. CASE StartDecompress
  <2>1. /\ pc \in {"packed", "unpacked", "cleared"} /\ pc' = "decompress"
        /\ i' = 1 /\ outb' = 0 /\ UNCHANGED <<cut, comp, at, comprSizes, complen, decomp>>
    BY <1>6 DEF StartDecompress
  <2>2. Holding'
    BY <2>1, HoldsStable DEF Content, Holding, CompressBound
  <2> QED
    BY <2>1, <2>2, <1>0 DEF Content, Restoring, RoundTrip
<1>7. CASE CopyChunk
  <2>1. /\ pc = "decompress" /\ i <= N /\ Consume(Part(i)) /\ comprSizes[i] = Part(i)
        /\ UNCHANGED <<cut, comp, at, comprSizes, complen>>
        /\ decomp' = Write(decomp, outb, Part(i),
                           LAMBDA k : IF inb + k \in DOMAIN comp THEN comp[inb + k]
                                                                 ELSE Junk)
    BY <1>7 DEF CopyChunk
  <2>2. /\ Part(i) \in Nat /\ cut[i] + Part(i) = cut[i + 1]
        /\ cut[i] \in Nat /\ cut[i + 1] \in Nat /\ cut[i + 1] <= InSize
    BY <2>1, DecodeFacts
  <2>3. ASSUME NEW x \in DOMAIN decomp, x < outb PROVE decomp'[x] = decomp[x]
    <3>1. x \notin outb .. outb + Part(i) - 1
      BY <2>3, <2>2, <1>0
    <3> QED
      BY <2>1, <3>1 DEF Write
  <2>4. ASSUME complen # 0, Lossless, NEW k \in 0 .. Part(i) - 1
        PROVE  decomp'[outb + k] = InByte(cut[i] + k)
    <3>1. inb = at[i] /\ HoldsChunk(i) /\ inb + comprSizes[i] <= CompressBound(InSize)
      BY <2>1, <2>4, DecodeFacts
    <3>2. comp[inb + k] = InByte(cut[i] + k)
      BY <3>1, <2>1 DEF HoldsChunk
    <3>3. inb + k \in DOMAIN comp
      <4>1. inb + Part(i) <= CompressBound(InSize)
        BY <3>1, <2>1
      <4> QED
        BY <4>1, <2>2, <1>0, OffsetWithin
    <3>4. outb = cut[i]
      BY <2>1, <2>4 DEF Content, Restoring
    <3>5. /\ outb + k \in DOMAIN decomp /\ (outb + k) - outb = k
          /\ outb + k \in outb .. outb + Part(i) - 1
      <4>1. outb + Part(i) <= InSize
        BY <3>4, <2>2
      <4> QED
        BY <4>1, <2>2, <1>0, OffsetWithin
    <3> QED
      BY <2>1, <3>2, <3>3, <3>5 DEF Write
  <2> QED
    BY <2>1, <2>3, <2>4, RestoreStep
<1>8. CASE DecodeChunk
  <2> DEFINE part == comprSizes[i]
             right(j) == /\ part > 0
                         /\ inb + part <= CompressBound(InSize)
                         /\ IsStream(inb, part, cut[j], Part(j))
                         /\ Part(j) <= Part(i)
             rights == {j \in Chunk : right(j)}
  <2>1. /\ pc = "decompress" /\ i <= N /\ comprSizes[i] # Part(i)
        /\ UNCHANGED <<cut, comp, at, comprSizes, complen>>
    BY <1>8 DEF DecodeChunk
  <2>2. /\ Part(i) \in Nat /\ cut[i] + Part(i) = cut[i + 1] /\ i \in Chunk
        /\ cut[i] \in Nat /\ cut[i + 1] \in Nat /\ cut[i + 1] <= InSize
        /\ comprSizes[i] \in Nat
    BY <2>1, DecodeFacts
  <2>3. ASSUME complen # 0 PROVE right(i)
    <3>1. inb = at[i] /\ HoldsChunk(i) /\ inb + comprSizes[i] <= CompressBound(InSize)
      BY <2>1, <2>3, DecodeFacts
    <3> QED
      BY <3>1, <2>1, <2>2 DEF HoldsChunk
  <2>4. ASSUME complen # 0, NEW j \in Chunk, right(j)
        PROVE  cut[j] = cut[i] /\ Part(j) = Part(i)
    <3>1. 0 \in 0 .. part - 1
      BY <2>4, <2>2
    <3>2. comp[inb + 0] = Encoded(cut[j], Part(j), part, 0)
      BY <2>4, <3>1 DEF IsStream
    <3>3. comp[inb + 0] = Encoded(cut[i], Part(i), part, 0)
      BY <2>3, <2>4, <3>1 DEF IsStream
    <3> QED
      BY <3>2, <3>3 DEF Encoded
  <2>5. CASE \E j \in rights :
               /\ decomp' = Write(decomp, outb, Part(j),
                                  LAMBDA k : InByte(cut[j] + k))
               /\ Consume(Part(j))
    <3>1. PICK j \in Chunk :
               /\ right(j)
               /\ decomp' = Write(decomp, outb, Part(j),
                                  LAMBDA k : InByte(cut[j] + k))
               /\ Consume(Part(j))
      BY <2>5
    <3>2. CASE complen = 0
      BY <3>1, <3>2, <2>1 DEF Consume, Content, Holding, Restoring, RoundTrip
    <3>3. CASE complen # 0
      <4>1. cut[j] = cut[i] /\ Part(j) = Part(i)
        BY <3>1, <3>3, <2>4
      <4>2. /\ Consume(Part(i))
            /\ decomp' = Write(decomp, outb, Part(i), LAMBDA k : InByte(cut[i] + k))
        BY <3>1, <4>1
      <4>3. ASSUME NEW x \in DOMAIN decomp, x < outb PROVE decomp'[x] = decomp[x]
        <5>1. x \notin outb .. outb + Part(i) - 1
          BY <4>3, <2>2, <1>0
        <5> QED
          BY <4>2, <5>1 DEF Write
      <4>4. ASSUME Lossless, NEW k \in 0 .. Part(i) - 1
            PROVE  decomp'[outb + k] = InByte(cut[i] + k)
        <5>1. outb = cut[i]
          BY <2>1, <3>3, <4>4 DEF Content, Restoring
        <5>2. /\ outb + k \in DOMAIN decomp /\ (outb + k) - outb = k
              /\ outb + k \in outb .. outb + Part(i) - 1
          <6>1. outb + Part(i) <= InSize
            BY <5>1, <2>2
          <6> QED
            BY <6>1, <2>2, <1>0, OffsetWithin
        <5> QED
          BY <4>2, <5>2 DEF Write
      <4> QED
        BY <2>1, <4>2, <4>3, <4>4, RestoreStep
    <3> QED
      BY <3>2, <3>3
  <2>6. CASE /\ rights = {} \/ ~Lossless
             /\ \/ \E dlen \in 1 .. Part(i) : Consume(dlen)
                \/ pc' = "unpacked"
    <3>1. complen = 0 \/ ~Lossless
      BY <2>3, <2>6, <2>2
    <3>2. Holding'
      <4>1. pc' \in {"decompress", "unpacked"}
        BY <2>1, <2>6 DEF Consume
      <4> QED
        BY <4>1, <2>1, HoldsStable DEF Content, Holding, CompressBound
    <3> QED
      BY <3>1, <3>2, <2>1 DEF Content, Restoring, RoundTrip
  <2> QED
    BY <1>8, <2>5, <2>6 DEF DecodeChunk
<1>9. CASE EndDecompress
  <2>1. /\ pc = "decompress" /\ pc' = "unpacked" /\ i = N + 1 /\ decomplen' = outb
        /\ UNCHANGED <<cut, comp, at, comprSizes, complen, decomp>>
    BY <1>0, <1>9 DEF EndDecompress
  <2>2. Holding'
    BY <2>1, HoldsStable DEF Content, Holding, CompressBound
  <2>3. Lossless /\ complen # 0 => Restored /\ outb = InSize
    BY <2>1, <1>0 DEF Content, Restoring, Restored
  <2>4. Restored' = Restored /\ InSize' = InSize
    BY <2>1 DEF Restored, InSize
  <2> QED
    BY <2>1, <2>2, <2>3, <2>4 DEF Content, Restoring, RoundTrip
<1>10. CASE ClearOutput
  <2>1. /\ pc = "unpacked" /\ pc' = "cleared"
        /\ UNCHANGED <<cut, comp, at, comprSizes, complen>>
    BY <1>10 DEF ClearOutput
  <2>2. Holding'
    BY <2>1, HoldsStable DEF Content, Holding, CompressBound
  <2> QED
    BY <2>1, <2>2 DEF Content, Restoring, RoundTrip
<1>11. CASE NextTest
  BY <1>11 DEF NextTest, Content, Holding, Restoring, RoundTrip
<1>12. CASE UNCHANGED codecVars
  <2>1. UNCHANGED <<pc, i, cut, comp, at, comprSizes, complen, decomp, decomplen, outb>>
    BY <1>12 DEF codecVars
  <2>2. Holding'
    BY <2>1, HoldsStable DEF Content, Holding, CompressBound
  <2> QED
    BY <2>1, <2>2 DEF Content, Restoring, RoundTrip, Restored, InSize
<1>13. CASE Overrun
  BY <1>13 DEF Overrun, Content, Holding, Restoring, RoundTrip
<1> QED
  BY <1>1, <1>2, <1>3, <1>4, <1>5, <1>6, <1>7, <1>8, <1>9, <1>10, <1>11, <1>12,
     <1>13 DEF Next, Undefined

(* A codec that decodes its own streams passes lzbench's verification after *)
(* every whole image, with any mix of stored and encoded chunks: telling    *)
(* them apart by size alone loses nothing.                                  *)
THEOREM LosslessRoundTrip == Spec => []RoundTrip
<1>1. Init => Content
  BY DEF Init, Content, Holding, Restoring, RoundTrip
<1>2. Content => RoundTrip
  BY DEF Content
<1> QED
  BY <1>1, <1>2, ContentStep, Invariance, PTL DEF Spec

-------------------------------------------------------------------------------
(* Before the first call of a test nothing has been decompressed.           *)
Fresh == pc = "start" => decomplen = 0 /\ complen = 0

(* The buffers before the first test are those of CodecCalls.               *)
LEMMA RefineInit == Init => Calls!CallsInit
<1> SUFFICES ASSUME Init PROVE Calls!CallsInit
  OBVIOUS
<1>1. InSize \in Nat /\ InSize > 0
  BY CutFacts DEF Init
<1>2. Restored <=> Blank
  <2>1. 0 \in 0 .. InSize - 1
    BY <1>1
  <2>2. decomp[0] = Zero
    BY <2>1 DEF Init
  <2>3. CASE Blank
    BY <2>3 DEF Init, Restored, InByte
  <2>4. CASE ~Blank
    BY <2>1, <2>2, <2>4 DEF Restored, InByte, Zero
  <2> QED
    BY <2>3, <2>4
<1> QED
  BY <1>2 DEF Init, Calls!CallsInit, Calls!Cleared, Word

(* A test that has not compressed yet has returned no length.               *)
LEMMA FreshStep == Fresh /\ [Next]_codecVars => Fresh'
<1> SUFFICES ASSUME Fresh, [Next]_codecVars PROVE Fresh'
  OBVIOUS
<1> USE DEF Fresh
<1>1. CASE \/ StartCompress \/ KeepChunk \/ StoreChunk \/ GiveUp \/ EndCompress
  BY <1>1 DEF StartCompress, KeepChunk, StoreChunk, GiveUp, EndCompress, Emit
<1>2. CASE \/ StartDecompress \/ CopyChunk \/ DecodeChunk \/ EndDecompress
  BY <1>2 DEF StartDecompress, CopyChunk, DecodeChunk, EndDecompress, Consume
<1>3. CASE Overrun \/ ClearOutput \/ NextTest \/ UNCHANGED codecVars
  BY <1>3 DEF Overrun, ClearOutput, NextTest, codecVars
<1> QED
  BY <1>1, <1>2, <1>3 DEF Next, Undefined

(* Each step of the chunk loops is a call's begin, its end, a step of       *)
(* lzbench_test between calls, or nothing CodecCalls can see.               *)
LEMMA RefineStep ==
  Inv /\ Content /\ Content' /\ Fresh /\ [Next]_codecVars
    => [Calls!CallsNext]_(Calls!callVars)
<1> SUFFICES ASSUME Inv, Content, Content', Fresh, [Next]_codecVars
             PROVE  Calls!CallsNext \/ UNCHANGED Calls!callVars
  OBVIOUS
<1> USE DEF Calls!callVars
<1>0. /\ cut \in Chunkings /\ N \in Nat /\ N >= 1 /\ InSize \in Nat /\ InSize > 0
      /\ i \in 1 .. N + 1 /\ i \in Nat
  <2>1. cut \in Chunkings /\ i \in 1 .. N + 1
    BY DEF Inv, TypeOK
  <2> QED
    BY <2>1, CutFacts
<1>a. ASSUME UNCHANGED cut PROVE InSize' = InSize
  BY <1>a DEF InSize
<1>b. ASSUME UNCHANGED <<cut, decomp>> PROVE Restored' = Restored /\ InSize' = InSize
  BY <1>b DEF Restored, InSize
<1>1. CASE StartCompress
  <2>1. Restored' = Restored /\ InSize' = InSize
    BY <1>1, <1>b DEF StartCompress
  <2>2. Calls!BeginCompress
    BY <1>1, <2>1, <1>0 DEF StartCompress, Calls!BeginCompress, Fresh, Word
  <2> QED
    BY <2>2 DEF Calls!CallsNext
<1>2. CASE KeepChunk \/ StoreChunk
  <2>1. pc = "compress" /\ UNCHANGED <<cut, pc, complen, decomplen, decomp, seen>>
    BY <1>2 DEF KeepChunk, StoreChunk, Emit
  <2> QED
    BY <2>1, <1>b
<1>3. CASE GiveUp
  <2>1. /\ pc = "compress" /\ pc' = "packed" /\ complen' = 0
        /\ UNCHANGED <<cut, decomplen, decomp>>
    BY <1>3 DEF GiveUp
  <2>2. ~Roomy
    BY <1>3, GiveUpNotPaid
  <2>3. Calls!EndCompress
    BY <2>1, <2>2, <1>b DEF Calls!EndCompress
  <2> QED
    BY <2>3 DEF Calls!CallsNext
<1>4. CASE EndCompress
  <2>1. /\ pc = "compress" /\ pc' = "packed" /\ complen' = outb /\ i > N
        /\ UNCHANGED <<cut, decomplen, decomp>>
    BY <1>4 DEF EndCompress
  <2>2. outb > 0
    BY <2>1, <1>0 DEF Inv, Packing
  <2>3. complen' # 0
    BY <2>1, <2>2
  <2>4. Calls!EndCompress
    BY <2>1, <2>3, <1>b DEF Calls!EndCompress
  <2> QED
    BY <2>4 DEF Calls!CallsNext
<1>5. CASE StartDecompress
  <2>1. /\ pc \in {"packed", "unpacked", "cleared"} /\ pc' = "decompress"
        /\ seen' = Restored /\ UNCHANGED <<cut, complen, decomplen, decomp>>
    BY <1>5 DEF StartDecompress
  <2>2. Calls!BeginDecompress
    BY <2>1, <1>b DEF Calls!BeginDecompress, Word
  <2> QED
    BY <2>2 DEF Calls!CallsNext
<1>6. CASE /\ pc = "decompress" /\ pc' = "decompress"
           /\ UNCHANGED <<cut, complen, decomplen, seen>>
  BY <1>6, <1>a
<1>7. CASE pc = "decompress" /\ pc' = "unpacked" /\ UNCHANGED <<cut, complen>>
  <2>1. Lossless /\ complen # 0 => Restored' /\ decomplen' = InSize'
    BY <1>7 DEF Content, RoundTrip
  <2>2. Calls!EndDecompress
    BY <1>7, <2>1 DEF Calls!EndDecompress, Calls!Agreement, Word
  <2> QED
    BY <2>2 DEF Calls!CallsNext
<1>8. CASE ClearOutput
  <2>1. /\ pc = "unpacked" /\ pc' = "cleared" /\ UNCHANGED <<cut, complen, decomplen>>
        /\ decomp' = [x \in DOMAIN decomp |-> Zero]
    BY <1>8 DEF ClearOutput
  <2>2. DOMAIN decomp = 0 .. InSize - 1
    BY DEF Inv, TypeOK
  <2>3. Restored' <=> Blank
    <3>1. 0 \in 0 .. InSize - 1
      BY <1>0
    <3>2. CASE Blank
      BY <3>2, <2>1, <2>2, <1>a DEF Restored, InByte
    <3>3. CASE ~Blank
      BY <3>1, <3>3, <2>1, <2>2, <1>a DEF Restored, InByte, Zero
    <3> QED
      BY <3>2, <3>3
  <2>4. Calls!ClearOutput
    BY <2>1, <2>3, <1>a DEF Calls!ClearOutput, Calls!Cleared, Word
  <2> QED
    BY <2>4 DEF Calls!CallsNext
<1>9. CASE NextTest
  <2>1. /\ pc \in {"packed", "cleared"} /\ pc' = "start" /\ complen' = 0
        /\ UNCHANGED decomp
    BY <1>9 DEF NextTest
  <2>2. InSize' = InSize
    BY <1>9 DEF NextTest, InSize
  <2>3. Restored' = Restored
    BY <2>1, <2>2 DEF Restored
  <2>4. Calls!NextTest
    BY <2>1, <2>3 DEF Calls!NextTest, Word
  <2> QED
    BY <2>4 DEF Calls!CallsNext
<1>10. CASE UNCHANGED codecVars
  BY <1>10, <1>b DEF codecVars
<1>11. CASE CopyChunk \/ DecodeChunk \/ EndDecompress
  <2>1. pc = "decompress" /\ UNCHANGED <<cut, complen, seen>>
    BY <1>11 DEF CopyChunk, DecodeChunk, EndDecompress
  <2>2. \/ pc' = "decompress" /\ UNCHANGED decomplen
        \/ pc' = "unpacked"
    BY <1>11 DEF CopyChunk, DecodeChunk, EndDecompress, Consume
  <2> QED
    BY <2>1, <2>2, <1>6, <1>7
<1>12. CASE Overrun
  <2>1. pc = "compress" /\ pc' = "overrun" /\ UNCHANGED <<cut, complen, decomplen, decomp>>
    BY <1>12 DEF Overrun
  <2> QED
    BY <2>1, <1>b
<1> QED
  BY <1>1, <1>2, <1>3, <1>4, <1>5, <1>8, <1>9, <1>10, <1>11, <1>12
     DEF Next, Undefined

(* lzbench_compress and lzbench_decompress, chunk by chunk, are the two     *)
(* calls lzbench_test counts on.                                            *)
THEOREM CodecImplementsCalls == Spec => ImplementsCalls
<1>1. Init => Content /\ Fresh
  BY DEF Init, Content, Holding, Restoring, RoundTrip, Fresh
<1> QED
  BY <1>1, RefineInit, RefineStep, FreshStep, ContentStep, Invariance, PTL
     DEF Spec, ImplementsCalls, Calls!CallsSpec
===============================================================================
