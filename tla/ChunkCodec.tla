------------------------------ MODULE ChunkCodec ------------------------------
(***************************************************************************)
(* lzbench_compress and lzbench_decompress, one action per chunk.          *)
(*                                                                         *)
(* The input is cut into chunks; cut[j] is the offset of chunk j in inbuf, *)
(* so chunk_sizes[j] is cut[j+1] - cut[j] and cut ends with insize.        *)
(* Buffers are modelled byte by byte, a byte being named by where it came  *)
(* from: the k-th input byte, the k-th byte of the stream some codec made  *)
(* of some chunk, a zero or junk.  A codec may emit any number of bytes    *)
(* within its worst case or fail, differently at every call (a codec that  *)
(* allocates may fail once), and leaves junk in the room it was given; a   *)
(* decoder of anything but a stream of the same codec may do anything      *)
(* inside its output chunk.  A codec that does not look at its room may    *)
(* emit more than compbuf has left: what happens then is undefined in C,   *)
(* and the model ends there, in pc = "overrun".                            *)
(***************************************************************************)
EXTENDS Integers, Sequences

CONSTANTS
  Chunkings,  \* the cut sequences to explore
  PadSize,    \* PAD_SIZE
  ExpandDiv,  \* the 6 of GET_COMPRESS_BOUND
  Overhead,   \* constant part of the codec's worst case, per chunk
  Obedient,   \* TRUE: the codec looks at the room it is given; the wrappers
              \* of fastlz, lzrw and others drop that argument
  Lossless,   \* TRUE: the codec decodes every stream it encoded
  Blank       \* TRUE: inbuf holds nothing but zero bytes

IsChunking(c) ==
  /\ c \in Seq(Nat)
  /\ Len(c) >= 2
  /\ c[1] = 0
  /\ \A j, k \in 1 .. Len(c) : j < k => c[j] < c[k]

(* PAD_SIZE pays for the constant overhead of every chunk, however the      *)
(* input is cut.                                                            *)
Roomy == \A c \in Chunkings : (Len(c) - 1) * Overhead <= PadSize

ASSUME CodecAssumption ==
  /\ \A c \in Chunkings : IsChunking(c)
  /\ PadSize \in Nat
  /\ ExpandDiv \in Nat \ {0}
  /\ Overhead \in 0 .. PadSize
  /\ Obedient \in BOOLEAN
  /\ Lossless \in BOOLEAN
  /\ Blank \in BOOLEAN

VARIABLES
  cut,        \* the chunk list of the running lzbench_test
  baseline,   \* TRUE: the memcpy test, with comprsize = insize
  pc,         \* where lzbench_test is between and inside the two calls
  i,          \* the running loop's chunk
  inb, outb,  \* offsets of the pointers inbuf and outbuf of the running call
  outsize,    \* room left in compbuf
  comprSizes, \* compr_sizes
  complen,    \* what the last lzbench_compress returned
  decomplen,  \* what the last lzbench_decompress returned
  comp,       \* compbuf
  decomp,     \* decomp
  at,         \* history: offset in compbuf where chunk j was put
  seen        \* history: output against input when the running call began

codecVars == <<cut, baseline, pc, i, inb, outb, outsize, comprSizes, complen,
               decomplen, comp, decomp, at, seen>>

-------------------------------------------------------------------------------
Smaller(a, b) == IF a < b THEN a ELSE b

CompressBound_NoSixth(n) == n + PadSize

CompressBound(n) == n + n \div ExpandDiv + PadSize

N == Len(cut) - 1
Part(j) == cut[j + 1] - cut[j]
InSize == cut[Len(cut)]
Chunk == 1 .. N

(* Bytes by provenance. *)
Zero == <<"zero">>
Junk == <<"junk">>
InByte(k) == IF Blank THEN Zero ELSE <<"in", k>>
Encoded(s, p, len, k) == <<"enc", s, p, len, k>>

Write(buf, o, len, byte(_)) ==
  [x \in DOMAIN buf |-> IF x \in o .. o + len - 1 THEN byte(x - o) ELSE buf[x]]

(* The len bytes at offset o are the stream of the p input bytes from s.    *)
IsStream(o, len, s, p) ==
  \A k \in 0 .. len - 1 : comp[o + k] = Encoded(s, p, len, k)

(* memcmp(inbuf, decomp, insize) == 0 *)
Restored == \A x \in 0 .. InSize - 1 : decomp[x] = InByte(x)

(* The room given to a codec: its own bound, or what is left of compbuf.    *)
OutPart(part, room) == Smaller(CompressBound(part), room)

WorstCase(part) == part + part \div ExpandDiv + Overhead

(* A codec never exceeds its worst case nor, if it looks, its room; 0       *)
(* stands for failure.  The memcpy test compresses with lzbench_return_0.   *)
CodecResults(part, room) ==
  IF baseline THEN {0}
  ELSE 0 .. IF Obedient THEN Smaller(OutPart(part, room), WorstCase(part))
                        ELSE WorstCase(part)

(* A chunk is stored when its codec failed or emitted exactly its size: the *)
(* decoder tells stored chunks by their size.                               *)
Stored_FailedOnly(clen, part) == clen <= 0

Stored(clen, part) == clen <= 0 \/ clen = part

-------------------------------------------------------------------------------
Init ==
  /\ cut \in Chunkings
  /\ baseline \in BOOLEAN
  /\ pc = "start"
  /\ i = 1
  /\ inb = 0
  /\ outb = 0
  /\ outsize = 0
  /\ comprSizes = [j \in Chunk |-> 0]
  /\ complen = 0
  /\ decomplen = 0
  /\ comp = [x \in 0 .. CompressBound(InSize) - 1 |-> Zero]
  /\ decomp = [x \in 0 .. InSize - 1 |-> Zero]
  /\ at = [j \in 1 .. N + 1 |-> 0]
  /\ seen = Blank

StartCompress_NoRoom ==
  /\ pc \in {"start", "packed"}
  /\ pc' = "compress"
  /\ i' = 1
  /\ inb' = 0
  /\ outb' = 0
  /\ outsize' = InSize
  /\ UNCHANGED <<cut, baseline, comprSizes, complen, decomplen, comp, decomp,
                 at, seen>>

(* lzbench_compress: compr_sizes.resize(cscount) keeps the old sizes.       *)
StartCompress ==
  /\ pc \in {"start", "packed"}
  /\ pc' = "compress"
  /\ i' = 1
  /\ inb' = 0
  /\ outb' = 0
  /\ outsize' = IF baseline THEN InSize ELSE CompressBound(InSize)
  /\ UNCHANGED <<cut, baseline, comprSizes, complen, decomplen, comp, decomp,
                 at, seen>>

Emit(len) ==
  /\ comprSizes' = [comprSizes EXCEPT ![i] = len]
  /\ at' = [at EXCEPT ![i + 1] = outb + len]
  /\ inb' = inb + Part(i)
  /\ outb' = outb + len
  /\ outsize' = outsize - len
  /\ i' = i + 1
  /\ UNCHANGED <<cut, baseline, pc, complen, decomplen, decomp, seen>>

(* compbuf when the codec returns, but for the stream itself: it may have   *)
(* used all of its room as scratch space.                                   *)
Scratch == {comp, Write(comp, outb, OutPart(Part(i), outsize), LAMBDA k : Junk)}

(* The codec wrote past the end of compbuf.                                 *)
Overrun ==
  /\ pc = "compress" /\ i <= N
  /\ \E clen \in CodecResults(Part(i), outsize) : clen > outsize
  /\ pc' = "overrun"
  /\ UNCHANGED <<cut, baseline, i, inb, outb, outsize, comprSizes, complen,
                 decomplen, comp, decomp, at, seen>>

(* Nothing is known of the program after that.                              *)
Undefined == pc = "overrun" /\ UNCHANGED codecVars

KeepChunk ==
  /\ pc = "compress" /\ i <= N
  /\ \E clen \in CodecResults(Part(i), outsize) :
       /\ ~Stored(clen, Part(i))
       /\ clen <= outsize
       /\ \E buf \in Scratch :
            comp' = Write(buf, outb, clen,
                          LAMBDA k : Encoded(inb, Part(i), clen, k))
       /\ Emit(clen)

StoreChunk_Unchecked ==
  /\ pc = "compress" /\ i <= N
  /\ \E clen \in CodecResults(Part(i), outsize) : Stored(clen, Part(i))
  /\ \E buf \in Scratch :
       comp' = Write(buf, outb, Part(i), LAMBDA k : InByte(inb + k))
  /\ Emit(Part(i))

StoreChunk ==
  /\ pc = "compress" /\ i <= N
  /\ \E clen \in CodecResults(Part(i), outsize) :
       Stored(clen, Part(i)) /\ clen <= outsize
  /\ Part(i) <= outsize
  /\ \E buf \in Scratch :
       comp' = Write(buf, outb, Part(i), LAMBDA k : InByte(inb + k))
  /\ Emit(Part(i))

(* if (part > outsize) return 0: sizes of the remaining chunks stay as they *)
(* were.                                                                    *)
GiveUp ==
  /\ pc = "compress" /\ i <= N
  /\ \E clen \in CodecResults(Part(i), outsize) :
       Stored(clen, Part(i)) /\ clen <= outsize
  /\ Part(i) > outsize
  /\ comp' \in Scratch
  /\ complen' = 0
  /\ pc' = "packed"
  /\ UNCHANGED <<cut, baseline, i, inb, outb, outsize, comprSizes, decomplen,
                 decomp, at, seen>>

EndCompress ==
  /\ pc = "compress" /\ i > N
  /\ complen' = outb
  /\ pc' = "packed"
  /\ UNCHANGED <<cut, baseline, i, inb, outb, outsize, comprSizes, decomplen,
                 comp, decomp, at, seen>>

-------------------------------------------------------------------------------
(* lzbench_decompress.  lzbench_test calls it whatever complen is.          *)
StartDecompress ==
  /\ pc \in {"packed", "unpacked", "cleared"}
  /\ pc' = "decompress"
  /\ i' = 1
  /\ inb' = 0
  /\ outb' = 0
  /\ seen' = Restored
  /\ UNCHANGED <<cut, baseline, outsize, comprSizes, complen, decomplen, comp,
                 decomp, at>>

(* The loop's tail after a chunk that produced dlen > 0 bytes.              *)
Consume_ByOutput(dlen) ==
  /\ inb' = inb + dlen
  /\ outb' = outb + dlen
  /\ i' = i + 1
  /\ UNCHANGED <<pc, decomplen>>

Consume(dlen) ==
  /\ inb' = inb + comprSizes[i]
  /\ outb' = outb + dlen
  /\ i' = i + 1
  /\ UNCHANGED <<pc, decomplen>>

CopyChunk ==
  /\ pc = "decompress" /\ i <= N
  /\ comprSizes[i] = Part(i)
  /\ decomp' = Write(decomp, outb, Part(i),
                     LAMBDA k : IF inb + k \in DOMAIN comp THEN comp[inb + k]
                                                           ELSE Junk)
  /\ Consume(Part(i))
  /\ UNCHANGED <<cut, baseline, outsize, comprSizes, complen, comp, at, seen>>

(* What a decoder that misses the right answer may do: claim any length     *)
(* within its chunk, and write junk, or nothing at all.                     *)
DecodeWrong(dlen) ==
  decomp' \in {decomp, Write(decomp, outb, dlen, LAMBDA k : Junk)}

DecodeChunk ==
  /\ pc = "decompress" /\ i <= N
  /\ comprSizes[i] # Part(i)
  /\ LET part == comprSizes[i]
         rights == {j \in Chunk : /\ part > 0
                                  /\ inb + part <= CompressBound(InSize)
                                  /\ IsStream(inb, part, cut[j], Part(j))
                                  /\ Part(j) <= Part(i)}
     IN \/ \E j \in rights :
             /\ decomp' = Write(decomp, outb, Part(j),
                                LAMBDA k : InByte(cut[j] + k))
             /\ Consume(Part(j))
        \/ /\ rights = {} \/ ~Lossless
           /\ \E dlen \in 1 .. Part(i) : DecodeWrong(dlen) /\ Consume(dlen)
        \/ /\ rights = {} \/ ~Lossless
           /\ DecodeWrong(0)
           /\ decomplen' = 0
           /\ pc' = "unpacked"
           /\ UNCHANGED <<i, inb, outb>>
  /\ UNCHANGED <<cut, baseline, outsize, comprSizes, complen, comp, at, seen>>

EndDecompress ==
  /\ pc = "decompress" /\ i > N
  /\ decomplen' = outb
  /\ pc' = "unpacked"
  /\ UNCHANGED <<cut, baseline, i, inb, outb, outsize, comprSizes, complen,
                 comp, decomp, at, seen>>

-------------------------------------------------------------------------------
(* memset(decomp, 0, insize), after the comparison with the input.          *)
ClearOutput ==
  /\ pc = "unpacked"
  /\ decomp' = [x \in DOMAIN decomp |-> Zero]
  /\ pc' = "cleared"
  /\ UNCHANGED <<cut, baseline, i, inb, outb, outsize, comprSizes, complen,
                 decomplen, comp, at, seen>>

(* The next lzbench_test on the same buffers, perhaps with other chunks.    *)
NextTest ==
  /\ pc \in {"packed", "cleared"}
  /\ \E c \in Chunkings :
       /\ c[Len(c)] = InSize
       /\ cut' = c
       /\ comprSizes' = [j \in 1 .. Len(c) - 1 |-> 0]
       /\ at' = [j \in 1 .. Len(c) |-> 0]
  /\ baseline' = FALSE
  /\ pc' = "start"
  /\ i' = 1
  /\ inb' = 0
  /\ outb' = 0
  /\ complen' = 0
  /\ decomplen' = 0
  /\ UNCHANGED <<outsize, comp, decomp, seen>>

Next ==
  \/ StartCompress
  \/ Overrun
  \/ Undefined
  \/ KeepChunk
  \/ StoreChunk
  \/ GiveUp
  \/ EndCompress
  \/ StartDecompress
  \/ CopyChunk
  \/ DecodeChunk
  \/ EndDecompress
  \/ ClearOutput
  \/ NextTest

Spec == Init /\ [][Next]_codecVars

-------------------------------------------------------------------------------
TypeOK ==
  /\ cut \in Chunkings
  /\ baseline \in BOOLEAN
  /\ pc \in {"start", "compress", "overrun", "packed", "decompress", "unpacked",
             "cleared"}
  /\ i \in 1 .. N + 1
  /\ inb \in Nat /\ outb \in Nat /\ outsize \in Nat
  /\ comprSizes \in [Chunk -> Nat]
  /\ complen \in Nat /\ decomplen \in Nat
  /\ DOMAIN comp = 0 .. CompressBound(InSize) - 1
  /\ DOMAIN decomp = 0 .. InSize - 1
  /\ at \in [1 .. N + 1 -> Nat]
  /\ seen \in BOOLEAN

(* lzbench_compress never returns 0, the value lzbench_test would report as *)
(* compressed size, whatever the codec emits or fails to emit               *)
(* (lzbench_compress, `if (part > outsize) return 0`).                      *)
NeverExhausted == pc = "packed" => complen # 0

(* The same of every chunk list whose overheads PAD_SIZE pays for.          *)
OnlyOverheadsExhaust ==
  N * Overhead <= PadSize => NeverExhausted

(* No call writes outside the buffers: every chunk finds room for its worst *)
(* case while PAD_SIZE pays for the overheads of the chunks so far, so only *)
(* a codec that ignores its room ever leaves compbuf, and only after more   *)
(* chunks than PAD_SIZE pays for; and when a chunk is decoded at most the   *)
(* chunks before it have been written to decomp, whatever lengths the       *)
(* decoders claimed (GET_COMPRESS_BOUND and both chunk loops).              *)
WithinBuffers ==
  /\ pc = "compress" =>
       /\ outb + outsize = IF baseline THEN InSize ELSE CompressBound(InSize)
       /\ i <= N /\ ~baseline /\ i * Overhead <= PadSize =>
            WorstCase(Part(i)) <= outsize
  /\ pc = "overrun" => ~Obedient /\ i * Overhead > PadSize
  /\ pc = "decompress" => outb <= cut[i]

(* A decompression of a whole image reads each chunk exactly where the      *)
(* compression put it, so never past complen, even when decoders misreport  *)
(* the lengths of the chunks before.                                        *)
ReadsAligned ==
  pc = "decompress" /\ complen # 0 =>
    /\ inb = at[i]
    /\ i <= N => inb + comprSizes[i] <= complen

(* A lossless codec always passes verification: stored and coded chunks are *)
(* told apart by size alone, and mixing them restores the input.            *)
RoundTrip ==
  Lossless /\ pc = "unpacked" /\ complen # 0 => Restored /\ decomplen = InSize

-------------------------------------------------------------------------------
(* The two functions are the calls of CodecCalls.                           *)
Word(b) == IF b THEN "equal" ELSE "other"

Calls == INSTANCE CodecCalls WITH
  call   <- IF pc \in {"compress", "overrun"} THEN "compress"
            ELSE IF pc = "decompress" THEN pc ELSE "none",
  image  <- IF complen # 0 THEN "whole" ELSE "none",
  output <- Word(IF pc = "decompress" THEN seen ELSE Restored),
  length <- Word(pc # "start" /\ decomplen = InSize)

(* Each chunk-by-chunk call has the effect lzbench_test relies on, at the   *)
(* moment it returns: see CodecCalls.                                       *)
ImplementsCalls == Calls!CallsSpec
===============================================================================
