------------------------------- MODULE Chunking -------------------------------
(***************************************************************************)
(* How lzbench_test cuts its input: each file by itself, into chunks of    *)
(* chunk_size bytes and what is left over.                                 *)
(*                                                                         *)
(* As in ChunkCodec the chunks are kept as offsets: chunk_sizes[j] is      *)
(* cut[j + 1] - cut[j].                                                    *)
(***************************************************************************)
EXTENDS Integers, Sequences

CONSTANT
  MaxChunks  \* bound: chunks that there is memory for

ASSUME ChunkingAssumption == MaxChunks \in Nat

VARIABLES
  sizes,     \* file_sizes
  chunk,     \* chunk_size of lzbench_test
  f,         \* the file in hand
  left,      \* tmpsize
  cut,       \* the offsets of the chunks so far and of the end of the last
  cpc,       \* where lzbench_test is
  ends       \* history: offsets of the files' ends, up to the one in hand

chunkVars == <<sizes, chunk, f, left, cut, cpc, ends>>

-------------------------------------------------------------------------------
Smaller(a, b) == IF a < b THEN a ELSE b

ChunkingInit ==
  /\ sizes = <<>> /\ ends = <<0>>
  /\ chunk = 0
  /\ f = 1 /\ left = 0
  /\ cut = <<0>>
  /\ cpc = "idle"

ChunkSize_NoBlockIsZero(chunkSize, insize, maxBlock) ==
  Smaller(Smaller(chunkSize, insize), maxBlock)

(* chunk_size: -b, but no more than the input, nor than the codec takes at  *)
(* a time, if it has such a limit.                                          *)
ChunkSize(chunkSize, insize, maxBlock) ==
  LET c == Smaller(chunkSize, insize)
  IN IF maxBlock # 0 THEN Smaller(c, maxBlock) ELSE c

SplitStart(fileSizes, chunkSize, insize, maxBlock) ==
  /\ cpc = "idle"
  /\ sizes' = fileSizes
  /\ chunk' = ChunkSize(chunkSize, insize, maxBlock)
  /\ f' = 1 /\ left' = 0
  /\ cut' = <<0>> /\ ends' = <<0>>
  /\ cpc' = "file"

Done == cut[Len(cut)]

NextFile ==
  /\ cpc = "file" /\ f <= Len(sizes)
  /\ left' = sizes[f]
  /\ ends' = Append(ends, ends[f] + sizes[f])
  /\ cpc' = "cut"
  /\ UNCHANGED <<sizes, chunk, f, cut>>

CutChunk_Whole ==
  /\ cpc = "cut" /\ left > 0 /\ Len(cut) <= MaxChunks
  /\ cut' = Append(cut, Done + chunk)
  /\ left' = IF left > chunk THEN left - chunk ELSE 0
  /\ UNCHANGED <<sizes, chunk, f, cpc, ends>>

CutChunk ==
  /\ cpc = "cut" /\ left > 0 /\ Len(cut) <= MaxChunks
  /\ cut' = Append(cut, Done + Smaller(left, chunk))
  /\ left' = left - Smaller(left, chunk)
  /\ UNCHANGED <<sizes, chunk, f, cpc, ends>>

(* push_back throws bad_alloc, which nobody catches. *)
OutOfMemory ==
  /\ cpc = "cut" /\ left > 0 /\ Len(cut) > MaxChunks
  /\ cpc' = "aborted"
  /\ UNCHANGED <<sizes, chunk, f, left, cut, ends>>

FileCut ==
  /\ cpc = "cut" /\ left = 0
  /\ f' = f + 1
  /\ cpc' = "file"
  /\ UNCHANGED <<sizes, chunk, left, cut, ends>>

SplitDone ==
  /\ cpc = "file" /\ f > Len(sizes)
  /\ cpc' = "split"
  /\ UNCHANGED <<sizes, chunk, f, left, cut, ends>>

SplitNext ==
  \/ NextFile
  \/ CutChunk
  \/ OutOfMemory
  \/ FileCut
  \/ SplitDone

(* The test goes on to its timing loops and returns. *)
SplitUsed ==
  /\ cpc = "split"
  /\ cpc' = "idle"
  /\ UNCHANGED <<sizes, chunk, f, left, cut, ends>>

ChunkingNext ==
  \/ \E fileSizes \in Seq(Nat), chunkSize, insize, maxBlock \in Nat :
       SplitStart(fileSizes, chunkSize, insize, maxBlock)
  \/ SplitNext
  \/ SplitUsed

ChunkingSpec == ChunkingInit /\ [][ChunkingNext]_chunkVars

-------------------------------------------------------------------------------
ChunkingTypeOK ==
  /\ sizes \in Seq(Nat) /\ ends \in Seq(Nat) /\ cut \in Seq(Nat)
  /\ {chunk, left} \subseteq Nat
  /\ f \in 1 .. Len(sizes) + 1
  /\ cpc \in {"idle", "file", "cut", "split", "aborted"}

(* What ChunkCodec assumes of its chunk lists holds of every list made      *)
(* here: chunks follow each other from 0 to the end of the input and none   *)
(* is empty or longer than the codec or -b allows; and no chunk holds bytes *)
(* of two files.  The exception is a chunk_size of 0, with which the loop   *)
(* at lzbench.cpp:355 never ends and takes all the memory.                  *)
SplitCovers ==
  /\ chunk > 0 =>
       /\ cut[1] = 0
       /\ \A j, k \in 1 .. Len(cut) : j < k => cut[j] < cut[k]
  /\ \A k \in 1 .. Len(cut) - 1 : cut[k + 1] - cut[k] <= chunk
  /\ cpc = "split" =>
       /\ Done = ends[Len(ends)]
       /\ \A k \in 1 .. Len(ends) : \E q \in 1 .. Len(cut) : cut[q] = ends[k]
===============================================================================
