----------------------------- MODULE MCChunkCodec -----------------------------
(***************************************************************************)
(* Instances of ChunkCodec for TLC.  Real chunks are megabytes and         *)
(* PAD_SIZE is 16 KB; here an input has three bytes, in one to three       *)
(* chunks, and the ratios keep every case apart: a chunk that expands, one *)
(* that shrinks, one emitted at exactly its size, one the codec fails on.  *)
(***************************************************************************)
EXTENDS ChunkCodec

(* One input of three bytes, in one chunk, in two, in three.                *)
ThreeBytes == {<<0, 3>>, <<0, 2, 3>>, <<0, 1, 2, 3>>}

(* Two chunks against one.                                                  *)
TwoOrOne == {<<0, 1, 3>>, <<0, 3>>}
===============================================================================
