------------------------------ MODULE CodecCalls ------------------------------
(***************************************************************************)
(* What lzbench_test needs from lzbench_compress and lzbench_decompress.   *)
(*                                                                         *)
(* The timing loops of lzbench_test call the two functions back to back    *)
(* on the same three buffers and then compare the last output with the     *)
(* input.  All they rely on is kept in two variables: is there a complete  *)
(* compressed image of the input, and does the output buffer hold the      *)
(* input.  ChunkCodec implements this specification chunk by chunk and     *)
(* BenchTest builds the timing loops from its actions.                     *)
(***************************************************************************)
CONSTANTS
  Lossless,   \* TRUE: the codec decodes every stream it encoded
  Roomy,      \* TRUE: whatever the codec emits, compbuf has room for all chunks
  Blank       \* TRUE: inbuf holds nothing but zero bytes, or nothing at all

ASSUME CallsAssumption ==
  Lossless \in BOOLEAN /\ Roomy \in BOOLEAN /\ Blank \in BOOLEAN

VARIABLES
  call,       \* the call in progress, "none" between two calls
  image,      \* compbuf with compr_sizes: "whole" or "none"
  output,     \* decomp against inbuf: "equal" or "other"
  length      \* the last decomplen against insize: "equal" or "other"

callVars == <<call, image, output, length>>

Agreement == {"equal", "other"}

CallsTypeOK ==
  /\ call \in {"none", "compress", "decompress"}
  /\ image \in {"whole", "none"}
  /\ output \in Agreement
  /\ length \in Agreement

(* What the zeroed output buffer looks like next to the input. *)
Cleared == IF Blank THEN "equal" ELSE "other"

CallsInit ==
  /\ call = "none"
  /\ image = "none"
  /\ output = Cleared
  /\ length = "other"

BeginCompress ==
  /\ call = "none"
  /\ call' = "compress"
  /\ UNCHANGED <<image, output, length>>

(* Once compbuf is used up lzbench_compress returns 0 and leaves no image.  *)
EndCompress ==
  /\ call = "compress"
  /\ call' = "none"
  /\ image' \in IF Roomy THEN {"whole"} ELSE {"whole", "none"}
  /\ UNCHANGED <<output, length>>

BeginDecompress ==
  /\ call = "none"
  /\ call' = "decompress"
  /\ UNCHANGED <<image, output, length>>

(* A lossless codec restores the input from a whole image.  Of any other    *)
(* call nothing is known, not even that it wrote into the output buffer.    *)
EndDecompress ==
  /\ call = "decompress"
  /\ call' = "none"
  /\ output' \in Agreement
  /\ length' \in Agreement
  /\ Lossless /\ image = "whole" => output' = "equal" /\ length' = "equal"
  /\ UNCHANGED image

(* memset(decomp, 0, insize) after a verification. *)
ClearOutput ==
  /\ call = "none"
  /\ output' = Cleared
  /\ UNCHANGED <<call, image, length>>

(* The next lzbench_test starts with an empty compr_sizes; nobody clears    *)
(* the buffers for it.                                                      *)
NextTest ==
  /\ call = "none"
  /\ image' = "none"
  /\ length' = "other"
  /\ UNCHANGED <<call, output>>

CallsNext ==
  \/ BeginCompress
  \/ EndCompress
  \/ BeginDecompress
  \/ EndDecompress
  \/ ClearOutput
  \/ NextTest

CallsSpec == CallsInit /\ [][CallsNext]_callVars
===============================================================================
