------------------------------ MODULE MCChunkChain ------------------------------
(* ChunkChain with chunks of two bytes, and strings of one byte, of exactly one  *)
(* chunk, of exactly two and of a little more.                                   *)
EXTENDS ChunkChain

const_D == 2
const_Wrap == 16
const_Strings == {<<7>>, <<1, 2>>, <<3, 4, 5, 6>>, <<1, 2, 3, 4, 5>>}
================================================================================
