----------------------------- MODULE MCBlockStore ------------------------------
(* BlockStore with the two size classes of enum free_space_type and a small file. *)
EXTENDS BlockStore

const_Class == {"static", "dynamic"}
const_MaxBlocks == 5
================================================================================
