----------------------------- MODULE MCNodeMatching -----------------------------
(* NodeMatching with two keys, one of them of every type, and a precision of     *)
(* two: of the three values of a DOUBLE neighbours are near each other and the   *)
(* outer two are not; two values of an INT or a STRING are never equal.          *)
EXTENDS NodeMatching

const_Precision == 2
const_Stored ==
  [type : {"INT"}, key : {1, 2}, val : {1, 2}] \cup [type : {"STRING"}, key : {1}, val : {1, 2}]
    \cup [type : {"DOUBLE"}, key : {1}, val : 1 .. 3]
const_Wanted == {Asked(p, cmp) : p \in const_Stored, cmp \in Comparator}
================================================================================
