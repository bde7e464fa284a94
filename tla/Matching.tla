-------------------------------- MODULE Matching --------------------------------
(* The comparisons of Lab1/solution/src/graph.c: compare, property_equal and     *)
(* nodes_equal, on the properties themselves.                                    *)
(*                                                                               *)
(* A stored property is [type, key, val], one of a description has a comparator  *)
(* cmp besides.  An INT is itself, a DOUBLE a multiple of some unit, a string    *)
(* (a key too) its place in the order of strcmp.                                 *)
EXTENDS Integers, Sequences, FiniteSets

CONSTANT Precision  \* DOUBLE_EQUALITY_PRECISION, in the unit of a DOUBLE

ASSUME PrecisionAssumption == Precision \in Nat \ {0}

Type == {"INT", "DOUBLE", "STRING"}
Comparator == {"EQUAL", "GREATER", "LESS", "NOT_EQUAL"}

Asked(p, cmp) == [type |-> p.type, key |-> p.key, val |-> p.val, cmp |-> cmp]

Near(a, b) == a - b < Precision /\ b - a < Precision

(* compare, EQUAL. *)
SameValue(p, q) == IF p.type = "DOUBLE" THEN Near(p.val, q.val) ELSE p.val = q.val

(* Mutant of Compare: the result is negated for EQUAL. *)
CompareNegated(p, q) ==
  \/ q.cmp = "EQUAL" /\ ~SameValue(p, q)
  \/ q.cmp = "NOT_EQUAL" /\ SameValue(p, q)
  \/ q.cmp = "GREATER" /\ p.val > q.val
  \/ q.cmp = "LESS" /\ ~(p.val > q.val)

(* compare: NOT_EQUAL is the negation of EQUAL, LESS that of GREATER. *)
Compare(p, q) ==
  \/ q.cmp = "EQUAL" /\ SameValue(p, q)
  \/ q.cmp = "NOT_EQUAL" /\ ~SameValue(p, q)
  \/ q.cmp = "GREATER" /\ p.val > q.val
  \/ q.cmp = "LESS" /\ ~(p.val > q.val)

(* What property_equal and remove_property look for first. *)
SameKey(p, q) == p.type = q.type /\ p.key = q.key

PropertyEqual(p, q) == SameKey(p, q) /\ Compare(p, q)

(* The places of the stored properties that equal some property of a description.*)
Matched(props, desc) ==
  {i \in DOMAIN props : \E j \in DOMAIN desc : PropertyEqual(props[i], desc[j])}

(* Mutant of Matches: one property in common is enough. *)
MatchesAny(props, desc) == Matched(props, desc) # {} \/ desc = <<>>

(* nodes_equal: the stored properties that match are counted down from the       *)
(* length of the description; the relationships never decide (... || 1).         *)
Matches(props, desc) == Cardinality(Matched(props, desc)) >= Len(desc)
================================================================================
