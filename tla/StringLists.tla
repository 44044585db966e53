----------------------------- MODULE StringLists -----------------------------
(***************************************************************************)
(* Lists of ids as Environment, Feature and SDKConnection carry them: nil   *)
(* (Nil) or a sequence, compared without order, and left out of the JSON    *)
(* when empty.                                                              *)
(***************************************************************************)
EXTENDS GrowthBookClient, Sequences, FiniteSets

(* The tag "omitempty" on a []string or a map.                              *)
OmitEmpty(list) == IF list = <<>> THEN Nil ELSE list

(* A nil slice has no elements.                                             *)
Elements(list) == IF list = Nil THEN <<>> ELSE list

Occurrences(list, x) == {i \in DOMAIN list : list[i] = x}

(* Sorted copies are equal: each element occurs as often in both.           *)
sameSet(a, b) ==
  /\ Len(a) = Len(b)
  /\ \A i \in DOMAIN a :
       Cardinality(Occurrences(a, a[i])) = Cardinality(Occurrences(b, a[i]))
=============================================================================
