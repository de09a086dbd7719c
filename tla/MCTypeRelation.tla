---------------------------- MODULE MCTypeRelation ----------------------------
(***************************************************************************)
(* Four types in any order in AllTypeInfo, each with up to two fields or   *)
(* bases, no type inside itself or larger than what it is inside of; some  *)
(* have a field of a type that is not tracked.                             *)
(***************************************************************************)
EXTENDS RuleTable, TLC

CONSTANT Library

Orders == {r \in [0..2 -> 1..3] : \A s, t \in 0..2 : r[s] = r[t] => s = t}
Parts == {S \in SUBSET (0..3) : Cardinality(S) <= 2}

(* Type 3 has no parts among the types; some order of the others puts the   *)
(* parts before the whole.                                                  *)
Structs == {e @@ 3 :> {} : e \in {f \in [0..2 -> Parts] :
  /\ Cardinality(f[0] \cup f[1] \cup f[2]) <= 3
  /\ \E r \in Orders : \A t \in 0..2 : \A u \in f[t] \ {3} : r[u] < r[t]}}

(* A field of a type that is not tracked. *)
WithMember == {[e EXCEPT ![2] = @ \cup {Library}] : e \in Structs}

(* Clang names a base the struct type does not show, or a phantom type. *)
SomeLine == {{}} \cup {{l} : l \in
  [kind : {1}, from : {3}, to : {0, Library}] \cup [kind : {2}, from : {3}, to : {Library}]}

SomeModules == {m \in
  [elements : Structs \cup WithMember, size : [0..3 -> 1..2], lines : SomeLine] :
  \A t \in 0..3 : \A u \in Declared(m, t) : m.size[u] <= m.size[t]}

(* Not in the order of the array, and small enough to be taken for sizes. *)
ScatteredHashes == [t \in 0..3 |-> (2 * t + 3) % 5]
===============================================================================
