------------------------------- MODULE MCHexTree -------------------------------
(***************************************************************************)
(* Eight keys; the negative ones are pointers with bit 31 set.  Neighbours *)
(* carry different values, so that a value that follows the wrong key is   *)
(* seen, and one key may carry either value.                               *)
(***************************************************************************)
EXTENDS HexTree

CONSTANTS v1, v2

EightKeys == {-4, -3, -2, -1, 1, 2, 3, 4}
TwoValues == {v1, v2}
Usual(k) == IF k % 2 = 0 THEN v1 ELSE v2

(* Bound: what is inserted, but for key 1, has the usual value. *)
UsualValues == req.op = "insert" => req.key = 1 \/ req.value = Usual(req.key)
===============================================================================
