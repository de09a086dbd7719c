------------------------------ MODULE Dictionary ------------------------------
(***************************************************************************)
(* What rbtree_lookup, rbtree_insert and rbtree_delete promise: a finite   *)
(* map.  A call is visible from its start to its return; it changes the    *)
(* map at its own key only, and has done so when it returns.               *)
(***************************************************************************)
CONSTANTS Keys, Values, None

VARIABLES dict, req

NoRequest == [op |-> "none", key |-> None, value |-> None]

Init == dict = [k \in Keys |-> None] /\ req = NoRequest

Call(op, k, v) ==
  /\ req = NoRequest
  /\ req' = [op |-> op, key |-> k, value |-> v]
  /\ UNCHANGED dict

Lookup(k) == Call("lookup", k, dict[k])

Effect == IF req.op = "delete" THEN None ELSE req.value

TakeEffect ==
  /\ req.op \in {"insert", "delete"}
  /\ dict' = [dict EXCEPT ![req.key] = Effect]
  /\ UNCHANGED req

(* A call may have its effect at once. *)
CallWithEffect(op, k, v) ==
  /\ req = NoRequest
  /\ req' = [op |-> op, key |-> k, value |-> v]
  /\ dict' = [dict EXCEPT ![k] = v]

Return ==
  /\ req # NoRequest
  /\ dict[req.key] = Effect
  /\ req' = NoRequest
  /\ UNCHANGED dict

Next ==
  \/ \E k \in Keys :
       \/ Lookup(k)
       \/ Call("delete", k, None) \/ CallWithEffect("delete", k, None)
       \/ \E v \in Values : Call("insert", k, v) \/ CallWithEffect("insert", k, v)
  \/ TakeEffect
  \/ Return

Spec == Init /\ [][Next]_<<dict, req>>
===============================================================================
