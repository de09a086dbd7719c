----------------------------- MODULE MCHeapTracing -----------------------------
(***************************************************************************)
(* Instance of HeapTracing.  Derived starts with its base and has a member *)
(* of type Base behind it; Plain is not tracked itself but has a member    *)
(* that is.  All addresses share one slot.                                 *)
(***************************************************************************)
EXTENDS HeapTracing

CONSTANTS Base, Derived, Plain

At(o, t) == [offset |-> o, type |-> t]
Types == {Base, Derived, Plain}
TrackedTypes == {Base, Derived}
TypesFields == Base :> <<>> @@ Derived :> <<At(0, Base), At(1, Base)>> @@ Plain :> <<At(1, Base)>>
TypesSize == Base :> 1 @@ Derived :> 2 @@ Plain :> 2
Addresses == 4 .. 6
===============================================================================
