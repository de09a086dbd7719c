---------------------------- MODULE MCCastVerifier ----------------------------
(***************************************************************************)
(* Instances of CastVerifier.  Derived has parent Base; Other is unrelated *)
(* until a module says that it is a phantom type of Base.                  *)
(***************************************************************************)
EXTENDS CastVerifier, TLC

CONSTANTS Base, Derived, Other

ThreeTypes == {Base, Derived, Other}
Parents == Base :> {Base} @@ Derived :> {Base, Derived} @@ Other :> {Other}
NoPhantoms == [x \in ThreeTypes |-> {}]
LateOne == Base :> {Other} @@ Derived :> {} @@ Other :> {}
PhantomPair == Base :> {Base, Other} @@ Derived :> {} @@ Other :> {Base, Other}

(* All hashes differ in their low bits; two of them agree. *)
DistinctBits == Base :> 1 @@ Derived :> 2 @@ Other :> 3
SharedBits == Base :> 1 @@ Derived :> 1 @@ Other :> 2

OneAddress == {8}
TwoAddresses == {8, 16}
(* The addresses share a slot, or do not. *)
OneSlot == [a \in Addr |-> 1]
SlotEach == [a \in Addr |-> a]

ThreadOffsets == {-1}

(* Threads are alike. *)
AnyThread == Permutations(Thread)
(* No action of a cast looks at the outcomes that have been counted.        *)
ButOutcomes == <<objs, slots, phantom, cache, call, count["verified"], history>>
SmallOffsets == {-1, 8}
===============================================================================
