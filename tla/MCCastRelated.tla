------------------------------ MODULE MCCastRelated ------------------------------
(***************************************************************************)
(* An instance of CastRelated: a chain of four types of which no module    *)
(* knows every link, so that the list needs a round for each of them, and  *)
(* a type that is related to none.                                         *)
(***************************************************************************)
EXTENDS CastRelated, TLC

CONSTANTS Base, Middle, Derived, Leaf, Other, a, b

Chain == {Base, Middle, Derived, Leaf, Other}
Modules == {a, b}
TwoModules == a :> {Base, Middle, Derived, Leaf} @@ b :> {Middle, Derived, Leaf, Other}
KnownParents ==
  a :> (Base :> {Base} @@ Middle :> {Base, Middle} @@ Derived :> {Derived}
          @@ Leaf :> {Derived, Leaf}) @@
  b :> (Middle :> {Middle} @@ Derived :> {Middle, Derived} @@ Leaf :> {Leaf}
          @@ Other :> {Other})
Nothing == {}
==================================================================================
