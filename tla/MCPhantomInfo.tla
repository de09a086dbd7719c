----------------------------- MODULE MCPhantomInfo -----------------------------
(***************************************************************************)
(* Modules that name one or two phantom types for one type, or one for     *)
(* each of two types.  A record names its own type too, as extendPhantomSet *)
(* collects it, and is only emitted if it names another type.              *)
(***************************************************************************)
EXTENDS PhantomInfo, FiniteSets

FourHashes == 1..4
Naming(sizes) == {r \in Record : r.type \in r.phantoms /\ Cardinality(r.phantoms) \in sizes}
SmallModules ==
  {<<r>> : r \in Naming({2, 3})} \cup
  {m \in Naming({2}) \X Naming({2}) : m[1].type # m[2].type}
===============================================================================
