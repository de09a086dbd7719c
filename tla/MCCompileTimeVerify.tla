-------------------------- MODULE MCCompileTimeVerify --------------------------
(***************************************************************************)
(* Functions of six instructions: a pointer variable p, a second one or a  *)
(* pointer q that comes from elsewhere, an object or a call w, and three   *)
(* more, the last of them a store.                                         *)
(***************************************************************************)
EXTENDS CompileTimeVerify, TLC

CONSTANTS p, q, w, x, y, z

Values == {p, q, w, x, y, z}
I(op, ptr, args) == [op |-> op, ptr |-> ptr, args |-> args]
Plain(ops) == {I(op, Nothing, {}) : op \in ops}
Loads(ptrs) == {I("load", a, {}) : a \in ptrs}
Of(ops, args) == {I(op, Nothing, {b}) : op \in ops, b \in args}
Stores(ptrs, args) == {I("store", a, {b}) : a \in ptrs, b \in args}

SmallFunctions ==
  {c \in {p :> a @@ q :> b @@ w :> d @@ x :> e @@ y :> f @@ z :> g :
            a \in Plain({"pointer"}), b \in Plain({"pointer", "other"}), d \in Plain({"new", "call"}),
            e \in Loads({p, q}) \cup Of({"bitcast", "gep"}, {p, q, w, y}) \cup Plain({"global", "scalar"}),
            f \in Loads({p, q, x}) \cup Of({"bitcast", "gep", "call"}, {p, q, x}) \cup Stores({p, x}, {q, w}),
            g \in Stores({p, q, x}, {p, w, x, y})} : WellFormed(c)}
===============================================================================
