----------------------------- MODULE TypeRelation -----------------------------
(***************************************************************************)
(* createObjRelationInfo: from the structs of a module, and from what clang *)
(* wrote to typeinfo.txt, the compiler derives for every type the types a  *)
(* cast of its objects may name (AllParents, emitted as the type's rule)   *)
(* and its phantom types (AllPhantomTypes, emitted for                     *)
(* __update_phantom_info).  Types are known by their place in AllTypeInfo; *)
(* no two have one hash, so the hash of a type is written as its place.    *)
(***************************************************************************)
EXTENDS Integers

CONSTANTS
  AllTypeNum,  \* the number of tracked types of the module
  Foreign,     \* names of types that are not tracked in this module
  Modules      \* the modules that may be compiled

Types == 0 .. AllTypeNum - 1
Names == Types \cup Foreign

(* elements: the types of the fields and bases of a struct; size: its       *)
(* allocation size; lines: typeinfo.txt, kind 1 for parents, 2 for phantoms. *)
Line == [kind : {1, 2}, from : Names, to : Names]
Module == [elements : [Types -> SUBSET Names], size : [Types -> Nat], lines : SUBSET Line]

ASSUME NumAssumption == AllTypeNum \in Nat \ {0}
ASSUME ForeignAssumption == Foreign \cap Types = {}
ASSUME ModulesAssumption == Modules \subseteq Module

VARIABLES
  module,
  unread,       \* the lines that are still to be read
  parents,      \* DirectParents, with the TypeIndex of each
  phantoms,     \* DirectPhantomTypes, likewise
  allParents, allPhantoms,
  i,            \* the type the loop has come to
  visited,      \* VisitCheck
  calls,        \* the recursive calls that are still to be made
  pc            \* "read", "resolve", "parents", "phantoms" or "done"

direct == <<parents, phantoms>>
vars == <<module, unread, direct, allParents, allPhantoms, i, visited, calls, pc>>

(* An entry of DirectParents or DirectPhantomTypes. *)
Detail == [type : Names, index : Types]
Unresolved(n) == [type |-> n, index |-> 0]
Resolved(t) == [type |-> t, index |-> t]

Init ==
  /\ module \in Modules
  /\ unread = module.lines
  /\ parents = [t \in Types |-> {Unresolved(n) : n \in module.elements[t]}]
  /\ phantoms = [t \in Types |-> {}]
  /\ allParents = [t \in Types |-> {}] /\ allPhantoms = [t \in Types |-> {}]
  /\ i = 0 /\ visited = {} /\ calls = {}
  /\ pc = "read"

Adding(l, kind, entries) ==
  IF l.kind = kind /\ l.from \in Types
  THEN [entries EXCEPT ![l.from] = @ \cup {Unresolved(l.to)}] ELSE entries

ReadLine(l) ==
  /\ pc = "read" /\ l \in unread
  /\ unread' = unread \ {l}
  /\ parents' = Adding(l, 1, parents)
  /\ phantoms' = Adding(l, 2, phantoms)
  /\ UNCHANGED <<module, allParents, allPhantoms, i, visited, calls, pc>>

ReadEnd ==
  /\ pc = "read" /\ unread = {}
  /\ pc' = "resolve"
  /\ UNCHANGED <<module, unread, direct, allParents, allPhantoms, i, visited, calls>>

(* The types the entries of type i name, type i itself excepted. *)
NamedBy == {p.type : p \in parents[i]} \cap (Types \ {i})
SameSize == {t \in NamedBy : module.size[t] = module.size[i]}

(* What the phantoms of type u gain from type i and its parents. *)
OneWay(u) == IF u = i THEN {Resolved(t) : t \in SameSize} ELSE {}  \* mutant
NewPhantoms(u) ==
  IF u = i THEN {Resolved(t) : t \in SameSize}
  ELSE IF u \in SameSize THEN {Resolved(i)} ELSE {}

Resolve ==
  /\ pc = "resolve" /\ i < AllTypeNum
  /\ parents' = [parents EXCEPT ![i] =
       {IF p.type \in NamedBy THEN Resolved(p.type) ELSE p : p \in @}]
  /\ phantoms' = [u \in Types |-> phantoms[u] \cup NewPhantoms(u)]
  /\ i' = i + 1
  /\ UNCHANGED <<module, unread, allParents, allPhantoms, visited, calls, pc>>

(* Calls extendParentSet(t, t) or extendPhantomSet(t, t). *)
Start(routine, t) == pc' = routine /\ i' = t /\ visited' = {} /\ calls' = {t}

ResolveEnd ==
  /\ pc = "resolve" /\ i = AllTypeNum
  /\ Start("parents", 0)
  /\ UNCHANGED <<module, unread, direct, allParents, allPhantoms>>

ParentsOnly(t) == {p.index : p \in parents[t]}  \* mutant
ParentCalls(t) == {p.index : p \in parents[t] \cup phantoms[t]}
PhantomCalls(t) == {p.index : p \in phantoms[t]}

(* The sets do not depend on the order of the calls; the code makes them    *)
(* depth first.                                                             *)
Visit(c, next) ==
  /\ c \in calls \ visited
  /\ visited' = visited \cup {c}
  /\ calls' = (calls \ {c}) \cup next

ExtendParentSet(c) ==
  /\ pc = "parents" /\ Visit(c, ParentCalls(c))
  /\ allParents' = [allParents EXCEPT ![i] = @ \cup {c}]
  /\ UNCHANGED <<module, unread, direct, allPhantoms, i, pc>>

ExtendPhantomSet(c) ==
  /\ pc = "phantoms" /\ Visit(c, PhantomCalls(c))
  /\ allPhantoms' = [allPhantoms EXCEPT ![i] = @ \cup {c}]
  /\ UNCHANGED <<module, unread, direct, allParents, i, pc>>

AlreadyVisited(c) ==
  /\ pc \in {"parents", "phantoms"} /\ c \in calls \cap visited
  /\ calls' = calls \ {c}
  /\ UNCHANGED <<module, unread, direct, allParents, allPhantoms, i, visited, pc>>

ParentsEnd ==
  /\ pc = "parents" /\ calls = {}
  /\ Start("phantoms", i)
  /\ UNCHANGED <<module, unread, direct, allParents, allPhantoms>>

(* Mutant: the loop over the types runs once more. *)
OneTooMany ==
  /\ pc = "phantoms" /\ calls = {}
  /\ \/ i < AllTypeNum /\ Start("parents", i + 1)
     \/ i = AllTypeNum /\ pc' = "done" /\ UNCHANGED <<i, visited, calls>>
  /\ UNCHANGED <<module, unread, direct, allParents, allPhantoms>>

PhantomsEnd ==
  /\ pc = "phantoms" /\ calls = {}
  /\ \/ i + 1 < AllTypeNum /\ Start("parents", i + 1)
     \/ i + 1 = AllTypeNum /\ pc' = "done" /\ UNCHANGED <<i, visited, calls>>
  /\ UNCHANGED <<module, unread, direct, allParents, allPhantoms>>

Next ==
  \/ \E l \in Line : ReadLine(l)
  \/ ReadEnd \/ Resolve \/ ResolveEnd
  \/ \E c \in Types : ExtendParentSet(c) \/ ExtendPhantomSet(c) \/ AlreadyVisited(c)
  \/ ParentsEnd \/ PhantomsEnd

Spec == Init /\ [][Next]_vars
-----------------------------------------------------------------------------
TypeOK ==
  /\ module \in Modules /\ unread \subseteq Line
  /\ parents \in [Types -> SUBSET Detail] /\ phantoms \in [Types -> SUBSET Detail]
  /\ allParents \in [Types -> SUBSET Types] /\ allPhantoms \in [Types -> SUBSET Types]
  /\ i \in 0 .. AllTypeNum /\ visited \subseteq Types /\ calls \subseteq Types
  /\ pc \in {"read", "resolve", "parents", "phantoms", "done"}
  /\ pc \notin {"read", "resolve"} => i \in Types

(* What the module says: the names of a type's fields and bases and those of *)
(* its lines; the other types among them; those of them, or that name it,   *)
(* which are of its size.                                                   *)
Named(m, t) ==
  m.elements[t] \cup {n \in Names : [kind |-> 1, from |-> t, to |-> n] \in m.lines}
Declared(m, t) == Named(m, t) \cap (Types \ {t})
Twins(m, t) == {u \in Types :
  m.size[u] = m.size[t] /\ (u \in Declared(m, t) \/ t \in Declared(m, u))}

(* What it does not say: a name that is no other type of the module, such   *)
(* as a member of a library class, is left with index 0 and so stands for   *)
(* the first type, whichever that is; and so does every phantom line.       *)
Misread(m, t) == IF Named(m, t) \subseteq Types \ {t} THEN {} ELSE {0}
HasPhantomLine(m, t) == \E n \in Names : [kind |-> 2, from |-> t, to |-> n] \in m.lines
MisreadPhantom(m, t) == IF HasPhantomLine(m, t) THEN {0} ELSE {}

(* R is what can be reached from t along succ. *)
Under(S, succ) == \A u \in S : succ[u] \subseteq S
Reached(R, t, succ) ==
  /\ t \in R /\ Under(R, succ)
  /\ \A S \in SUBSET Types : t \in S /\ Under(S, succ) => R \subseteq S

Sideways(m) == [t \in Types |-> Twins(m, t) \cup MisreadPhantom(m, t)]
Upward(m) == [t \in Types |-> Declared(m, t) \cup Misread(m, t) \cup Sideways(m)[t]]

(* The rule of a type holds the types reachable from it by going to a       *)
(* parent, to a type of the same size, or from a type with a name that is   *)
(* not resolved to the first, and no other; its phantom types are those     *)
(* reachable by going to types of the same size or along phantom lines.  So *)
(* a cast no relation of the program allows is in a rule only by way of the *)
(* first type.                                                              *)
SetsExact == pc = "done" => \A t \in Types :
  /\ Reached(allParents[t], t, Upward(module))
  /\ Reached(allPhantoms[t], t, Sideways(module))

(* A type and its phantom types are interchangeable: they have one phantom  *)
(* set and one rule, whichever the object is and whichever the cast names.  *)
(* verifyTypeCasting depends on it: it looks only at the phantom types of   *)
(* the destination.  Phantom lines, which are read one way, would break it; *)
(* names that are not resolved do not.                                      *)
PhantomsAlike ==
  pc = "done" /\ (\A t \in Types : ~HasPhantomLine(module, t)) =>
    \A t \in Types : \A u \in allPhantoms[t] :
      allPhantoms[u] = allPhantoms[t] /\ allParents[u] = allParents[t]
===============================================================================
