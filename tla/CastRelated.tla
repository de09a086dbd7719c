------------------------------- MODULE CastRelated -------------------------------
(***************************************************************************)
(* The filter of cast-obj-opt, over the builds it takes.  A build with     *)
(* create-cast-releated-type-list leaves two kinds of files behind: clang  *)
(* writes the source types of the casts it meets, HexTypeTree the types    *)
(* that derive from a listed one.  merge_typecasting_related_type.py makes *)
(* casting_obj.txt of them, which the passes of the next build read.  With *)
(* cast-obj-opt they trace objects of listed types only.                   *)
(***************************************************************************)
CONSTANTS
  Type,      \* names of struct types
  Module,    \* the modules of the program, compiled one by one
  Types,     \* the struct types of each module
  Parents,   \* AllParents in each module: of each type, itself included
  Premade    \* casting_obj.txt as it was copied from etc/, or empty

ASSUME TypesAssumption == Types \in [Module -> SUBSET Type]
ASSUME ParentsAssumption ==
  \A m \in Module : \A x \in Types[m] : Parents[m][x] \subseteq Types[m]
ASSUME PremadeAssumption == Premade \subseteq Type

VARIABLES
  source,     \* what each module casts from, through pointers
  recorded,   \* casting_obj_init_<pid>.txt
  extended,   \* casting_obj_<pid>.txt
  listed,     \* casting_obj.txt
  object,     \* the object file of each module: which types it traces
  \* history of the builds, for the properties
  round,      \* modules compiled for the list since it was last merged
  stable      \* a whole round has added nothing

vars == <<source, recorded, extended, listed, object, round, stable>>

Missing == [stack |-> {}, heap |-> {}, byList |-> FALSE]

Init ==
  /\ source \in [Module -> SUBSET Type]
  /\ \A m \in Module : source[m] \subseteq Types[m]
  /\ recorded = {} /\ extended = {} /\ listed = Premade
  /\ object = [m \in Module |-> Missing]
  /\ round = {} /\ stable = FALSE
-----------------------------------------------------------------------------
(* Mutants: bases of listed types, where types derived from them are meant; *)
(* only what derives from each listed type.                                 *)
ExtendedUpwards(m) == UNION {Parents[m][x] : x \in Types[m] \cap listed}
ExtendedByAll(m) == {x \in Types[m] : listed # {} /\ listed \subseteq Parents[m][x]}

(* CastingRelatedExtendSet: one pass is enough, AllParents being complete. *)
Extended(m) == {x \in Types[m] : Parents[m][x] \cap listed # {}}

(* removeNonCastingRelatedObj *)
Kept(m, related) == Types[m] \cap related

(* Each pass reads the list; HexTypeTree, which traces the heap, extends it. *)
Compile(m, create, filter) ==
  LET extension == IF create THEN Extended(m) ELSE {}
  IN  /\ recorded' = IF create THEN recorded \cup source[m] ELSE recorded
      /\ extended' = extended \cup (extension \ listed)
      /\ object' = [object EXCEPT ![m] =
           [stack |-> IF filter THEN Kept(m, listed) ELSE Types[m],
            heap |-> IF filter THEN Kept(m, listed \cup extension) ELSE Types[m],
            byList |-> filter /\ stable]]
      /\ round' = IF create THEN round \cup {m} ELSE round
      /\ UNCHANGED <<source, listed, stable>>

(* Mutant: the files of the passes are not merged. *)
MergedSourcesOnly == listed \cup recorded

Merged == listed \cup recorded \cup extended

Merge ==
  /\ listed' = Merged
  /\ round' = {}
  /\ stable' = (stable \/ (round = Module /\ listed' = listed))
  /\ UNCHANGED <<source, recorded, extended, object>>

Next ==
  \/ \E m \in Module, create, filter \in BOOLEAN : Compile(m, create, filter)
  \/ Merge

Spec == Init /\ [][Next]_vars
-----------------------------------------------------------------------------
Object == [stack : SUBSET Type, heap : SUBSET Type, byList : BOOLEAN]

TypeOK ==
  /\ source \in [Module -> SUBSET Type] /\ \A m \in Module : source[m] \subseteq Types[m]
  /\ recorded \in SUBSET Type /\ extended \in SUBSET Type /\ listed \in SUBSET Type
  /\ object \in [Module -> Object]
  /\ round \in SUBSET Module /\ stable \in BOOLEAN

(* A set that leaves out no object a cast can be about: it has what is cast *)
(* from, and whatever some module knows to derive from a type in it.        *)
Covers(X) ==
  /\ Premade \subseteq X
  /\ \A m \in Module :
       /\ source[m] \subseteq X
       /\ \A x \in Types[m] : Parents[m][x] \cap X # {} => x \in X

Needed == {x \in Type : \A X \in SUBSET Type : Covers(X) => x \in X}

(* The list never has more than is needed, and all of it as soon as a whole *)
(* round of builds has added nothing: a relation that only one module knows *)
(* may take a further round to reach the types of another                   *)
(* (HexTypeUtil.cpp:451-493).                                               *)
ListExact ==
  /\ recorded \cup extended \cup listed \subseteq Needed
  /\ stable => listed = Needed

(* A module compiled by that list traces, on stack and heap alike, every    *)
(* object that a cast through a pointer can be about.                       *)
CastObjectsTraced ==
  \A m \in Module : object[m].byList =>
    Types[m] \cap Needed \subseteq object[m].stack \cap object[m].heap

(* What one such module registers when it allocates, another removes when   *)
(* it frees: their filters agree on every type both know.                   *)
FreedAsAllocated ==
  \A m, n \in Module : object[m].byList /\ object[n].byList =>
    object[m].heap \cap Types[n] \subseteq object[n].heap
=================================================================================
