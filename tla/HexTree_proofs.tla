---------------------------- MODULE HexTree_proofs ----------------------------
(***************************************************************************)
(* Theorems about the red-black tree, for every set of keys and values and *)
(* trees of every size.                                                    *)
(*                                                                         *)
(* A tree is seen as five functions on its nodes N: left children A, right *)
(* children B, parents P, colours C, and the subtree U of each node; so    *)
(* that left and right can be exchanged, and one lemma serves a case and   *)
(* its mirror image.  Shape says that the pointers make a tree, Ordered    *)
(* that it is a search tree, Balanced that no red node has a red child and *)
(* that the black heights H agree, but for three nodes the cases are about:*)
(*   e  the node that may be red below a red parent (insertion),           *)
(*   d  the node whose subtree lacks one black node (deletion),            *)
(*   v  the victim, which is still there but counts for nothing.           *)
(*                                                                         *)
(* The invariant Inv says of each position of the program which tree it    *)
(* finds.  It is proved in layers: what rotations, recolourings, attaching *)
(* and removing a node do to a tree; that the operators of the model do    *)
(* this; what each case does to a tree s; that each action keeps Inv.      *)
(***************************************************************************)
EXTENDS HexTree, FiniteSetTheorems, WellFoundedInduction, TLAPS

(* A pointer's subtree, given the subtrees of the nodes. *)
Sub(U, x) == IF x = NULL THEN {} ELSE U[x]

(* A tree on N: left children A, right children B, parents P, root r; the   *)
(* subtree of a node is the node and, apart from each other, those of its   *)
(* children.                                                                *)
Typed(N, A, B, P, r) ==
  /\ NULL \notin N
  /\ A \in [N -> N \cup {NULL}] /\ B \in [N -> N \cup {NULL}] /\ P \in [N -> N \cup {NULL}]
  /\ r \in N \cup {NULL}

LinkedAt(A, B, P, r, x) ==
  /\ A[x] # NULL => P[A[x]] = x
  /\ B[x] # NULL => P[B[x]] = x
  /\ P[x] # NULL => x = A[P[x]] \/ x = B[P[x]]
  /\ P[x] = NULL => x = r

SubtreeAt(A, B, U, x) ==
  /\ U[x] = {x} \cup Sub(U, A[x]) \cup Sub(U, B[x])
  /\ x \notin Sub(U, A[x]) /\ x \notin Sub(U, B[x])
  /\ Sub(U, A[x]) \cap Sub(U, B[x]) = {}

Shape(N, A, B, P, r, U) ==
  /\ Typed(N, A, B, P, r)
  /\ U \in [N -> SUBSET N]
  /\ \A x \in N : LinkedAt(A, B, P, r, x)
  /\ \A x \in N : SubtreeAt(A, B, U, x)
  /\ r # NULL => P[r] = NULL
  /\ Sub(U, r) = N

(* E is the order of the names, or its inverse. *)
OrderedAt(A, B, U, E, x) ==
  /\ \A y \in Sub(U, A[x]) : <<y, x>> \in E
  /\ \A y \in Sub(U, B[x]) : <<x, y>> \in E

Ordered(N, A, B, U, E) == \A x \in N : OrderedAt(A, B, U, E, x)

Less == {e \in Int \X Int : e[1] < e[2]}
Greater == {e \in Int \X Int : e[1] > e[2]}

Col(C, x) == IF x = NULL THEN "BLACK" ELSE C[x]

(* The black height of x, where a node v that is to be deleted counts for   *)
(* nothing and what is below d lacks one black node.                        *)
Ht(H, d, x) == (IF x = NULL THEN 0 ELSE H[x]) + (IF x # NULL /\ x = d THEN 1 ELSE 0)

(* At x heights agree and red nodes have black children; nothing is said of *)
(* the colour of e, nor of the children of v.                               *)
BalancedAt(A, B, C, v, e, d, H, x) ==
  /\ Ht(H, d, A[x]) = Ht(H, d, B[x])
  /\ H[x] = Ht(H, d, A[x]) + (IF x # v /\ C[x] = "BLACK" THEN 1 ELSE 0)
  /\ x # v /\ C[x] = "RED" =>
       /\ A[x] # e => Col(C, A[x]) = "BLACK"
       /\ B[x] # e => Col(C, B[x]) = "BLACK"

Balanced(N, A, B, C, v, e, d, H) == \A x \in N : BalancedAt(A, B, C, v, e, d, H, x)

(* A set of natural numbers has a least element. *)
LEMMA LeastNat ==
  ASSUME NEW T \in SUBSET Nat, T # {}
  PROVE  \E x \in T : \A y \in T : x <= y
<1> DEFINE R == OpToRel(<, Nat)
<1>1. IsWellFoundedOn(R, Nat)
  BY NatLessThanWellFounded
<1>2. \A x, y \in Nat : x < y => <<x, y>> \in R
  BY DEF OpToRel
<1> HIDE DEF R
<1>3. PICK x \in T : \A y \in T : ~ (<<y, x>> \in R)
  BY <1>1, WFMin
<1>4. \A y \in T : ~(y < x)
  BY <1>2, <1>3
<1> QED
  BY <1>4
-----------------------------------------------------------------------------
(* A node, its children and its parent are different nodes. *)
LEMMA Kin ==
  ASSUME NEW N, NEW A, NEW B, NEW P, NEW r, NEW U, Shape(N, A, B, P, r, U), NEW x \in N
  PROVE  /\ x \in U[x]
         /\ A[x] \in N \cup {NULL} /\ B[x] \in N \cup {NULL} /\ P[x] \in N \cup {NULL}
         /\ A[x] # x /\ B[x] # x /\ P[x] # x
         /\ A[x] # NULL => A[x] # B[x] /\ P[x] # A[x] /\ A[x] \in Sub(U, A[x])
         /\ B[x] # NULL => P[x] # B[x] /\ B[x] \in Sub(U, B[x])
         /\ x # NULL
<1>1. /\ NULL \notin N
      /\ A \in [N -> N \cup {NULL}] /\ B \in [N -> N \cup {NULL}] /\ P \in [N -> N \cup {NULL}]
      /\ \A y \in N : LinkedAt(A, B, P, r, y)
      /\ \A y \in N : SubtreeAt(A, B, U, y)
  BY DEF Shape, Typed
<1>2. \A y \in N : y \in U[y]
  BY <1>1 DEF SubtreeAt
<1>3. A[x] \in N \cup {NULL} /\ B[x] \in N \cup {NULL} /\ P[x] \in N \cup {NULL}
  BY <1>1
<1>4. A[x] # x /\ B[x] # x /\ (A[x] # NULL => A[x] # B[x])
  BY <1>1, <1>2, <1>3 DEF SubtreeAt, Sub
<1>5. ASSUME P[x] # NULL PROVE P[x] # x /\ P[x] # A[x] /\ P[x] # B[x]
  <2>1. P[x] \in N
    BY <1>3, <1>5
  <2>2. x = A[P[x]] \/ x = B[P[x]]
    BY <1>1, <1>5 DEF LinkedAt
  <2>3. P[x] # x
    BY <1>1, <1>2, <2>1, <2>2 DEF SubtreeAt, Sub
  <2>4. x \in U[P[x]] /\ P[x] \notin U[x]
    BY <1>1, <1>2, <2>1, <2>2 DEF SubtreeAt, Sub
  <2>5. \A c \in N : c = A[x] \/ c = B[x] => c \in U[x]
    BY <1>1, <1>2 DEF SubtreeAt, Sub
  <2> QED
    BY <2>1, <2>3, <2>4, <2>5
<1> QED
  BY <1>1, <1>2, <1>3, <1>4, <1>5 DEF Sub

(* Each node is the child of one node, on one side. *)
LEMMA OneParent ==
  ASSUME NEW N, NEW A, NEW B, NEW P, NEW r, NEW U, Shape(N, A, B, P, r, U),
         NEW x \in N, NEW y \in N
  PROVE  /\ A[x] = y \/ B[x] = y => P[y] = x
         /\ A[x] = A[y] => x = y \/ A[x] = NULL
         /\ B[x] = B[y] => x = y \/ B[x] = NULL
         /\ A[x] = B[y] => A[x] = NULL
<1>1. \A z \in N : LinkedAt(A, B, P, r, z) /\ z # NULL
  BY DEF Shape, Typed
<1>2. A[x] = y \/ B[x] = y => P[y] = x
  BY <1>1 DEF LinkedAt
<1>3. A[x] = A[y] => x = y \/ A[x] = NULL
  BY <1>1 DEF LinkedAt
<1>4. B[x] = B[y] => x = y \/ B[x] = NULL
  BY <1>1 DEF LinkedAt
<1>5. A[x] = B[y] => A[x] = NULL
  BY <1>1, Kin DEF LinkedAt
<1> QED
  BY <1>2, <1>3, <1>4, <1>5

(* The mirror image of a tree is a tree. *)
LEMMA Mirror ==
  ASSUME NEW N, NEW A, NEW B, NEW P, NEW r, NEW U, Shape(N, A, B, P, r, U)
  PROVE  Shape(N, B, A, P, r, U)
<1>1. Typed(N, B, A, P, r)
  BY DEF Shape, Typed
<1>2. \A x \in N : LinkedAt(B, A, P, r, x)
  BY DEF Shape, LinkedAt
<1>3. \A x \in N : SubtreeAt(B, A, U, x)
  BY DEF Shape, SubtreeAt
<1> QED
  BY <1>1, <1>2, <1>3 DEF Shape

(* Induction over a tree: a set that has each node whose children it has    *)
(* has all nodes.                                                           *)
LEMMA TreeInduction ==
  ASSUME NEW N, NEW A, NEW B, NEW P, NEW r, NEW U, Shape(N, A, B, P, r, U), IsFiniteSet(N),
         NEW S,
         \A x \in N : (A[x] \in S \cup {NULL}) /\ (B[x] \in S \cup {NULL}) => x \in S
  PROVE  N \subseteq S
<1> SUFFICES ASSUME NEW z \in N, z \notin S PROVE FALSE
  OBVIOUS
<1> DEFINE Size(x) == Cardinality(U[x])
           T == {Size(x) : x \in N \ S}
<1>1. \A x \in N : IsFiniteSet(U[x]) /\ Size(x) \in Nat
  <2> TAKE x \in N
  <2>1. U[x] \subseteq N
    BY DEF Shape
  <2>2. IsFiniteSet(U[x])
    BY <2>1, FS_Subset
  <2> QED
    BY <2>2, FS_CardinalityType
<1>2. T \in SUBSET Nat /\ T # {}
  BY <1>1
<1>3. PICK m \in T : \A y \in T : m <= y
  BY <1>2, LeastNat
<1>4. PICK x \in N \ S : m = Size(x)
  OBVIOUS
<1>5. \A y \in N \ S : Size(x) <= Size(y)
  BY <1>3, <1>4
<1>6. ASSUME NEW y \in N, y = A[x] \/ y = B[x] PROVE y \in S
  <2>1. U[y] \subseteq U[x] /\ x \in U[x] /\ x \notin U[y]
    BY <1>6, Kin DEF Shape, SubtreeAt, Sub
  <2>2. Size(y) <= Size(x) /\ (Size(y) = Size(x) => U[y] = U[x])
    <3>1. IsFiniteSet(U[x])
      BY <1>1
    <3>2. Cardinality(U[y]) <= Cardinality(U[x])
      BY <2>1, <3>1, FS_Subset
    <3>3. Cardinality(U[x]) = Cardinality(U[y]) => U[y] = U[x]
      BY <2>1, <3>1, FS_Subset
    <3> QED
      BY <3>2, <3>3
  <2>3. Size(y) # Size(x)
    BY <2>1, <2>2
  <2>4. Size(y) \in Nat /\ Size(x) \in Nat
    BY <1>1
  <2> HIDE DEF Size
  <2> QED
    BY <1>5, <2>2, <2>3, <2>4
<1>7. A[x] \in S \cup {NULL} /\ B[x] \in S \cup {NULL}
  BY <1>6, Kin
<1> QED
  BY <1>7

(* A node is in a subtree with all that is below it, and so is its parent   *)
(* unless it is the subtree's root.                                         *)
LEMMA Nested ==
  ASSUME NEW N, NEW A, NEW B, NEW P, NEW r, NEW U, Shape(N, A, B, P, r, U), IsFiniteSet(N),
         NEW x \in N, NEW y \in U[x]
  PROVE  U[y] \subseteq U[x] /\ y \in N
<1> DEFINE S == {z \in N : \A w \in U[z] : U[w] \subseteq U[z]}
<1>1. ASSUME NEW z \in N, A[z] \in S \cup {NULL}, B[z] \in S \cup {NULL}
      PROVE  z \in S
  <2> SUFFICES ASSUME NEW w \in U[z] PROVE U[w] \subseteq U[z]
    OBVIOUS
  <2>1. w = z \/ w \in Sub(U, A[z]) \/ w \in Sub(U, B[z])
    BY DEF Shape, SubtreeAt
  <2>2. Sub(U, A[z]) \subseteq U[z] /\ Sub(U, B[z]) \subseteq U[z]
    BY DEF Shape, SubtreeAt
  <2> QED
    BY <1>1, <2>1, <2>2 DEF Sub
<1> HIDE DEF S
<1>2. N \subseteq S
  BY <1>1, TreeInduction
<1> QED
  BY <1>2 DEF S, Shape
-----------------------------------------------------------------------------
(* The fields after rotate_left of x with right child y; with left and      *)
(* right exchanged, after rotate_right.                                     *)
Rotated(N, A, B, P, r, x, y, A2, B2, P2, r2) ==
  /\ y = B[x]
  /\ A2 \in [N -> N \cup {NULL}] /\ B2 \in [N -> N \cup {NULL}] /\ P2 \in [N -> N \cup {NULL}]
  /\ \A z \in N : A2[z] = IF z = y THEN x ELSE IF A[z] = x THEN y ELSE A[z]
  /\ \A z \in N : B2[z] = IF z = x THEN A[y] ELSE IF B[z] = x THEN y ELSE B[z]
  /\ \A z \in N : P2[z] = IF z = x THEN y ELSE IF z = y THEN P[x]
                          ELSE IF z = A[y] THEN x ELSE P[z]
  /\ r2 = IF P[x] = NULL THEN y ELSE r

RotatedSubtrees(N, A, U, x, y) ==
  [z \in N |-> IF z = y THEN U[x]
               ELSE IF z = x THEN {x} \cup Sub(U, A[x]) \cup Sub(U, A[y]) ELSE U[z]]

(* A rotation keeps the shape of the tree. *)
LEMMA RotateShape ==
  ASSUME NEW N, NEW A, NEW B, NEW P, NEW r, NEW U, Shape(N, A, B, P, r, U),
         NEW x \in N, NEW y \in N,
         NEW A2, NEW B2, NEW P2, NEW r2, Rotated(N, A, B, P, r, x, y, A2, B2, P2, r2)
  PROVE  Shape(N, A2, B2, P2, r2, RotatedSubtrees(N, A, U, x, y))
<1>0. y = B[x]
  BY DEF Rotated
<1> USE <1>0
<1> DEFINE U2 == RotatedSubtrees(N, A, U, x, y)
<1>1. /\ NULL \notin N /\ U \in [N -> SUBSET N]
      /\ A \in [N -> N \cup {NULL}] /\ B \in [N -> N \cup {NULL}] /\ P \in [N -> N \cup {NULL}]
      /\ \A z \in N : LinkedAt(A, B, P, r, z) /\ SubtreeAt(A, B, U, z)
      /\ r \in N \cup {NULL} /\ (r # NULL => P[r] = NULL) /\ Sub(U, r) = N
  BY DEF Shape, Typed
<1>2. /\ A2 \in [N -> N \cup {NULL}] /\ B2 \in [N -> N \cup {NULL}] /\ P2 \in [N -> N \cup {NULL}]
      /\ \A z \in N : A2[z] = IF z = y THEN x ELSE IF A[z] = x THEN y ELSE A[z]
      /\ \A z \in N : B2[z] = IF z = x THEN A[y] ELSE IF B[z] = x THEN y ELSE B[z]
      /\ \A z \in N : P2[z] = IF z = x THEN y ELSE IF z = y THEN P[x]
                              ELSE IF z = A[y] THEN x ELSE P[z]
      /\ r2 = IF P[x] = NULL THEN y ELSE r
  BY DEF Rotated
<1>3. \A z \in N : U2[z] = IF z = y THEN U[x]
               ELSE IF z = x THEN {x} \cup Sub(U, A[x]) \cup Sub(U, A[y]) ELSE U[z]
  BY DEF RotatedSubtrees
<1>4. /\ x # y /\ x # A[y] /\ x # B[y] /\ x # A[x] /\ y # A[x] /\ x # B[x] /\ y # A[y] /\ y # B[y]
      /\ P[x] # x /\ P[x] # y /\ P[y] = x
      /\ x \in U[x] /\ y \in U[y] /\ x \notin U[y] /\ y \notin Sub(U, A[x])
      /\ x # NULL /\ y # NULL
  <2>1. P[y] = x /\ x # NULL /\ y # NULL
    BY <1>1, <1>2 DEF LinkedAt
  <2>2. x # y /\ x # A[x] /\ y # A[x] /\ P[x] # x /\ P[x] # y /\ x \in U[x]
    BY <2>1, Kin
  <2>3. y # A[y] /\ y # B[y] /\ y \in U[y]
    BY Kin
  <2>4. x # A[y] /\ x # B[y]
    BY <2>1, <2>2, Kin
  <2>5. x \notin U[y] /\ y \notin Sub(U, A[x])
    BY <1>1, <2>1, <2>3 DEF SubtreeAt, Sub
  <2> QED
    BY <2>1, <2>2, <2>3, <2>4, <2>5
<1>5. Typed(N, A2, B2, P2, r2)
  BY <1>1, <1>2 DEF Typed
<1>6. U2 \in [N -> SUBSET N]
  <2>1. Sub(U, A[x]) \subseteq N /\ Sub(U, A[y]) \subseteq N
    BY <1>1 DEF Sub
  <2> QED
    BY <1>1, <2>1 DEF RotatedSubtrees
<1> HIDE DEF U2
<1>7. ASSUME NEW z \in N PROVE LinkedAt(A2, B2, P2, r2, z)
  <2>1. A2[z] # NULL => P2[A2[z]] = z
    <3>1. CASE z = y
      BY <1>2, <1>4, <3>1
    <3>2. CASE z # y /\ A[z] = x
      BY <1>1, <1>2, <1>4, <3>2 DEF LinkedAt
    <3>3. CASE z # y /\ A[z] # x /\ A[z] # NULL
      <4>1. A[z] \in N /\ P[A[z]] = z /\ A2[z] = A[z]
        BY <1>1, <1>2, <3>3 DEF LinkedAt
      <4>2. A[z] # y
        BY <1>4, <3>3, <4>1
      <4>3. A[z] # A[y]
        BY <1>1, <3>3, <4>1 DEF LinkedAt
      <4> QED
        BY <1>2, <3>3, <4>1, <4>2, <4>3
    <3>4. CASE z # y /\ A[z] = NULL
      BY <1>2, <1>4, <3>4
    <3> QED
      BY <3>1, <3>2, <3>3, <3>4
  <2>2. B2[z] # NULL => P2[B2[z]] = z
    <3>1. CASE z = x
      BY <1>2, <1>4, <3>1, Kin
    <3>2. CASE z # x /\ B[z] = x
      BY <1>1, <1>2, <1>4, <3>2 DEF LinkedAt
    <3>3. CASE z # x /\ B[z] # x /\ B[z] # NULL
      <4>1. B[z] \in N /\ P[B[z]] = z /\ B2[z] = B[z]
        BY <1>1, <1>2, <3>3 DEF LinkedAt
      <4>2. B[z] # y
        BY <1>4, <3>3, <4>1
      <4>3. B[z] # A[y]
        BY <3>3, OneParent
      <4> QED
        BY <1>2, <3>3, <4>1, <4>2, <4>3
    <3>4. CASE z # x /\ B[z] = NULL
      BY <1>2, <1>4, <3>4
    <3> QED
      BY <3>1, <3>2, <3>3, <3>4
  <2>3. P2[z] # NULL => z = A2[P2[z]] \/ z = B2[P2[z]]
    <3>1. CASE z = x
      BY <1>2, <1>4, <3>1
    <3>2. CASE z = y /\ P[x] # NULL
      <4>1. P2[z] = P[x] /\ P[x] \in N
        BY <1>1, <1>2, <1>4, <3>2
      <4>2. x = A[P[x]] \/ x = B[P[x]]
        BY <1>1, <3>2 DEF LinkedAt
      <4> QED
        BY <1>2, <1>4, <3>2, <4>1, <4>2
    <3>3. CASE z = A[y]
      BY <1>2, <1>4, <3>3
    <3>4. CASE z # x /\ z # y /\ z # A[y] /\ P[z] # NULL
      <4>1. P2[z] = P[z] /\ P[z] \in N /\ (z = A[P[z]] \/ z = B[P[z]])
        BY <1>1, <1>2, <3>4 DEF LinkedAt
      <4>2. P[z] = y => z = B[P[z]]
        BY <3>4, <4>1
      <4>3. P[z] = x => z = A[P[z]]
        BY <3>4, <4>1
      <4> QED
        BY <1>2, <1>4, <3>4, <4>1, <4>2, <4>3
    <3>5. CASE z = y /\ P[x] = NULL
      BY <1>2, <1>4, <3>5
    <3>6. CASE z # x /\ z # y /\ z # A[y] /\ P[z] = NULL
      BY <1>2, <3>6
    <3> QED
      BY <3>1, <3>2, <3>3, <3>4, <3>5, <3>6
  <2>4. P2[z] = NULL => z = r2
    BY <1>1, <1>2, <1>4 DEF LinkedAt
  <2> QED
    BY <2>1, <2>2, <2>3, <2>4 DEF LinkedAt
<1>8. ASSUME NEW z \in N PROVE SubtreeAt(A2, B2, U2, z)
  <2>0. /\ SubtreeAt(A, B, U, x) /\ SubtreeAt(A, B, U, y) /\ SubtreeAt(A, B, U, z)
    BY <1>1
  <2>1. \A c \in N : c # x /\ c # y => Sub(U2, c) = Sub(U, c)
    BY <1>3 DEF Sub
  <2>2. Sub(U2, y) = U[x] /\ Sub(U2, x) = {x} \cup Sub(U, A[x]) \cup Sub(U, A[y])
    BY <1>3, <1>4 DEF Sub
  <2>3. Sub(U2, NULL) = Sub(U, NULL) /\ Sub(U, y) = U[y]
    BY <1>4 DEF Sub
  <2>4. U[x] = {x} \cup Sub(U, A[x]) \cup U[y] /\ U[y] = {y} \cup Sub(U, A[y]) \cup Sub(U, B[y])
    BY <2>0, <2>3 DEF SubtreeAt
  <2>5. /\ x \notin Sub(U, A[x]) /\ Sub(U, A[x]) \cap U[y] = {}
        /\ y \notin Sub(U, A[y]) /\ y \notin Sub(U, B[y]) /\ Sub(U, A[y]) \cap Sub(U, B[y]) = {}
    BY <2>0, <2>3 DEF SubtreeAt
  <2>6. CASE z = x
    <3>1. A2[z] = A[x] /\ B2[z] = A[y]
      BY <1>2, <1>4, <2>6
    <3>2. Sub(U2, A[x]) = Sub(U, A[x]) /\ Sub(U2, A[y]) = Sub(U, A[y])
      BY <1>1, <1>4, <2>1, <2>3
    <3>3. U2[z] = {x} \cup Sub(U, A[x]) \cup Sub(U, A[y])
      BY <1>3, <1>4, <2>6
    <3> QED
      BY <1>4, <2>4, <2>5, <2>6, <3>1, <3>2, <3>3 DEF SubtreeAt
  <2>7. CASE z = y
    <3>1. A2[z] = x /\ B2[z] = B[y]
      BY <1>2, <1>4, <2>7
    <3>2. Sub(U2, B[y]) = Sub(U, B[y])
      BY <1>1, <1>4, <2>1, <2>3
    <3>3. U2[z] = U[x]
      BY <1>3, <1>4, <2>7
    <3> QED
      BY <1>4, <2>2, <2>4, <2>5, <2>7, <3>1, <3>2, <3>3 DEF SubtreeAt
  <2>8. CASE z # x /\ z # y
    <3>1. Sub(U2, A2[z]) = Sub(U, A[z])
      <4>1. CASE A[z] = x
        BY <1>2, <1>4, <2>2, <2>8, <4>1 DEF Sub
      <4>2. CASE A[z] # x
        <5>1. A[z] # y /\ A2[z] = A[z]
          BY <1>1, <1>2, <1>4, <2>8, <4>2 DEF LinkedAt
        <5> QED
          BY <1>1, <2>1, <2>3, <4>2, <5>1
      <4> QED
        BY <4>1, <4>2
    <3>2. Sub(U2, B2[z]) = Sub(U, B[z])
      <4>1. CASE B[z] = x
        BY <1>2, <1>4, <2>2, <2>8, <4>1 DEF Sub
      <4>2. CASE B[z] # x
        <5>1. B[z] # y /\ B2[z] = B[z]
          BY <1>1, <1>2, <1>4, <2>8, <4>2 DEF LinkedAt
        <5> QED
          BY <1>1, <2>1, <2>3, <4>2, <5>1
      <4> QED
        BY <4>1, <4>2
    <3>3. U2[z] = U[z]
      BY <1>3, <2>8
    <3> QED
      BY <2>0, <3>1, <3>2, <3>3 DEF SubtreeAt
  <2> QED
    BY <2>6, <2>7, <2>8
<1>9. (r2 # NULL => P2[r2] = NULL) /\ Sub(U2, r2) = N
  <2>1. CASE P[x] = NULL
    <3>1. r2 = y /\ r = x
      BY <1>1, <1>2, <2>1 DEF LinkedAt
    <3> QED
      BY <1>1, <1>2, <1>3, <1>4, <2>1, <3>1 DEF Sub
  <2>2. CASE P[x] # NULL
    <3>1. r2 = r /\ r # x /\ r # y /\ r # NULL
      BY <1>1, <1>2, <1>4, <2>2 DEF Sub
    <3>2. r # A[y]
      BY <1>1, <1>4, <3>1 DEF LinkedAt
    <3> QED
      BY <1>1, <1>2, <1>3, <3>1, <3>2 DEF Sub
  <2> QED
    BY <2>1, <2>2
<1> QED
  BY <1>5, <1>6, <1>7, <1>8, <1>9 DEF Shape, U2

(* In order of E, which is as good as transitive at x. *)
LEMMA RotateOrder ==
  ASSUME NEW N, NEW A, NEW B, NEW P, NEW r, NEW U, Shape(N, A, B, P, r, U),
         NEW x \in N, NEW y \in N,
         NEW A2, NEW B2, NEW P2, NEW r2, Rotated(N, A, B, P, r, x, y, A2, B2, P2, r2),
         NEW E, Ordered(N, A, B, U, E),
         \A a, b, c \in N : <<a, b>> \in E /\ <<b, c>> \in E => <<a, c>> \in E
  PROVE  Ordered(N, A2, B2, RotatedSubtrees(N, A, U, x, y), E)
<1>0. y = B[x]
  BY DEF Rotated
<1> USE <1>0
<1> DEFINE U2 == RotatedSubtrees(N, A, U, x, y)
<1>1. /\ NULL \notin N /\ U \in [N -> SUBSET N]
      /\ A \in [N -> N \cup {NULL}] /\ B \in [N -> N \cup {NULL}]
      /\ \A z \in N : LinkedAt(A, B, P, r, z) /\ SubtreeAt(A, B, U, z)
  BY DEF Shape, Typed
<1>2. /\ \A z \in N : A2[z] = IF z = y THEN x ELSE IF A[z] = x THEN y ELSE A[z]
      /\ \A z \in N : B2[z] = IF z = x THEN A[y] ELSE IF B[z] = x THEN y ELSE B[z]
  BY DEF Rotated
<1>3. \A z \in N : U2[z] = IF z = y THEN U[x]
               ELSE IF z = x THEN {x} \cup Sub(U, A[x]) \cup Sub(U, A[y]) ELSE U[z]
  BY DEF RotatedSubtrees
<1>4. /\ x # y /\ x # A[y] /\ x # B[y] /\ x # A[x] /\ y # A[x] /\ y # A[y] /\ y # B[y]
      /\ P[y] = x /\ x \in U[x] /\ y \in U[y] /\ x # NULL /\ y # NULL
  <2>1. P[y] = x /\ x # NULL /\ y # NULL
    BY <1>1 DEF LinkedAt
  <2> QED
    BY <2>1, Kin
<1> HIDE DEF U2
<1>5. ASSUME NEW z \in N PROVE OrderedAt(A2, B2, U2, E, z)
  <2>0. SubtreeAt(A, B, U, x) /\ SubtreeAt(A, B, U, y)
    BY <1>1
  <2>1. \A c \in N : c # x /\ c # y => Sub(U2, c) = Sub(U, c)
    BY <1>3 DEF Sub
  <2>2. Sub(U2, y) = U[x] /\ Sub(U2, x) = {x} \cup Sub(U, A[x]) \cup Sub(U, A[y])
    BY <1>3, <1>4 DEF Sub
  <2>3. Sub(U2, NULL) = Sub(U, NULL) /\ Sub(U, y) = U[y] /\ Sub(U, x) = U[x]
    BY <1>4 DEF Sub
  <2>4. U[y] = {y} \cup Sub(U, A[y]) \cup Sub(U, B[y])
    BY <2>0, <2>3 DEF SubtreeAt
  <2>5. \A c \in N \cup {NULL} : Sub(U, c) \subseteq N
    BY <1>1 DEF Sub
  <2>6. OrderedAt(A, B, U, E, x) /\ OrderedAt(A, B, U, E, y) /\ OrderedAt(A, B, U, E, z)
    BY DEF Ordered
  <2>7. CASE z = x
    <3>1. A2[z] = A[x] /\ B2[z] = A[y]
      BY <1>2, <1>4, <2>7
    <3>2. Sub(U2, A[x]) = Sub(U, A[x]) /\ Sub(U2, A[y]) = Sub(U, A[y])
      BY <1>1, <1>4, <2>1, <2>3
    <3> QED
      BY <2>3, <2>4, <2>6, <2>7, <3>1, <3>2 DEF OrderedAt
  <2>8. CASE z = y
    <3>1. A2[z] = x /\ B2[z] = B[y]
      BY <1>2, <1>4, <2>8
    <3>2. Sub(U2, B[y]) = Sub(U, B[y])
      BY <1>1, <1>4, <2>1, <2>3
    <3>3. <<x, y>> \in E
      BY <1>4, <2>3, <2>6 DEF OrderedAt
    <3>4. \A w \in Sub(U, A[x]) : <<w, y>> \in E
      BY <1>1, <2>5, <2>6, <3>3 DEF OrderedAt
    <3>5. \A w \in Sub(U, A[y]) : <<w, y>> \in E
      BY <2>6 DEF OrderedAt
    <3> QED
      BY <2>2, <2>6, <2>8, <3>1, <3>2, <3>3, <3>4, <3>5 DEF OrderedAt
  <2>9. CASE z # x /\ z # y
    <3>1. Sub(U2, A2[z]) = Sub(U, A[z])
      <4>1. CASE A[z] = x
        BY <1>2, <1>4, <2>2, <2>9, <4>1 DEF Sub
      <4>2. CASE A[z] # x
        <5>1. A[z] # y /\ A2[z] = A[z]
          BY <1>1, <1>2, <1>4, <2>9, <4>2 DEF LinkedAt
        <5> QED
          BY <1>1, <2>1, <2>3, <4>2, <5>1
      <4> QED
        BY <4>1, <4>2
    <3>2. Sub(U2, B2[z]) = Sub(U, B[z])
      <4>1. CASE B[z] = x
        BY <1>2, <1>4, <2>2, <2>9, <4>1 DEF Sub
      <4>2. CASE B[z] # x
        <5>1. B[z] # y /\ B2[z] = B[z]
          BY <1>1, <1>2, <1>4, <2>9, <4>2 DEF LinkedAt
        <5> QED
          BY <1>1, <2>1, <2>3, <4>2, <5>1
      <4> QED
        BY <4>1, <4>2
    <3> QED
      BY <2>6, <3>1, <3>2 DEF OrderedAt
  <2> QED
    BY <2>7, <2>8, <2>9
<1> QED
  BY <1>5 DEF Ordered, U2
-----------------------------------------------------------------------------
(* Colours and heights before and after, but for x, y and the node f below  *)
(* y: what a rotation at x may change without any other node noticing.      *)
Alike(N, B, P, x, y, f, e, e2, C, C2, d, d2, H, H2, z) ==
  /\ z \notin {x, y, f}
  /\ f = NULL \/ f = B[y]
  /\ e2 = e \/ (e \in N /\ P[e] \in {x, y})
  /\ \A w \in N \ {x, y, f} : C2[w] = C[w]
  /\ C2[y] = "BLACK" \/ (C2[y] = C[x] /\ x # e)
  /\ d \notin {x, y}
  /\ d2 = d \/ (d2 = NULL /\ d \in N /\ P[d] \in {x, y})
  /\ H \in [N -> Nat] /\ H2[y] = H[x]
  /\ \A w \in N \ {x, y, f} : H2[w] = H[w]

(* Where a rotation, with changes of colour at x, y and the node f below y, *)
(* leaves the balance alone.                                                *)
LEMMA RotateElsewhere ==
  ASSUME NEW N, NEW A, NEW B, NEW P, NEW r, NEW U, Shape(N, A, B, P, r, U),
         NEW x \in N, NEW y \in N,
         NEW A2, NEW B2, NEW P2, NEW r2, Rotated(N, A, B, P, r, x, y, A2, B2, P2, r2),
         NEW f, NEW v, NEW e, NEW e2, NEW C, NEW C2, NEW d, NEW d2, NEW H, NEW H2,
         NEW z \in N, Alike(N, B, P, x, y, f, e, e2, C, C2, d, d2, H, H2, z),
         BalancedAt(A, B, C, v, e, d, H, z)
  PROVE  BalancedAt(A2, B2, C2, v, e2, d2, H2, z)
<1>1. /\ NULL \notin N /\ y = B[x]
      /\ A \in [N -> N \cup {NULL}] /\ B \in [N -> N \cup {NULL}]
      /\ \A w \in N : LinkedAt(A, B, P, r, w)
  BY DEF Shape, Typed, Rotated
<1>2. /\ z \notin {x, y, f} /\ y = B[x]
      /\ f = NULL \/ f = B[y]
      /\ e2 = e \/ (e \in N /\ P[e] \in {x, y})
      /\ \A w \in N \ {x, y, f} : C2[w] = C[w]
      /\ C2[y] = "BLACK" \/ (C2[y] = C[x] /\ x # e)
      /\ d \notin {x, y}
      /\ d2 = d \/ (d2 = NULL /\ d \in N /\ P[d] \in {x, y})
      /\ H \in [N -> Nat] /\ H2[y] = H[x]
      /\ \A w \in N \ {x, y, f} : H2[w] = H[w]
  BY DEF Alike, Rotated
<1>3. P[y] = x /\ x # y /\ y # NULL
  BY <1>2, <1>1, Kin DEF LinkedAt
<1>4. ASSUME NEW c \in N, P[c] = z, c # x
      PROVE  /\ Ht(H2, d2, c) = Ht(H, d, c) /\ Col(C2, c) = Col(C, c)
             /\ c # e2 => c # e
  <2>1. c \notin {x, y, f}
    BY <1>2, <1>1, <1>3, <1>4 DEF LinkedAt
  <2>2. H2[c] = H[c] /\ C2[c] = C[c] /\ c # NULL
    BY <1>2, <1>1, <2>1
  <2>3. c = d2 <=> c = d
    BY <1>2, <1>1, <1>3, <1>4
  <2>4. c = e => e2 = e
    BY <1>2, <1>3, <1>4
  <2> QED
    BY <2>2, <2>3, <2>4 DEF Ht, Col
<1>5. /\ Ht(H2, d2, y) = Ht(H, d, x)
      /\ (x # e => Col(C, x) = "BLACK") => Col(C2, y) = "BLACK"
  <2>1. y # d2 /\ x # d /\ x # NULL
    BY <1>2, <1>1, <1>3
  <2> QED
    BY <1>2, <1>3, <2>1 DEF Ht, Col
<1>6. Ht(H2, d2, NULL) = Ht(H, d, NULL) /\ Col(C2, NULL) = "BLACK"
  BY DEF Ht, Col
<1>7. ASSUME NEW c \in N \cup {NULL}, c # NULL => P[c] = z,
             NEW c2, c2 = IF c = x THEN y ELSE c
      PROVE  /\ Ht(H2, d2, c2) = Ht(H, d, c)
             /\ (c # e => Col(C, c) = "BLACK") => (c2 # e2 => Col(C2, c2) = "BLACK")
  <2>1. CASE c = NULL
    BY <1>1, <1>6, <1>7, <2>1
  <2>2. CASE c = x
    BY <1>5, <1>7, <2>2
  <2>3. CASE c # NULL /\ c # x
    BY <1>4, <1>7, <2>3
  <2> QED
    BY <2>1, <2>2, <2>3
<1>8. A2[z] = (IF A[z] = x THEN y ELSE A[z]) /\ B2[z] = (IF B[z] = x THEN y ELSE B[z])
  BY <1>2 DEF Rotated
<1>9. /\ A[z] \in N \cup {NULL} /\ (A[z] # NULL => P[A[z]] = z)
      /\ B[z] \in N \cup {NULL} /\ (B[z] # NULL => P[B[z]] = z)
  BY <1>1 DEF LinkedAt
<1>10. /\ Ht(H2, d2, A2[z]) = Ht(H, d, A[z])
       /\ (A[z] # e => Col(C, A[z]) = "BLACK") => (A2[z] # e2 => Col(C2, A2[z]) = "BLACK")
  BY <1>7, <1>8, <1>9
<1>11. /\ Ht(H2, d2, B2[z]) = Ht(H, d, B[z])
       /\ (B[z] # e => Col(C, B[z]) = "BLACK") => (B2[z] # e2 => Col(C2, B2[z]) = "BLACK")
  BY <1>7, <1>8, <1>9
<1>12. H2[z] = H[z] /\ C2[z] = C[z]
  BY <1>2
<1> QED
  BY <1>10, <1>11, <1>12 DEF BalancedAt

HeightsTyped(N, H) == H \in [N -> Nat]

(* Black x and its red child y exchange their colours. *)
Exchange(N, A, P, x, y, v, e, e2, C, C2, d) ==
  /\ e2 = e \/ (e \in N /\ P[e] = y)
  /\ v \notin {x, y} /\ e # A[y] /\ d \notin {x, y}
  /\ C[x] = "BLACK" /\ C[y] = "RED" /\ (A[x] = e2 \/ Col(C, A[x]) = "BLACK")
  /\ \A z \in N : C2[z] = IF z = x THEN "RED" ELSE IF z = y THEN "BLACK" ELSE C[z]

(* The rotation at x of a black x and its red child y, which exchange their *)
(* colours: in insert_case5, delete_case2 and delete_case5.                 *)
LEMMA RotateRed ==
  ASSUME NEW N, NEW A, NEW B, NEW P, NEW r, NEW U, Shape(N, A, B, P, r, U),
         NEW x \in N, NEW y \in N,
         NEW A2, NEW B2, NEW P2, NEW r2, Rotated(N, A, B, P, r, x, y, A2, B2, P2, r2),
         NEW v, NEW e, NEW e2, NEW C, NEW C2, NEW d, Exchange(N, A, P, x, y, v, e, e2, C, C2, d),
         NEW H, HeightsTyped(N, H), Balanced(N, A, B, C, v, e, d, H)
  PROVE  \E H2 : HeightsTyped(N, H2) /\ Balanced(N, A2, B2, C2, v, e2, d, H2)
<1>0. /\ y = B[x] /\ (e2 = e \/ (e \in N /\ P[e] = y))
      /\ v \notin {x, y} /\ e # A[y] /\ d \notin {x, y}
      /\ C[x] = "BLACK" /\ C[y] = "RED" /\ (A[x] = e2 \/ Col(C, A[x]) = "BLACK")
      /\ \A z \in N : C2[z] = IF z = x THEN "RED" ELSE IF z = y THEN "BLACK" ELSE C[z]
  BY DEF Rotated, Exchange
<1> USE <1>0
<1>1. /\ NULL \notin N
      /\ A \in [N -> N \cup {NULL}] /\ B \in [N -> N \cup {NULL}]
      /\ \A w \in N : LinkedAt(A, B, P, r, w)
  BY DEF Shape, Typed, Rotated
<1>2. /\ x # y /\ x # A[y] /\ x # B[y] /\ y # A[x] /\ x # A[x] /\ y # A[y] /\ y # B[y]
      /\ P[y] = x /\ x # NULL /\ y # NULL
  <2>1. P[y] = x /\ y # NULL
    BY <1>1 DEF LinkedAt
  <2> QED
    BY <1>1, <2>1, Kin
<1>3. /\ A2[x] = A[x] /\ B2[x] = A[y] /\ A2[y] = x /\ B2[y] = B[y]
  BY <1>2 DEF Rotated
<1>4. BalancedAt(A, B, C, v, e, d, H, x) /\ BalancedAt(A, B, C, v, e, d, H, y)
  BY DEF Balanced
<1>5. H \in [N -> Nat]
  BY DEF HeightsTyped
<1> DEFINE H2 == [z \in N |-> IF z = x THEN H[y] ELSE IF z = y THEN H[x] ELSE H[z]]
<1>6. \A z \in N : H2[z] = IF z = x THEN H[y] ELSE IF z = y THEN H[x] ELSE H[z]
  OBVIOUS
<1>7. HeightsTyped(N, H2)
  BY <1>5 DEF HeightsTyped
<1> HIDE DEF H2
<1>8. \A c : c \in {A[x], A[y], B[y]} =>
        Ht(H2, d, c) = Ht(H, d, c) /\ Col(C2, c) = Col(C, c)
  <2> SUFFICES ASSUME NEW c \in {A[x], A[y], B[y]}
               PROVE  Ht(H2, d, c) = Ht(H, d, c) /\ Col(C2, c) = Col(C, c)
    OBVIOUS
  <2>1. c # x /\ c # y /\ c \in N \cup {NULL}
    BY <1>1, <1>2
  <2> QED
    BY <1>1, <1>6, <2>1 DEF Ht, Col
<1>9. Ht(H, d, y) = H[y] /\ Ht(H2, d, x) = H[y]
  BY <1>2, <1>5, <1>6 DEF Ht
<1>10. /\ Ht(H, d, A[x]) = H[y] /\ H[x] = H[y] + 1
       /\ Ht(H, d, A[y]) = H[y] /\ Ht(H, d, B[y]) = H[y]
  <2>1. Ht(H, d, A[y]) \in Nat
    BY <1>1, <1>5 DEF Ht
  <2>2. H[x] \in Nat /\ H[y] \in Nat
    BY <1>5
  <2> QED
    BY <1>4, <1>9, <2>1, <2>2 DEF BalancedAt
<1>11. Col(C, A[y]) = "BLACK"
  BY <1>4 DEF BalancedAt
<1>12. BalancedAt(A2, B2, C2, v, e2, d, H2, x)
  <2>1. C2[x] = "RED" /\ H2[x] = H[y] /\ H[y] \in Nat
    BY <1>5, <1>6
  <2> QED
    BY <1>3, <1>8, <1>10, <1>11, <2>1 DEF BalancedAt
<1>13. BalancedAt(A2, B2, C2, v, e2, d, H2, y)
  <2>1. C2[y] = "BLACK" /\ H2[y] = H[y] + 1 /\ H[y] \in Nat
    BY <1>2, <1>5, <1>6, <1>10
  <2> QED
    BY <1>3, <1>8, <1>9, <1>10, <2>1 DEF BalancedAt
<1>14. ASSUME NEW z \in N, z # x, z # y PROVE BalancedAt(A2, B2, C2, v, e2, d, H2, z)
  <2>1. BalancedAt(A, B, C, v, e, d, H, z)
    BY DEF Balanced
  <2>2. C2[y] = "BLACK" /\ H2[y] = H[x]
    BY <1>2, <1>6
  <2>3. z \notin {x, y, NULL}
    BY <1>1, <1>14
  <2>4. Alike(N, B, P, x, y, NULL, e, e2, C, C2, d, d, H, H2, z)
    BY <1>5, <1>6, <2>2, <2>3 DEF Alike
  <2> QED
    BY <2>1, <2>4, RotateElsewhere
<1> QED
  BY <1>7, <1>12, <1>13, <1>14 DEF Balanced

(* The rotation of two red nodes, the lower of which may: insert_case4.     *)
LEMMA RotateReds ==
  ASSUME NEW N, NEW A, NEW B, NEW P, NEW r, NEW U, Shape(N, A, B, P, r, U),
         NEW x \in N, NEW y \in N,
         NEW A2, NEW B2, NEW P2, NEW r2, Rotated(N, A, B, P, r, x, y, A2, B2, P2, r2),
         NEW C, C[x] = "RED", C[y] = "RED",
         NEW H, HeightsTyped(N, H), Balanced(N, A, B, C, NULL, y, NULL, H)
  PROVE  Balanced(N, A2, B2, C, NULL, x, NULL, H)
<1>0. y = B[x]
  BY DEF Rotated
<1> USE <1>0
<1>1. /\ NULL \notin N
      /\ A \in [N -> N \cup {NULL}] /\ B \in [N -> N \cup {NULL}]
      /\ \A w \in N : LinkedAt(A, B, P, r, w)
  BY DEF Shape, Typed, Rotated
<1>2. /\ x # y /\ x # A[y] /\ x # B[y] /\ y # A[x] /\ x # A[x] /\ y # A[y] /\ y # B[y]
      /\ P[y] = x /\ x # NULL /\ y # NULL
  <2>1. P[y] = x /\ y # NULL
    BY <1>1 DEF LinkedAt
  <2> QED
    BY <1>1, <2>1, Kin
<1>3. /\ A2[x] = A[x] /\ B2[x] = A[y] /\ A2[y] = x /\ B2[y] = B[y]
  BY <1>2 DEF Rotated
<1>4. BalancedAt(A, B, C, NULL, y, NULL, H, x) /\ BalancedAt(A, B, C, NULL, y, NULL, H, y)
  BY DEF Balanced
<1>5. H \in [N -> Nat]
  BY DEF HeightsTyped
<1>6. Ht(H, NULL, y) = H[y] /\ Ht(H, NULL, x) = H[x]
  BY <1>2, <1>5 DEF Ht
<1>7. /\ Ht(H, NULL, A[x]) = H[y] /\ H[x] = H[y]
      /\ Ht(H, NULL, A[y]) = H[y] /\ Ht(H, NULL, B[y]) = H[y]
  <2>1. Ht(H, NULL, A[y]) \in Nat /\ Ht(H, NULL, A[x]) \in Nat
    BY <1>1, <1>5 DEF Ht
  <2>2. H[x] \in Nat /\ H[y] \in Nat
    BY <1>5
  <2> QED
    BY <1>4, <1>6, <2>1, <2>2 DEF BalancedAt
<1>8. Col(C, A[x]) = "BLACK" /\ Col(C, A[y]) = "BLACK" /\ Col(C, B[y]) = "BLACK"
  BY <1>1, <1>2, <1>4 DEF BalancedAt
<1>9. H[y] \in Nat
  BY <1>5
<1>10. BalancedAt(A2, B2, C, NULL, x, NULL, H, x)
  BY <1>3, <1>7, <1>8, <1>9 DEF BalancedAt
<1>11. BalancedAt(A2, B2, C, NULL, x, NULL, H, y)
  BY <1>3, <1>6, <1>7, <1>8, <1>9 DEF BalancedAt
<1>12. ASSUME NEW z \in N, z # x, z # y PROVE BalancedAt(A2, B2, C, NULL, x, NULL, H, z)
  <2>1. BalancedAt(A, B, C, NULL, y, NULL, H, z)
    BY DEF Balanced
  <2>2. C[y] = C[x] /\ H[y] = H[x]
    BY <1>7
  <2>3. z \notin {x, y, NULL} /\ NULL \notin {x, y}
    BY <1>1, <1>12
  <2>4. Alike(N, B, P, x, y, NULL, y, x, C, C, NULL, NULL, H, H, z)
    BY <1>2, <1>5, <2>2, <2>3 DEF Alike
  <2> QED
    BY <2>1, <2>4, RotateElsewhere
<1> QED
  BY <1>10, <1>11, <1>12 DEF Balanced

(* The rotation at x, below which d lacks a black node, of a black y with a *)
(* red outer child f: delete_case6.                                         *)
RedNephew(N, A, B, x, d, y, f, v, C, C2) ==
  /\ f = B[y] /\ d = A[x] /\ v \notin {x, y, A[y], f}
  /\ C \in [N -> Color] /\ C[y] = "BLACK" /\ C[f] = "RED"
  /\ \A z \in N : C2[z] = IF z = y THEN C[x] ELSE IF z \in {x, f} THEN "BLACK" ELSE C[z]

(* A rotation at the parent x that lifts the black sibling y of d, whose    *)
(* nephew f is red: no black node lacks any more.                           *)
LEMMA RotateSibling ==
  ASSUME NEW N, NEW A, NEW B, NEW P, NEW r, NEW U, Shape(N, A, B, P, r, U),
         NEW x \in N, NEW y \in N,
         NEW A2, NEW B2, NEW P2, NEW r2, Rotated(N, A, B, P, r, x, y, A2, B2, P2, r2),
         NEW f \in N, NEW d \in N, NEW v, NEW C, NEW C2, RedNephew(N, A, B, x, d, y, f, v, C, C2),
         NEW H, HeightsTyped(N, H), Balanced(N, A, B, C, v, v, d, H)
  PROVE  \E H2 : HeightsTyped(N, H2) /\ Balanced(N, A2, B2, C2, v, v, NULL, H2)
<1>0. /\ y = B[x] /\ f = B[y] /\ d = A[x] /\ v \notin {x, y, A[y], f}
      /\ C \in [N -> Color] /\ C[y] = "BLACK" /\ C[f] = "RED"
      /\ \A z \in N : C2[z] = IF z = y THEN C[x] ELSE IF z \in {x, f} THEN "BLACK" ELSE C[z]
  BY DEF Rotated, RedNephew
<1> USE <1>0
<1>1. /\ NULL \notin N
      /\ A \in [N -> N \cup {NULL}] /\ B \in [N -> N \cup {NULL}]
      /\ \A w \in N : LinkedAt(A, B, P, r, w)
  BY DEF Shape, Typed, Rotated
<1>2. /\ x # y /\ x # A[y] /\ x # f /\ y # d /\ x # d /\ y # A[y] /\ y # f
      /\ P[y] = x /\ P[f] = y /\ P[d] = x /\ x # NULL /\ y # NULL /\ d # f /\ d # A[y] /\ A[y] # f
      /\ A[f] \notin {x, y, d, f} /\ B[f] \notin {x, y, d, f}
  <2>1. P[y] = x /\ P[f] = y /\ P[d] = x /\ x # NULL /\ y # NULL /\ f # NULL
    BY <1>1 DEF LinkedAt
  <2>2. /\ x # y /\ x # A[y] /\ x # f /\ y # d /\ x # d /\ y # A[y] /\ y # f /\ A[y] # f
    BY <1>1, <2>1, Kin
  <2>3. d # f /\ d # A[y]
    BY <1>1, <2>1, <2>2 DEF LinkedAt
  <2>4. A[f] \notin {x, y, d, f} /\ B[f] \notin {x, y, d, f}
    <3>1. A[f] # y /\ B[f] # y /\ A[f] # f /\ B[f] # f
      BY <1>1, <2>1, <2>2, Kin
    <3>2. A[f] # d /\ B[f] # d
      BY <2>1, <2>2, OneParent
    <3>3. A[f] # x /\ B[f] # x
      <4>1. x \notin U[y] /\ f \in U[y] /\ x \in U[x]
        <5>1. SubtreeAt(A, B, U, x) /\ SubtreeAt(A, B, U, y)
          BY DEF Shape
        <5>2. x \notin U[y]
          BY <2>1, <5>1 DEF SubtreeAt, Sub
        <5>3. f \in Sub(U, B[y])
          BY <2>1, Kin
        <5> QED
          BY <5>1, <5>2, <5>3, Kin DEF SubtreeAt
      <4>2. SubtreeAt(A, B, U, f) /\ SubtreeAt(A, B, U, y)
        BY DEF Shape
      <4>3. U[f] \subseteq U[y]
        BY <2>1, <4>2 DEF SubtreeAt, Sub
      <4> QED
        BY <2>1, <4>1, <4>2, <4>3 DEF SubtreeAt, Sub
    <3> QED
      BY <3>1, <3>2, <3>3
  <2> QED
    BY <2>1, <2>2, <2>3, <2>4
<1>3. /\ A2[x] = d /\ B2[x] = A[y] /\ A2[y] = x /\ B2[y] = f /\ A2[f] = A[f] /\ B2[f] = B[f]
  BY <1>2 DEF Rotated
<1>4. /\ BalancedAt(A, B, C, v, v, d, H, x) /\ BalancedAt(A, B, C, v, v, d, H, y)
      /\ BalancedAt(A, B, C, v, v, d, H, f)
  BY DEF Balanced
<1>5. H \in [N -> Nat]
  BY DEF HeightsTyped
<1> DEFINE H2 == [z \in N |-> IF z = x THEN H[y] ELSE IF z = y THEN H[x]
                              ELSE IF z = f THEN H[f] + 1 ELSE H[z]]
<1>6. \A z \in N : H2[z] = IF z = x THEN H[y] ELSE IF z = y THEN H[x]
                           ELSE IF z = f THEN H[f] + 1 ELSE H[z]
  OBVIOUS
<1>7. HeightsTyped(N, H2)
  BY <1>5 DEF HeightsTyped
<1> HIDE DEF H2
<1>8. \A c : c \in {A[y], A[f], B[f]} =>
        Ht(H2, NULL, c) = Ht(H, d, c) /\ Col(C2, c) = Col(C, c)
  <2> SUFFICES ASSUME NEW c \in {A[y], A[f], B[f]}
               PROVE  Ht(H2, NULL, c) = Ht(H, d, c) /\ Col(C2, c) = Col(C, c)
    OBVIOUS
  <2>1. c # x /\ c # y /\ c # f /\ c # d /\ c \in N \cup {NULL}
    BY <1>1, <1>2
  <2> QED
    BY <1>1, <1>6, <2>1 DEF Ht, Col
<1>9. /\ Ht(H, d, y) = H[y] /\ Ht(H, d, d) = H[d] + 1 /\ Ht(H, d, f) = H[f]
      /\ Ht(H2, NULL, x) = H[y] /\ Ht(H2, NULL, f) = H[f] + 1 /\ Ht(H2, NULL, d) = H[d]
  <2>1. H[y] \in Nat /\ H[d] \in Nat /\ H[f] \in Nat /\ d # NULL /\ f # NULL
    BY <1>1, <1>5
  <2>2. H2[x] = H[y] /\ H2[f] = H[f] + 1 /\ H2[d] = H[d]
    BY <1>2, <1>6
  <2> QED
    BY <1>2, <2>1, <2>2 DEF Ht
<1>10. /\ H[y] = H[d] + 1 /\ Ht(H, d, A[y]) = H[d] /\ H[f] = H[d]
       /\ Ht(H, d, A[f]) = H[d] /\ Ht(H, d, B[f]) = H[d]
       /\ H[x] = H[d] + 1 + (IF C[x] = "BLACK" THEN 1 ELSE 0)
  <2>1. Ht(H, d, A[y]) \in Nat /\ Ht(H, d, A[f]) \in Nat
    BY <1>1, <1>5 DEF Ht
  <2>2. H[x] \in Nat /\ H[y] \in Nat /\ H[f] \in Nat /\ H[d] \in Nat
    BY <1>5
  <2>3. H[y] = H[d] + 1
    BY <1>4, <1>9, <2>2 DEF BalancedAt
  <2>4. Ht(H, d, A[y]) = H[f] /\ H[y] = H[f] + 1
    BY <1>4, <1>9, <2>1, <2>2 DEF BalancedAt
  <2>5. H[f] = Ht(H, d, A[f]) /\ Ht(H, d, A[f]) = Ht(H, d, B[f])
    BY <1>4, <2>1, <2>2 DEF BalancedAt
  <2>6. H[x] = H[d] + 1 + (IF C[x] = "BLACK" THEN 1 ELSE 0)
    BY <1>4, <1>9 DEF BalancedAt
  <2> QED
    BY <2>2, <2>3, <2>4, <2>5, <2>6
<1>11. H[d] \in Nat /\ C[x] \in Color
  BY <1>5
<1>12. BalancedAt(A2, B2, C2, v, v, NULL, H2, x)
  <2>1. C2[x] = "BLACK" /\ H2[x] = H[d] + 1
    BY <1>2, <1>6, <1>10
  <2> QED
    BY <1>3, <1>8, <1>9, <1>10, <1>11, <2>1 DEF BalancedAt
<1>13. BalancedAt(A2, B2, C2, v, v, NULL, H2, y)
  <2>1. C2[y] = C[x] /\ H2[y] = H[x]
    BY <1>2, <1>6
  <2>2. Col(C2, x) = "BLACK" /\ Col(C2, f) = "BLACK"
    BY <1>1, <1>2 DEF Col
  <2>3. Ht(H2, NULL, x) = H[d] + 1 /\ Ht(H2, NULL, f) = H[d] + 1
    BY <1>9, <1>10
  <2>4. v # y
    OBVIOUS
  <2> QED
    BY <1>3, <1>10, <1>11, <2>1, <2>2, <2>3, <2>4 DEF BalancedAt
<1>14. BalancedAt(A2, B2, C2, v, v, NULL, H2, f)
  <2>1. C2[f] = "BLACK" /\ H2[f] = H[d] + 1 /\ v # f
    BY <1>2, <1>6, <1>10
  <2>2. Ht(H2, NULL, A[f]) = H[d] /\ Ht(H2, NULL, B[f]) = H[d]
    BY <1>8, <1>10
  <2> QED
    BY <1>3, <1>11, <2>1, <2>2 DEF BalancedAt
<1>15. ASSUME NEW z \in N, z \notin {x, y, f} PROVE BalancedAt(A2, B2, C2, v, v, NULL, H2, z)
  <2>1. BalancedAt(A, B, C, v, v, d, H, z)
    BY DEF Balanced
  <2>2. C2[y] = C[x] /\ H2[y] = H[x] /\ x # v /\ d \notin {x, y} /\ P[d] \in {x, y}
    BY <1>2, <1>6
  <2>3. Alike(N, B, P, x, y, f, v, v, C, C2, d, NULL, H, H2, z)
    BY <1>5, <1>6, <1>15, <2>2 DEF Alike
  <2> QED
    BY <2>1, <2>3, RotateElsewhere
<1> QED
  BY <1>7, <1>12, <1>13, <1>14, <1>15 DEF Balanced
-----------------------------------------------------------------------------
(* What holds of a tree holds with left and right exchanged. *)
LEMMA MirrorBalance ==
  ASSUME NEW N, NEW A, NEW B, NEW C, NEW v, NEW e, NEW d, NEW H,
         Balanced(N, A, B, C, v, e, d, H)
  PROVE  Balanced(N, B, A, C, v, e, d, H)
<1> SUFFICES ASSUME NEW x \in N PROVE BalancedAt(B, A, C, v, e, d, H, x)
  BY DEF Balanced
<1>1. BalancedAt(A, B, C, v, e, d, H, x)
  BY DEF Balanced
<1> QED
  BY <1>1 DEF BalancedAt

LEMMA MirrorOrder ==
  ASSUME NEW N \in SUBSET Int, NEW A, NEW B, NEW P, NEW r, NEW U, Shape(N, A, B, P, r, U)
  PROVE  Ordered(N, A, B, U, Less) <=> Ordered(N, B, A, U, Greater)
<1>1. \A x, y \in N : <<x, y>> \in Less <=> <<y, x>> \in Greater
  BY DEF Less, Greater
<1>2. \A x \in N : Sub(U, A[x]) \subseteq N /\ Sub(U, B[x]) \subseteq N
  BY DEF Shape, Typed, Sub
<1> QED
  BY <1>1, <1>2 DEF Ordered, OrderedAt

LEMMA Transitive ==
  ASSUME NEW N \in SUBSET Int, NEW E \in {Less, Greater}
  PROVE  \A a, b, c \in N : <<a, b>> \in E /\ <<b, c>> \in E => <<a, c>> \in E
BY DEF Less, Greater

(* The root may be made black: insert_case1, and the end of rbtree_delete.  *)
RootBlackened(N, r, e, C, C2) ==
  /\ e = r \/ e = NULL
  /\ \A z \in N : C2[z] = IF z = r THEN "BLACK" ELSE C[z]

(* The root turns black. *)
LEMMA BlackenRoot ==
  ASSUME NEW N, NEW A, NEW B, NEW P, NEW r \in N, NEW U, Shape(N, A, B, P, r, U),
         NEW C, NEW C2, NEW e, RootBlackened(N, r, e, C, C2),
         NEW H, HeightsTyped(N, H), Balanced(N, A, B, C, NULL, e, NULL, H)
  PROVE  \E H2 : HeightsTyped(N, H2) /\ Balanced(N, A, B, C2, NULL, NULL, NULL, H2)
<1>0. (e = r \/ e = NULL) /\ \A z \in N : C2[z] = IF z = r THEN "BLACK" ELSE C[z]
  BY DEF RootBlackened
<1> USE <1>0
<1>1. /\ NULL \notin N
      /\ A \in [N -> N \cup {NULL}] /\ B \in [N -> N \cup {NULL}]
      /\ \A w \in N : LinkedAt(A, B, P, r, w)
      /\ P[r] = NULL
  BY DEF Shape, Typed
<1>2. H \in [N -> Nat]
  BY DEF HeightsTyped
<1>3. \A z \in N : A[z] # r /\ B[z] # r
  BY <1>1 DEF LinkedAt
<1> DEFINE H2 == [z \in N |-> IF z = r THEN Ht(H, NULL, A[r]) + 1 ELSE H[z]]
<1>4. Ht(H, NULL, A[r]) \in Nat
  BY <1>1, <1>2 DEF Ht
<1>5. HeightsTyped(N, H2)
  BY <1>2, <1>4 DEF HeightsTyped
<1>6. \A z \in N : H2[z] = IF z = r THEN Ht(H, NULL, A[r]) + 1 ELSE H[z]
  OBVIOUS
<1> HIDE DEF H2
<1>7. ASSUME NEW c \in N \cup {NULL}, c # r
      PROVE  Ht(H2, NULL, c) = Ht(H, NULL, c) /\ Col(C2, c) = Col(C, c)
  BY <1>1, <1>6, <1>7 DEF Ht, Col
<1>8. ASSUME NEW z \in N PROVE BalancedAt(A, B, C2, NULL, NULL, NULL, H2, z)
  <2>1. BalancedAt(A, B, C, NULL, e, NULL, H, z)
    BY DEF Balanced
  <2>2. /\ A[z] \in N \cup {NULL} /\ A[z] # r
        /\ B[z] \in N \cup {NULL} /\ B[z] # r
    BY <1>1, <1>3
  <2>3. /\ Ht(H2, NULL, A[z]) = Ht(H, NULL, A[z]) /\ Col(C2, A[z]) = Col(C, A[z])
        /\ Ht(H2, NULL, B[z]) = Ht(H, NULL, B[z]) /\ Col(C2, B[z]) = Col(C, B[z])
    BY <1>7, <2>2
  <2>4. Col(C, NULL) = "BLACK"
    BY DEF Col
  <2>5. CASE z = r
    BY <1>1, <1>6, <2>1, <2>3, <2>5 DEF BalancedAt
  <2>6. CASE z # r
    BY <1>6, <2>1, <2>2, <2>3, <2>4, <2>6 DEF BalancedAt
  <2> QED
    BY <2>5, <2>6
<1> QED
  BY <1>5, <1>8 DEF Balanced

(* insert_case3: a black node g hands its colour to its red children, one   *)
(* of which has a red child e.                                              *)
RedChildren(N, A, B, P, g, e, C, C2) ==
  /\ A[g] \in N /\ B[g] \in N /\ (P[e] = A[g] \/ P[e] = B[g])
  /\ C[g] = "BLACK" /\ C[A[g]] = "RED" /\ C[B[g]] = "RED"
  /\ \A z \in N : C2[z] = IF z = g THEN "RED"
                           ELSE IF z \in {A[g], B[g]} THEN "BLACK" ELSE C[z]

(* A red uncle and a red parent turn black, the grandparent g red: g may now*)
(* have a red parent.                                                       *)
LEMMA RecolourInsert ==
  ASSUME NEW N, NEW A, NEW B, NEW P, NEW r, NEW U, Shape(N, A, B, P, r, U),
         NEW g \in N, NEW e \in N, NEW C, NEW C2, RedChildren(N, A, B, P, g, e, C, C2),
         NEW H, HeightsTyped(N, H), Balanced(N, A, B, C, NULL, e, NULL, H)
  PROVE  \E H2 : HeightsTyped(N, H2) /\ Balanced(N, A, B, C2, NULL, g, NULL, H2)
<1>0. /\ A[g] \in N /\ B[g] \in N /\ (P[e] = A[g] \/ P[e] = B[g])
      /\ C[g] = "BLACK" /\ C[A[g]] = "RED" /\ C[B[g]] = "RED"
      /\ \A z \in N : C2[z] = IF z = g THEN "RED"
                               ELSE IF z \in {A[g], B[g]} THEN "BLACK" ELSE C[z]
  BY DEF RedChildren
<1> USE <1>0
<1>1. /\ NULL \notin N
      /\ A \in [N -> N \cup {NULL}] /\ B \in [N -> N \cup {NULL}]
      /\ \A w \in N : LinkedAt(A, B, P, r, w)
  BY DEF Shape, Typed
<1>2. H \in [N -> Nat]
  BY DEF HeightsTyped
<1>3. PICK p \in N, u \in N : p = A[g] /\ u = B[g]
  OBVIOUS
<1>4. /\ p # g /\ u # g /\ p # u /\ P[p] = g /\ P[u] = g /\ g # NULL
  BY <1>1, <1>3, Kin DEF LinkedAt
<1> DEFINE H2 == [z \in N |-> IF z \in {p, u} THEN H[z] + 1 ELSE H[z]]
<1>5. HeightsTyped(N, H2)
  BY <1>2 DEF HeightsTyped
<1>6. \A z \in N : H2[z] = IF z \in {p, u} THEN H[z] + 1 ELSE H[z]
  OBVIOUS
<1> HIDE DEF H2
<1>7. ASSUME NEW c \in N \cup {NULL}, c \notin {p, u}
      PROVE  Ht(H2, NULL, c) = Ht(H, NULL, c) /\ (c # g => Col(C2, c) = Col(C, c))
  BY <1>1, <1>3, <1>6, <1>7 DEF Ht, Col
<1>8. Ht(H, NULL, p) = H[p] /\ Ht(H, NULL, u) = H[u]
      /\ Ht(H2, NULL, p) = H[p] + 1 /\ Ht(H2, NULL, u) = H[u] + 1
  BY <1>1, <1>2, <1>6 DEF Ht
<1>9. BalancedAt(A, B, C2, NULL, g, NULL, H2, g)
  <2>1. BalancedAt(A, B, C, NULL, e, NULL, H, g)
    BY DEF Balanced
  <2>2. H[p] \in Nat /\ H[u] \in Nat /\ H[g] \in Nat
    BY <1>2
  <2>3. H[p] = H[u] /\ H[g] = H[p] + 1
    BY <1>3, <1>4, <1>8, <2>1, <2>2 DEF BalancedAt
  <2>4. H2[g] = H[g] /\ C2[g] = "RED" /\ Col(C2, p) = "BLACK" /\ Col(C2, u) = "BLACK"
    BY <1>1, <1>3, <1>4, <1>6 DEF Col
  <2> QED
    BY <1>3, <1>8, <2>2, <2>3, <2>4 DEF BalancedAt
<1>10. ASSUME NEW z \in {p, u} PROVE BalancedAt(A, B, C2, NULL, g, NULL, H2, z)
  <2>1. BalancedAt(A, B, C, NULL, e, NULL, H, z)
    BY DEF Balanced
  <2>2. /\ A[z] \in N \cup {NULL} /\ A[z] \notin {p, u}
        /\ B[z] \in N \cup {NULL} /\ B[z] \notin {p, u}
    BY <1>1, <1>4 DEF LinkedAt
  <2>3. Ht(H2, NULL, A[z]) = Ht(H, NULL, A[z]) /\ Ht(H2, NULL, B[z]) = Ht(H, NULL, B[z])
    BY <1>7, <2>2
  <2>4. C[z] = "RED" /\ C2[z] = "BLACK" /\ H2[z] = H[z] + 1 /\ z # NULL /\ H[z] \in Nat
    BY <1>1, <1>2, <1>3, <1>4, <1>6
  <2>5. Ht(H, NULL, A[z]) \in Nat
    BY <1>2, <2>2 DEF Ht
  <2> QED
    BY <2>1, <2>3, <2>4, <2>5 DEF BalancedAt
<1>11. ASSUME NEW z \in N, z \notin {g, p, u} PROVE BalancedAt(A, B, C2, NULL, g, NULL, H2, z)
  <2>1. BalancedAt(A, B, C, NULL, e, NULL, H, z)
    BY DEF Balanced
  <2>2. /\ A[z] \in N \cup {NULL} /\ A[z] \notin {p, u} /\ A[z] # e
        /\ B[z] \in N \cup {NULL} /\ B[z] \notin {p, u} /\ B[z] # e
    BY <1>1, <1>3, <1>4, <1>11 DEF LinkedAt
  <2>3. /\ Ht(H2, NULL, A[z]) = Ht(H, NULL, A[z]) /\ Ht(H2, NULL, B[z]) = Ht(H, NULL, B[z])
        /\ A[z] # g => Col(C2, A[z]) = Col(C, A[z])
        /\ B[z] # g => Col(C2, B[z]) = Col(C, B[z])
    BY <1>7, <2>2
  <2>4. C2[z] = C[z] /\ H2[z] = H[z]
    BY <1>3, <1>6, <1>11
  <2> QED
    BY <2>1, <2>2, <2>3, <2>4 DEF BalancedAt
<1> QED
  BY <1>3, <1>5, <1>9, <1>10, <1>11 DEF Balanced

(* delete_case3 and delete_case4: the black sibling of d turns red; what is *)
(* lacked below the parent is lacked at the parent, or is there if it was   *)
(* red and is black now.                                                    *)
BlackNephews(N, A, B, x, d, y, v, C, C2, d2) ==
  /\ d = A[x] /\ y = B[x] /\ v \notin {x, y}
  /\ C \in [N -> Color] /\ C[y] = "BLACK" /\ A[y] # v /\ B[y] # v
  /\ Col(C, A[y]) = "BLACK" /\ Col(C, B[y]) = "BLACK"
  /\ \A z \in N : C2[z] = IF z = y THEN "RED" ELSE IF z = x THEN "BLACK" ELSE C[z]
  /\ d2 = IF C[x] = "BLACK" THEN x ELSE NULL

(* Colouring the sibling red: what is below the parent then lacks a black   *)
(* node.                                                                    *)
LEMMA RecolourDelete ==
  ASSUME NEW N, NEW A, NEW B, NEW P, NEW r, NEW U, Shape(N, A, B, P, r, U),
         NEW x \in N, NEW d \in N, NEW y \in N, NEW v, NEW C, NEW C2, NEW d2,
         BlackNephews(N, A, B, x, d, y, v, C, C2, d2),
         NEW H, HeightsTyped(N, H), Balanced(N, A, B, C, v, v, d, H)
  PROVE  \E H2 : HeightsTyped(N, H2) /\ Balanced(N, A, B, C2, v, v, d2, H2)
<1>0. /\ d = A[x] /\ y = B[x] /\ v \notin {x, y}
      /\ C \in [N -> Color] /\ C[y] = "BLACK" /\ A[y] # v /\ B[y] # v
      /\ Col(C, A[y]) = "BLACK" /\ Col(C, B[y]) = "BLACK"
      /\ \A z \in N : C2[z] = IF z = y THEN "RED" ELSE IF z = x THEN "BLACK" ELSE C[z]
      /\ d2 = IF C[x] = "BLACK" THEN x ELSE NULL
  BY DEF BlackNephews
<1> USE <1>0
<1>1. /\ NULL \notin N
      /\ A \in [N -> N \cup {NULL}] /\ B \in [N -> N \cup {NULL}]
      /\ \A w \in N : LinkedAt(A, B, P, r, w)
  BY DEF Shape, Typed
<1>2. H \in [N -> Nat]
  BY DEF HeightsTyped
<1>3. /\ x # y /\ x # d /\ y # d /\ P[d] = x /\ P[y] = x /\ P[x] # y
      /\ A[y] \notin {x, y, d} /\ B[y] \notin {x, y, d} /\ d # NULL
  <2>1. P[d] = x /\ P[y] = x /\ d # NULL /\ y # NULL
    BY <1>1 DEF LinkedAt
  <2>2. x # y /\ x # d /\ y # d /\ P[x] # y
    BY <2>1, Kin
  <2>3. A[y] # y /\ B[y] # y
    BY Kin
  <2>4. A[y] # d /\ B[y] # d
    BY <2>1, <2>2, OneParent
  <2>5. A[y] # x /\ B[y] # x
    BY <2>2, OneParent
  <2> QED
    BY <2>1, <2>2, <2>3, <2>4, <2>5
<1> DEFINE H2 == [z \in N |-> IF z = y THEN H[d] ELSE IF z = x THEN H[d] + 1 ELSE H[z]]
<1>4. HeightsTyped(N, H2)
  BY <1>2 DEF HeightsTyped
<1>5. \A z \in N : H2[z] = IF z = y THEN H[d] ELSE IF z = x THEN H[d] + 1 ELSE H[z]
  OBVIOUS
<1> HIDE DEF H2
<1>6. H[d] \in Nat /\ H[x] \in Nat /\ H[y] \in Nat /\ C[x] \in Color
  BY <1>2
<1>7. /\ H[y] = H[d] + 1 /\ Ht(H, d, A[y]) = H[d] /\ Ht(H, d, B[y]) = H[d]
      /\ H[x] = H[d] + 1 + (IF C[x] = "BLACK" THEN 1 ELSE 0)
  <2>1. BalancedAt(A, B, C, v, v, d, H, x) /\ BalancedAt(A, B, C, v, v, d, H, y)
    BY DEF Balanced
  <2>2. Ht(H, d, d) = H[d] + 1 /\ Ht(H, d, y) = H[y]
    BY <1>1, <1>3, <1>6 DEF Ht
  <2>3. Ht(H, d, A[y]) \in Nat
    BY <1>1, <1>2 DEF Ht
  <2>4. H[y] = H[d] + 1
    BY <1>6, <2>1, <2>2 DEF BalancedAt
  <2>5. H[y] = Ht(H, d, A[y]) + 1
    BY <1>6, <2>1, <2>3 DEF BalancedAt
  <2>6. Ht(H, d, A[y]) = Ht(H, d, B[y])
    BY <2>1 DEF BalancedAt
  <2>7. H[x] = H[d] + 1 + (IF C[x] = "BLACK" THEN 1 ELSE 0)
    BY <2>1, <2>2 DEF BalancedAt
  <2> QED
    BY <1>6, <2>3, <2>4, <2>5, <2>6, <2>7
<1>8. ASSUME NEW c \in N \cup {NULL}, c \notin {x, y, d}
      PROVE  Ht(H2, d2, c) = Ht(H, d, c) /\ Col(C2, c) = Col(C, c)
  BY <1>1, <1>5, <1>8 DEF Ht, Col
<1>9. Ht(H2, d2, x) = Ht(H, d, x)
  BY <1>1, <1>3, <1>5, <1>6, <1>7 DEF Ht, Color
<1>10. Ht(H2, d2, d) = H[d] /\ Ht(H2, d2, y) = H[d] /\ Col(C2, x) = "BLACK"
  BY <1>1, <1>3, <1>5, <1>6 DEF Ht, Col
<1>11. BalancedAt(A, B, C2, v, v, d2, H2, x)
  <2>1. C2[x] = "BLACK" /\ H2[x] = H[d] + 1
    BY <1>3, <1>5
  <2> QED
    BY <1>6, <1>10, <2>1 DEF BalancedAt
<1>12. BalancedAt(A, B, C2, v, v, d2, H2, y)
  <2>1. C2[y] = "RED" /\ H2[y] = H[d]
    BY <1>5
  <2>2. /\ Ht(H2, d2, A[y]) = H[d] /\ Col(C2, A[y]) = "BLACK"
        /\ Ht(H2, d2, B[y]) = H[d] /\ Col(C2, B[y]) = "BLACK"
    BY <1>1, <1>3, <1>7, <1>8
  <2> QED
    BY <1>6, <2>1, <2>2 DEF BalancedAt
<1>13. ASSUME NEW z \in N, z # x, z # y PROVE BalancedAt(A, B, C2, v, v, d2, H2, z)
  <2>1. BalancedAt(A, B, C, v, v, d, H, z)
    BY DEF Balanced
  <2>2. /\ A[z] \in N \cup {NULL} /\ A[z] \notin {y, d}
        /\ B[z] \in N \cup {NULL} /\ B[z] \notin {y, d}
    BY <1>1, <1>3, <1>13 DEF LinkedAt
  <2>3. \A c \in N \cup {NULL} : c \notin {y, d} =>
          Ht(H2, d2, c) = Ht(H, d, c) /\ (Col(C, c) = "BLACK" => Col(C2, c) = "BLACK")
    BY <1>8, <1>9, <1>10
  <2>4. C2[z] = C[z] /\ H2[z] = H[z]
    BY <1>5, <1>13
  <2> QED
    BY <2>1, <2>2, <2>3, <2>4 DEF BalancedAt
<1> QED
  BY <1>4, <1>11, <1>12, <1>13 DEF Balanced

(* What is lacked at the root is lacked nowhere. *)
LEMMA RootLacks ==
  ASSUME NEW N, NEW A, NEW B, NEW P, NEW r \in N, NEW U, Shape(N, A, B, P, r, U),
         NEW C, NEW v, NEW e, NEW H, HeightsTyped(N, H), Balanced(N, A, B, C, v, e, r, H)
  PROVE  Balanced(N, A, B, C, v, e, NULL, H)
<1>1. /\ NULL \notin N /\ P[r] = NULL
      /\ A \in [N -> N \cup {NULL}] /\ B \in [N -> N \cup {NULL}]
      /\ \A w \in N : LinkedAt(A, B, P, r, w)
  BY DEF Shape, Typed
<1> SUFFICES ASSUME NEW z \in N PROVE BalancedAt(A, B, C, v, e, NULL, H, z)
  BY DEF Balanced
<1>2. BalancedAt(A, B, C, v, e, r, H, z)
  BY DEF Balanced
<1>3. A[z] # r /\ B[z] # r
  BY <1>1 DEF LinkedAt
<1>4. \A c : c # r => Ht(H, NULL, c) = Ht(H, r, c)
  BY DEF Ht
<1> QED
  BY <1>2, <1>3, <1>4 DEF BalancedAt

(* A red node whose parent is black need not be excepted: insert_case2.     *)
LEMMA NoLongerExempt ==
  ASSUME NEW N, NEW A, NEW B, NEW P, NEW r, NEW U, Shape(N, A, B, P, r, U),
         NEW C, NEW H, NEW e \in N, P[e] # NULL => C[P[e]] = "BLACK",
         Balanced(N, A, B, C, NULL, e, NULL, H)
  PROVE  Balanced(N, A, B, C, NULL, NULL, NULL, H)
<1> SUFFICES ASSUME NEW z \in N PROVE BalancedAt(A, B, C, NULL, NULL, NULL, H, z)
  BY DEF Balanced
<1>1. BalancedAt(A, B, C, NULL, e, NULL, H, z)
  BY DEF Balanced
<1>2. NULL \notin N /\ LinkedAt(A, B, P, r, z)
  BY DEF Shape, Typed
<1>3. C[z] = "RED" => A[z] # e /\ B[z] # e
  BY <1>2 DEF LinkedAt
<1>4. Col(C, NULL) = "BLACK"
  BY DEF Col
<1> QED
  BY <1>1, <1>3, <1>4 DEF BalancedAt
-----------------------------------------------------------------------------
(* The fields after k has become the left child of p, which had none; with  *)
(* left and right exchanged, its right child.                               *)
Attached(N, A, B, P, p, k, A2, B2, P2) ==
  /\ p \in N /\ A[p] = NULL /\ k \notin N /\ k # NULL
  /\ A2 \in [N \cup {k} -> N \cup {k, NULL}] /\ B2 \in [N \cup {k} -> N \cup {k, NULL}]
  /\ P2 \in [N \cup {k} -> N \cup {k, NULL}]
  /\ A2[k] = NULL /\ B2[k] = NULL /\ P2[k] = p
  /\ \A z \in N : A2[z] = (IF z = p THEN k ELSE A[z]) /\ B2[z] = B[z] /\ P2[z] = P[z]

AttachedSubtrees(N, U, p, k) ==
  [z \in N \cup {k} |-> IF z = k THEN {k} ELSE IF p \in U[z] THEN U[z] \cup {k} ELSE U[z]]

AttachedAt(U2, A, B, U, p, k, A2, B2, z) ==
  /\ Sub(U2, B2[z]) = IF p \in Sub(U, B[z]) THEN Sub(U, B[z]) \cup {k} ELSE Sub(U, B[z])
  /\ Sub(U2, A2[z]) = IF z = p \/ p \in Sub(U, A[z]) THEN Sub(U, A[z]) \cup {k}
                      ELSE Sub(U, A[z])

(* A red leaf is attached. *)
LEMMA AttachSubtrees ==
  ASSUME NEW N, NEW A, NEW B, NEW P, NEW r, NEW U, Shape(N, A, B, P, r, U),
         NEW p, NEW k, NEW A2, NEW B2, NEW P2, Attached(N, A, B, P, p, k, A2, B2, P2),
         NEW z \in N
  PROVE  AttachedAt(AttachedSubtrees(N, U, p, k), A, B, U, p, k, A2, B2, z)
<1>1. /\ NULL \notin N
      /\ A \in [N -> N \cup {NULL}] /\ B \in [N -> N \cup {NULL}]
      /\ SubtreeAt(A, B, U, z)
  BY DEF Shape, Typed
<1>2. /\ p \in N /\ A[p] = NULL /\ k \notin N /\ k # NULL
      /\ A2[z] = (IF z = p THEN k ELSE A[z]) /\ B2[z] = B[z]
  BY DEF Attached
<1> DEFINE U2 == AttachedSubtrees(N, U, p, k)
<1>3. \A w \in N : U2[w] = IF p \in U[w] THEN U[w] \cup {k} ELSE U[w]
  BY <1>2 DEF AttachedSubtrees
<1>4. U2[k] = {k}
  BY DEF AttachedSubtrees
<1> HIDE DEF U2
<1>5. Sub(U2, B2[z]) = IF p \in Sub(U, B[z]) THEN Sub(U, B[z]) \cup {k} ELSE Sub(U, B[z])
  BY <1>1, <1>2, <1>3 DEF Sub
<1>6. Sub(U2, A2[z]) = IF z = p \/ p \in Sub(U, A[z]) THEN Sub(U, A[z]) \cup {k} ELSE Sub(U, A[z])
  <2>1. CASE z = p
    BY <1>1, <1>2, <1>4, <2>1 DEF Sub
  <2>2. CASE z # p
    BY <1>1, <1>2, <1>3, <2>2 DEF Sub
  <2> QED
    BY <2>1, <2>2
<1> QED
  BY <1>5, <1>6 DEF U2, AttachedAt

LEMMA AttachShape ==
  ASSUME NEW N, NEW A, NEW B, NEW P, NEW r, NEW U, Shape(N, A, B, P, r, U),
         NEW p, NEW k, NEW A2, NEW B2, NEW P2, Attached(N, A, B, P, p, k, A2, B2, P2)
  PROVE  Shape(N \cup {k}, A2, B2, P2, r, AttachedSubtrees(N, U, p, k))
<1>1. /\ NULL \notin N /\ U \in [N -> SUBSET N]
      /\ A \in [N -> N \cup {NULL}] /\ B \in [N -> N \cup {NULL}] /\ P \in [N -> N \cup {NULL}]
      /\ \A z \in N : LinkedAt(A, B, P, r, z) /\ SubtreeAt(A, B, U, z)
      /\ r \in N \cup {NULL} /\ (r # NULL => P[r] = NULL) /\ Sub(U, r) = N
  BY DEF Shape, Typed
<1>2. /\ p \in N /\ A[p] = NULL /\ k \notin N /\ k # NULL
      /\ A2 \in [N \cup {k} -> N \cup {k, NULL}] /\ B2 \in [N \cup {k} -> N \cup {k, NULL}]
      /\ P2 \in [N \cup {k} -> N \cup {k, NULL}]
      /\ A2[k] = NULL /\ B2[k] = NULL /\ P2[k] = p
      /\ \A z \in N : A2[z] = (IF z = p THEN k ELSE A[z]) /\ B2[z] = B[z] /\ P2[z] = P[z]
  BY DEF Attached
<1> DEFINE U2 == AttachedSubtrees(N, U, p, k)
<1>3. \A w \in N : U2[w] = IF p \in U[w] THEN U[w] \cup {k} ELSE U[w]
  BY <1>2 DEF AttachedSubtrees
<1>4. U2[k] = {k}
  BY DEF AttachedSubtrees
<1>5. U2 \in [N \cup {k} -> SUBSET (N \cup {k})]
  BY <1>1 DEF AttachedSubtrees
<1>6. Typed(N \cup {k}, A2, B2, P2, r)
  BY <1>1, <1>2 DEF Typed
<1>7. ASSUME NEW z \in N PROVE LinkedAt(A2, B2, P2, r, z)
  <2>1. A2[z] # NULL => P2[A2[z]] = z
    BY <1>1, <1>2 DEF LinkedAt
  <2>2. B2[z] # NULL => P2[B2[z]] = z
    BY <1>1, <1>2 DEF LinkedAt
  <2>3. ASSUME P2[z] # NULL PROVE z = A2[P2[z]] \/ z = B2[P2[z]]
    <3>0. P2[z] = P[z] /\ P[z] \in N \cup {NULL}
      BY <1>1, <1>2
    <3>1. PICK q \in N : q = P[z] /\ P2[z] = q
      BY <2>3, <3>0
    <3>2. z = A[q] \/ z = B[q]
      BY <1>1, <2>3, <3>1 DEF LinkedAt
    <3>3. z = A2[q] \/ z = B2[q]
      BY <1>1, <1>2, <3>2
    <3> QED
      BY <3>1, <3>3
  <2>4. P2[z] = NULL => z = r
    BY <1>1, <1>2 DEF LinkedAt
  <2> QED
    BY <2>1, <2>2, <2>3, <2>4 DEF LinkedAt
<1>8. LinkedAt(A2, B2, P2, r, k)
  BY <1>1, <1>2 DEF LinkedAt
<1>9. ASSUME NEW z \in N PROVE SubtreeAt(A2, B2, U2, z)
  <2>1. /\ Sub(U2, B2[z]) = IF p \in Sub(U, B[z]) THEN Sub(U, B[z]) \cup {k} ELSE Sub(U, B[z])
        /\ Sub(U2, A2[z]) = IF z = p \/ p \in Sub(U, A[z]) THEN Sub(U, A[z]) \cup {k}
                            ELSE Sub(U, A[z])
    <3>1. AttachedAt(U2, A, B, U, p, k, A2, B2, z)
      BY AttachSubtrees
    <3> HIDE DEF U2
    <3> QED
      BY <3>1 DEF AttachedAt
  <2>2. SubtreeAt(A, B, U, z) /\ U[z] \subseteq N
    BY <1>1
  <2>3. U2[z] = IF p \in U[z] THEN U[z] \cup {k} ELSE U[z]
    BY <1>3
  <2> HIDE DEF U2
  <2>4. U[z] = {z} \cup Sub(U, A[z]) \cup Sub(U, B[z])
    BY <2>2 DEF SubtreeAt
  <2>5. /\ z \notin Sub(U, A[z]) /\ z \notin Sub(U, B[z]) /\ Sub(U, A[z]) \cap Sub(U, B[z]) = {}
    BY <2>2 DEF SubtreeAt
  <2>6. z # k /\ k \notin Sub(U, A[z]) /\ k \notin Sub(U, B[z])
    BY <1>2, <2>2, <2>4
  <2>7. CASE z = p \/ p \in Sub(U, A[z])
    <3>1. p \notin Sub(U, B[z]) /\ p \in U[z]
      BY <2>4, <2>5, <2>7
    <3> QED
      BY <2>1, <2>3, <2>4, <2>5, <2>6, <2>7, <3>1 DEF SubtreeAt
  <2>8. CASE p \in Sub(U, B[z])
    <3>1. p \notin Sub(U, A[z]) /\ p \in U[z] /\ z # p
      BY <2>4, <2>5, <2>8
    <3> QED
      BY <2>1, <2>3, <2>4, <2>5, <2>6, <2>8, <3>1 DEF SubtreeAt
  <2>9. CASE z # p /\ p \notin Sub(U, A[z]) /\ p \notin Sub(U, B[z])
    BY <2>1, <2>3, <2>4, <2>5, <2>9 DEF SubtreeAt
  <2> QED
    BY <2>7, <2>8, <2>9
<1>10. SubtreeAt(A2, B2, U2, k)
  BY <1>2, <1>4 DEF SubtreeAt, Sub
<1>11. Sub(U2, r) = N \cup {k} /\ (r # NULL => P2[r] = NULL)
  BY <1>1, <1>2, <1>3 DEF Sub
<1> QED
  BY <1>1, <1>5, <1>6, <1>7, <1>8, <1>9, <1>10, <1>11 DEF Shape

(* k is on the right side of every node p is below. *)
LEMMA AttachOrder ==
  ASSUME NEW N, NEW A, NEW B, NEW P, NEW r, NEW U, Shape(N, A, B, P, r, U),
         NEW p, NEW k, NEW A2, NEW B2, NEW P2, Attached(N, A, B, P, p, k, A2, B2, P2),
         NEW E, Ordered(N, A, B, U, E), <<k, p>> \in E,
         \A z \in N : /\ p \in Sub(U, A[z]) => <<k, z>> \in E
                      /\ p \in Sub(U, B[z]) => <<z, k>> \in E
  PROVE  Ordered(N \cup {k}, A2, B2, AttachedSubtrees(N, U, p, k), E)
<1> DEFINE U2 == AttachedSubtrees(N, U, p, k)
<1>1. ASSUME NEW z \in N PROVE OrderedAt(A2, B2, U2, E, z)
  <2>1. /\ Sub(U2, B2[z]) = IF p \in Sub(U, B[z]) THEN Sub(U, B[z]) \cup {k} ELSE Sub(U, B[z])
        /\ Sub(U2, A2[z]) = IF z = p \/ p \in Sub(U, A[z]) THEN Sub(U, A[z]) \cup {k}
                            ELSE Sub(U, A[z])
    <3>1. AttachedAt(U2, A, B, U, p, k, A2, B2, z)
      BY AttachSubtrees
    <3> HIDE DEF U2
    <3> QED
      BY <3>1 DEF AttachedAt
  <2>2. OrderedAt(A, B, U, E, z)
    BY DEF Ordered
  <2> HIDE DEF U2
  <2> QED
    BY <2>1, <2>2 DEF OrderedAt
<1>2. OrderedAt(A2, B2, U2, E, k)
  BY DEF OrderedAt, Attached, Sub
<1> QED
  BY <1>1, <1>2 DEF Ordered

(* The heights stay; the new node may have a red parent. *)
LEMMA AttachBalance ==
  ASSUME NEW N, NEW A, NEW B, NEW P, NEW r, NEW U, Shape(N, A, B, P, r, U),
         NEW p, NEW k, NEW A2, NEW B2, NEW P2, Attached(N, A, B, P, p, k, A2, B2, P2),
         NEW C, NEW C2, C2[k] = "RED", \A z \in N : C2[z] = C[z],
         NEW H, HeightsTyped(N, H), Balanced(N, A, B, C, NULL, NULL, NULL, H)
  PROVE  \E H2 : HeightsTyped(N \cup {k}, H2) /\ Balanced(N \cup {k}, A2, B2, C2, NULL, k, NULL, H2)
<1>1. /\ NULL \notin N
      /\ A \in [N -> N \cup {NULL}] /\ B \in [N -> N \cup {NULL}]
  BY DEF Shape, Typed
<1>2. /\ p \in N /\ A[p] = NULL /\ k \notin N /\ k # NULL
      /\ A2[k] = NULL /\ B2[k] = NULL
      /\ \A z \in N : A2[z] = (IF z = p THEN k ELSE A[z]) /\ B2[z] = B[z]
  BY DEF Attached
<1> DEFINE H2 == [z \in N \cup {k} |-> IF z = k THEN 0 ELSE H[z]]
<1>3. HeightsTyped(N \cup {k}, H2) /\ H2[k] = 0 /\ \A z \in N : H2[z] = H[z]
  BY <1>2 DEF HeightsTyped
<1> HIDE DEF H2
<1>4. \A c \in N \cup {NULL} : Ht(H2, NULL, c) = Ht(H, NULL, c) /\ Col(C2, c) = Col(C, c) /\ c # k
  BY <1>1, <1>2, <1>3 DEF Ht, Col
<1>5. Ht(H2, NULL, k) = 0 /\ Ht(H2, NULL, NULL) = 0 /\ Ht(H, NULL, NULL) = 0
  BY <1>2, <1>3 DEF Ht
<1>6. Col(C, NULL) = "BLACK" /\ Col(C2, NULL) = "BLACK"
  BY DEF Col
<1>7. BalancedAt(A2, B2, C2, NULL, k, NULL, H2, k)
  BY <1>2, <1>3, <1>5, <1>6 DEF BalancedAt
<1>8. ASSUME NEW z \in N PROVE BalancedAt(A2, B2, C2, NULL, k, NULL, H2, z)
  <2>1. BalancedAt(A, B, C, NULL, NULL, NULL, H, z)
    BY DEF Balanced
  <2>2. A[z] \in N \cup {NULL} /\ B[z] \in N \cup {NULL}
    BY <1>1
  <2>3. Ht(H2, NULL, A2[z]) = Ht(H, NULL, A[z]) /\ (A2[z] # k => Col(C2, A2[z]) = Col(C, A[z]))
    BY <1>2, <1>4, <1>5, <2>2
  <2>4. Ht(H2, NULL, B2[z]) = Ht(H, NULL, B[z]) /\ (B2[z] # k => Col(C2, B2[z]) = Col(C, B[z]))
    BY <1>2, <1>4, <1>5, <2>2
  <2>5. C2[z] = C[z] /\ H2[z] = H[z]
    BY <1>3
  <2> QED
    BY <1>2, <1>6, <2>1, <2>3, <2>4, <2>5 DEF BalancedAt
<1> QED
  BY <1>3, <1>7, <1>8 DEF Balanced
-----------------------------------------------------------------------------
(* The fields after v, whose only child is c, or that has none, has been    *)
(* replaced by it and taken out.                                            *)
Removed(N, A, B, P, r, v, c, A2, B2, P2, r2) ==
  /\ v \in N /\ ((A[v] = c /\ B[v] = NULL) \/ (B[v] = c /\ A[v] = NULL))
  /\ A2 = [z \in N \ {v} |-> IF A[z] = v THEN c ELSE A[z]]
  /\ B2 = [z \in N \ {v} |-> IF B[z] = v THEN c ELSE B[z]]
  /\ P2 = [z \in N \ {v} |-> IF z = c THEN P[v] ELSE P[z]]
  /\ r2 = IF P[v] = NULL THEN c ELSE r

RemovedSubtrees(N, U, v) == [z \in N \ {v} |-> U[z] \ {v}]

(* A node with one child, or none, is taken out. *)
LEMMA RemoveSubtrees ==
  ASSUME NEW N, NEW A, NEW B, NEW P, NEW r, NEW U, Shape(N, A, B, P, r, U),
         NEW v, NEW c, NEW A2, NEW B2, NEW P2, NEW r2,
         Removed(N, A, B, P, r, v, c, A2, B2, P2, r2),
         NEW z \in N \ {v}
  PROVE  /\ Sub(RemovedSubtrees(N, U, v), A2[z]) = Sub(U, A[z]) \ {v}
         /\ Sub(RemovedSubtrees(N, U, v), B2[z]) = Sub(U, B[z]) \ {v}
<1>1. /\ NULL \notin N
      /\ A \in [N -> N \cup {NULL}] /\ B \in [N -> N \cup {NULL}]
      /\ \A w \in N : SubtreeAt(A, B, U, w)
  BY DEF Shape, Typed
<1>2. /\ v \in N /\ c \in N \cup {NULL} /\ Sub(U, c) = U[v] \ {v} /\ c # v
      /\ A2[z] = (IF A[z] = v THEN c ELSE A[z]) /\ B2[z] = (IF B[z] = v THEN c ELSE B[z])
  <2>1. /\ v \in N /\ ((A[v] = c /\ B[v] = NULL) \/ (B[v] = c /\ A[v] = NULL))
        /\ A2[z] = (IF A[z] = v THEN c ELSE A[z]) /\ B2[z] = (IF B[z] = v THEN c ELSE B[z])
    BY DEF Removed
  <2>2. SubtreeAt(A, B, U, v) /\ Sub(U, NULL) = {}
    BY <1>1, <2>1 DEF Sub
  <2> QED
    BY <1>1, <2>1, <2>2, Kin DEF SubtreeAt
<1> DEFINE U2 == RemovedSubtrees(N, U, v)
<1>3. \A w \in N \ {v} : U2[w] = U[w] \ {v}
  BY DEF RemovedSubtrees
<1>4. \A w \in N \cup {NULL} : w # v => Sub(U2, w) = Sub(U, w) \ {v}
  BY <1>1, <1>3 DEF Sub
<1> HIDE DEF U2
<1>5. Sub(U, v) = U[v] /\ Sub(U2, c) = U[v] \ {v}
  BY <1>1, <1>2, <1>4 DEF Sub
<1>6. Sub(U2, A2[z]) = Sub(U, A[z]) \ {v}
  <2>1. CASE A[z] = v
    BY <1>2, <1>5, <2>1
  <2>2. CASE A[z] # v
    BY <1>1, <1>2, <1>4, <2>2
  <2> QED
    BY <2>1, <2>2
<1>7. Sub(U2, B2[z]) = Sub(U, B[z]) \ {v}
  <2>1. CASE B[z] = v
    BY <1>2, <1>5, <2>1
  <2>2. CASE B[z] # v
    BY <1>1, <1>2, <1>4, <2>2
  <2> QED
    BY <2>1, <2>2
<1> QED
  BY <1>6, <1>7 DEF U2

LEMMA RemoveShape ==
  ASSUME NEW N, NEW A, NEW B, NEW P, NEW r, NEW U, Shape(N, A, B, P, r, U),
         NEW v, NEW c, NEW A2, NEW B2, NEW P2, NEW r2,
         Removed(N, A, B, P, r, v, c, A2, B2, P2, r2)
  PROVE  Shape(N \ {v}, A2, B2, P2, r2, RemovedSubtrees(N, U, v))
<1>1. /\ NULL \notin N /\ U \in [N -> SUBSET N]
      /\ A \in [N -> N \cup {NULL}] /\ B \in [N -> N \cup {NULL}] /\ P \in [N -> N \cup {NULL}]
      /\ \A z \in N : LinkedAt(A, B, P, r, z) /\ SubtreeAt(A, B, U, z)
      /\ r \in N \cup {NULL} /\ (r # NULL => P[r] = NULL) /\ Sub(U, r) = N
  BY DEF Shape, Typed
<1>2. /\ v \in N /\ ((A[v] = c /\ B[v] = NULL) \/ (B[v] = c /\ A[v] = NULL))
      /\ \A z \in N \ {v} : /\ A2[z] = (IF A[z] = v THEN c ELSE A[z])
                            /\ B2[z] = (IF B[z] = v THEN c ELSE B[z])
                            /\ P2[z] = (IF z = c THEN P[v] ELSE P[z])
      /\ r2 = IF P[v] = NULL THEN c ELSE r
  BY DEF Removed
<1>3. /\ c \in N \cup {NULL} /\ c # v /\ (c # NULL => P[c] = v) /\ P[v] # v
      /\ P[v] # NULL => c # P[v]
      /\ Sub(U, c) = U[v] \ {v}
  <2>1. c \in N \cup {NULL} /\ c # v /\ (c # NULL => P[c] = v)
        /\ P[v] # v /\ (P[v] # NULL => c # P[v])
    BY <1>1, <1>2, Kin DEF LinkedAt
  <2>2. SubtreeAt(A, B, U, v) /\ Sub(U, NULL) = {}
    BY <1>1, <1>2 DEF Sub
  <2> QED
    BY <1>2, <2>1, <2>2 DEF SubtreeAt
<1>4. \A z \in N : /\ A[z] # NULL => P[A[z]] = z
                   /\ B[z] # NULL => P[B[z]] = z
                   /\ P[z] # NULL => z = A[P[z]] \/ z = B[P[z]]
                   /\ P[z] = NULL => z = r
  BY <1>1 DEF LinkedAt
<1>5. Typed(N \ {v}, A2, B2, P2, r2)
  <2>1. \A z \in N \ {v} : /\ A2[z] \in (N \ {v}) \cup {NULL} /\ B2[z] \in (N \ {v}) \cup {NULL}
    BY <1>1, <1>2, <1>3
  <2>2. \A z \in N \ {v} : P2[z] \in (N \ {v}) \cup {NULL}
    BY <1>1, <1>2, <1>3, <1>4
  <2>3. r2 \in (N \ {v}) \cup {NULL}
    BY <1>1, <1>2, <1>3
  <2> QED
    BY <1>1, <2>1, <2>2, <2>3 DEF Typed, Removed
<1>6. ASSUME NEW z \in N \ {v} PROVE LinkedAt(A2, B2, P2, r2, z)
  <2>1. A2[z] # NULL => P2[A2[z]] = z
    <3>1. CASE A[z] = v
      BY <1>1, <1>2, <1>3, <1>4, <3>1
    <3>2. CASE A[z] # v
      BY <1>1, <1>2, <1>3, <1>4, <3>2
    <3> QED
      BY <3>1, <3>2
  <2>2. B2[z] # NULL => P2[B2[z]] = z
    <3>1. CASE B[z] = v
      BY <1>1, <1>2, <1>3, <1>4, <3>1
    <3>2. CASE B[z] # v
      BY <1>1, <1>2, <1>3, <1>4, <3>2
    <3> QED
      BY <3>1, <3>2
  <2>3. P2[z] # NULL => z = A2[P2[z]] \/ z = B2[P2[z]]
    <3>1. CASE z = c
      BY <1>1, <1>2, <1>3, <1>4, <3>1
    <3>2. CASE z # c
      BY <1>1, <1>2, <1>3, <1>4, <3>2
    <3> QED
      BY <3>1, <3>2
  <2>4. P2[z] = NULL => z = r2
    BY <1>1, <1>2, <1>3, <1>4
  <2> QED
    BY <2>1, <2>2, <2>3, <2>4 DEF LinkedAt
<1> DEFINE U2 == RemovedSubtrees(N, U, v)
<1>7. U2 \in [N \ {v} -> SUBSET (N \ {v})] /\ \A w \in N \ {v} : U2[w] = U[w] \ {v}
  BY <1>1 DEF RemovedSubtrees
<1>8. ASSUME NEW z \in N \ {v} PROVE SubtreeAt(A2, B2, U2, z)
  <2>1. Sub(U2, A2[z]) = Sub(U, A[z]) \ {v} /\ Sub(U2, B2[z]) = Sub(U, B[z]) \ {v}
    BY RemoveSubtrees
  <2>2. SubtreeAt(A, B, U, z) /\ U2[z] = U[z] \ {v}
    BY <1>1, <1>7
  <2> HIDE DEF U2
  <2> QED
    BY <2>1, <2>2 DEF SubtreeAt
<1>9. (r2 # NULL => P2[r2] = NULL) /\ Sub(U2, r2) = N \ {v}
  <2>1. CASE P[v] = NULL
    <3>1. r = v /\ r2 = c /\ U[v] = N
      BY <1>1, <1>2, <1>4, <2>1 DEF Sub
    <3>2. CASE c = NULL
      BY <1>3, <3>1, <3>2 DEF Sub
    <3>3. CASE c # NULL
      BY <1>1, <1>2, <1>3, <1>7, <2>1, <3>1, <3>3 DEF Sub
    <3> QED
      BY <3>2, <3>3
  <2>2. CASE P[v] # NULL
    <3>1. r2 = r /\ r # v /\ r # c /\ r # NULL
      BY <1>1, <1>2, <1>3, <2>2 DEF Sub
    <3> QED
      BY <1>1, <1>2, <1>7, <3>1 DEF Sub
  <2> QED
    BY <2>1, <2>2
<1> QED
  BY <1>5, <1>6, <1>7, <1>8, <1>9 DEF Shape

LEMMA RemoveOrder ==
  ASSUME NEW N, NEW A, NEW B, NEW P, NEW r, NEW U, Shape(N, A, B, P, r, U),
         NEW v, NEW c, NEW A2, NEW B2, NEW P2, NEW r2,
         Removed(N, A, B, P, r, v, c, A2, B2, P2, r2),
         NEW E, Ordered(N, A, B, U, E)
  PROVE  Ordered(N \ {v}, A2, B2, RemovedSubtrees(N, U, v), E)
<1> SUFFICES ASSUME NEW z \in N \ {v} PROVE OrderedAt(A2, B2, RemovedSubtrees(N, U, v), E, z)
  BY DEF Ordered
<1>1. OrderedAt(A, B, U, E, z)
  BY DEF Ordered
<1> QED
  BY <1>1, RemoveSubtrees DEF OrderedAt

(* The heights agree when the node that counted for nothing is gone. *)
LEMMA RemoveBalance ==
  ASSUME NEW N, NEW A, NEW B, NEW P, NEW r, NEW U, Shape(N, A, B, P, r, U),
         NEW v, NEW c, NEW A2, NEW B2, NEW P2, NEW r2,
         Removed(N, A, B, P, r, v, c, A2, B2, P2, r2),
         NEW C, NEW C2, \A z \in N \ {v} : C2[z] = C[z],
         P[v] # NULL => Col(C, c) = "BLACK" \/ C[P[v]] = "BLACK",
         NEW H, HeightsTyped(N, H), Balanced(N, A, B, C, v, v, NULL, H)
  PROVE  \E H2 : /\ HeightsTyped(N \ {v}, H2)
                 /\ Balanced(N \ {v}, A2, B2, C2, NULL, NULL, NULL, H2)
<1>1. /\ NULL \notin N
      /\ A \in [N -> N \cup {NULL}] /\ B \in [N -> N \cup {NULL}]
      /\ \A w \in N : LinkedAt(A, B, P, r, w)
  BY DEF Shape, Typed
<1>2. /\ v \in N /\ ((A[v] = c /\ B[v] = NULL) \/ (B[v] = c /\ A[v] = NULL))
      /\ \A z \in N \ {v} : /\ A2[z] = (IF A[z] = v THEN c ELSE A[z])
                            /\ B2[z] = (IF B[z] = v THEN c ELSE B[z])
  BY DEF Removed
<1>3. H \in [N -> Nat]
  BY DEF HeightsTyped
<1>4. c \in N \cup {NULL} /\ c # v
  BY <1>1, <1>2, Kin
<1> DEFINE H2 == [z \in N \ {v} |-> H[z]]
<1>5. HeightsTyped(N \ {v}, H2) /\ \A z \in N \ {v} : H2[z] = H[z]
  BY <1>3 DEF HeightsTyped
<1> HIDE DEF H2
<1>6. \A w \in N \cup {NULL} : w # v =>
        Ht(H2, NULL, w) = Ht(H, NULL, w) /\ Col(C2, w) = Col(C, w)
  BY <1>1, <1>5 DEF Ht, Col
<1>7. Ht(H, NULL, v) = Ht(H, NULL, c)
  <2>1. BalancedAt(A, B, C, v, v, NULL, H, v)
    BY <1>2 DEF Balanced
  <2>2. Ht(H, NULL, A[v]) \in Nat /\ H[v] \in Nat
    BY <1>1, <1>2, <1>3 DEF Ht
  <2>3. H[v] = Ht(H, NULL, A[v])
    BY <2>1, <2>2 DEF BalancedAt
  <2>4. H[v] = Ht(H, NULL, c)
    BY <1>2, <2>1, <2>3 DEF BalancedAt
  <2>5. Ht(H, NULL, v) = H[v]
    BY <1>1, <1>2, <2>2 DEF Ht
  <2> QED
    BY <2>4, <2>5
<1>8. ASSUME NEW z \in N \ {v}, NEW w \in N \cup {NULL}, w # NULL => P[w] = z,
             NEW w2, w2 = IF w = v THEN c ELSE w
      PROVE  /\ Ht(H2, NULL, w2) = Ht(H, NULL, w)
             /\ C[z] = "RED" /\ (w # v => Col(C, w) = "BLACK") => Col(C2, w2) = "BLACK"
  <2>1. CASE w = v
    <3>1. P[v] = z /\ z # NULL
      BY <1>1, <1>2, <1>8, <2>1
    <3>2. C[z] = "RED" => Col(C, c) = "BLACK"
      BY <3>1
    <3> QED
      BY <1>4, <1>6, <1>7, <1>8, <2>1, <3>2
  <2>2. CASE w # v
    BY <1>6, <1>8, <2>2
  <2> QED
    BY <2>1, <2>2
<1>9. ASSUME NEW z \in N \ {v} PROVE BalancedAt(A2, B2, C2, NULL, NULL, NULL, H2, z)
  <2>1. BalancedAt(A, B, C, v, v, NULL, H, z)
    BY DEF Balanced
  <2>2. /\ A[z] \in N \cup {NULL} /\ (A[z] # NULL => P[A[z]] = z)
        /\ B[z] \in N \cup {NULL} /\ (B[z] # NULL => P[B[z]] = z)
    BY <1>1 DEF LinkedAt
  <2>3. A2[z] = (IF A[z] = v THEN c ELSE A[z]) /\ B2[z] = (IF B[z] = v THEN c ELSE B[z])
    BY <1>2
  <2>4. /\ Ht(H2, NULL, A2[z]) = Ht(H, NULL, A[z])
        /\ C[z] = "RED" /\ (A[z] # v => Col(C, A[z]) = "BLACK") => Col(C2, A2[z]) = "BLACK"
    BY <1>8, <2>2, <2>3
  <2>5. /\ Ht(H2, NULL, B2[z]) = Ht(H, NULL, B[z])
        /\ C[z] = "RED" /\ (B[z] # v => Col(C, B[z]) = "BLACK") => Col(C2, B2[z]) = "BLACK"
    BY <1>8, <2>2, <2>3
  <2>6. C2[z] = C[z] /\ H2[z] = H[z] /\ z # NULL /\ z # v
    BY <1>1, <1>5
  <2> QED
    BY <2>1, <2>4, <2>5, <2>6 DEF BalancedAt
<1> QED
  BY <1>5, <1>9 DEF Balanced
-----------------------------------------------------------------------------
(* The trees whose nodes are N, and the fields of a tree s. *)
Tree(N) ==
  [root : N \cup {NULL},
   node : [N -> [key : Keys, value : Values, color : Color, left : N \cup {NULL},
                 right : N \cup {NULL}, parent : N \cup {NULL}]]]

Lefts(s) == [x \in DOMAIN s.node |-> s.node[x].left]
Rights(s) == [x \in DOMAIN s.node |-> s.node[x].right]
Parents(s) == [x \in DOMAIN s.node |-> s.node[x].parent]
Colors(s) == [x \in DOMAIN s.node |-> s.node[x].color]

SameContent(N, s, s2) ==
  \A z \in N : s2.node[z].key = s.node[z].key /\ s2.node[z].value = s.node[z].value

SameLinks(N, s, s2) ==
  /\ s2.root = s.root /\ Lefts(s2) = Lefts(s) /\ Rights(s2) = Rights(s)
  /\ Parents(s2) = Parents(s)

(* What the assignments to the fields of a node do to the pointers. *)
LEMMA TreeFields ==
  ASSUME NEW N, NEW s \in Tree(N)
  PROVE  /\ DOMAIN s.node = N /\ s.root \in N \cup {NULL}
         /\ Lefts(s) \in [N -> N \cup {NULL}] /\ Rights(s) \in [N -> N \cup {NULL}]
         /\ Parents(s) \in [N -> N \cup {NULL}] /\ Colors(s) \in [N -> Color]
         /\ \A x \in N : /\ Lefts(s)[x] = s.node[x].left /\ Rights(s)[x] = s.node[x].right
                         /\ Parents(s)[x] = s.node[x].parent /\ Colors(s)[x] = s.node[x].color
<1>1. DOMAIN s.node = N /\ s.root \in N \cup {NULL}
  BY DEF Tree
<1>2. \A x \in N : /\ s.node[x].left \in N \cup {NULL} /\ s.node[x].right \in N \cup {NULL}
                   /\ s.node[x].parent \in N \cup {NULL} /\ s.node[x].color \in Color
  BY DEF Tree
<1> QED
  BY <1>1, <1>2 DEF Lefts, Rights, Parents, Colors

ColorSet(N, s, x, c, s2) ==
  /\ s2 \in Tree(N) /\ SameLinks(N, s, s2) /\ SameContent(N, s, s2)
  /\ Colors(s2) = [Colors(s) EXCEPT ![x] = c]

LEMMA SetColorFields ==
  ASSUME NEW N, NEW s \in Tree(N), NEW x \in N, NEW c \in Color
  PROVE  ColorSet(N, s, x, c, SetColor(s, x, c))
<1> DEFINE s2 == SetColor(s, x, c)
<1>1. s2 \in Tree(N)
  BY DEF SetColor, Tree
<1>2. /\ s2.root = s.root /\ DOMAIN s.node = N
      /\ s2.node = [s.node EXCEPT ![x] = [s.node[x] EXCEPT !.color = c]]
  BY DEF SetColor, Tree
<1>3. ASSUME NEW z \in N
      PROVE  /\ s2.node[z].left = s.node[z].left /\ s2.node[z].right = s.node[z].right
             /\ s2.node[z].parent = s.node[z].parent
             /\ s2.node[z].key = s.node[z].key /\ s2.node[z].value = s.node[z].value
             /\ s2.node[z].color = IF z = x THEN c ELSE s.node[z].color
  BY <1>2 DEF Tree
<1>4. DOMAIN s2.node = N
  BY <1>2
<1> HIDE DEF s2
<1>5. SameLinks(N, s, s2)
  BY <1>2, <1>3, <1>4 DEF SameLinks, Lefts, Rights, Parents
<1>6. SameContent(N, s, s2)
  BY <1>3 DEF SameContent
<1>7. Colors(s2) = [Colors(s) EXCEPT ![x] = c]
  BY <1>2, <1>3, <1>4 DEF Colors
<1> QED
  BY <1>1, <1>5, <1>6, <1>7 DEF s2, ColorSet

(* s2 is s but for one field of node x. *)
ParentSet(N, s, x, p, s2) ==
  /\ s2 \in Tree(N) /\ s2.root = s.root
  /\ Lefts(s2) = Lefts(s) /\ Rights(s2) = Rights(s)
  /\ Parents(s2) = [z \in N |-> IF z = x THEN p ELSE Parents(s)[z]]
  /\ Colors(s2) = Colors(s) /\ SameContent(N, s, s2)

LeftSet(N, s, x, y, s2) ==
  /\ s2 \in Tree(N) /\ s2.root = s.root
  /\ Lefts(s2) = [Lefts(s) EXCEPT ![x] = y] /\ Rights(s2) = Rights(s)
  /\ Parents(s2) = Parents(s) /\ Colors(s2) = Colors(s) /\ SameContent(N, s, s2)

RightSet(N, s, x, y, s2) ==
  /\ s2 \in Tree(N) /\ s2.root = s.root
  /\ Rights(s2) = [Rights(s) EXCEPT ![x] = y] /\ Lefts(s2) = Lefts(s)
  /\ Parents(s2) = Parents(s) /\ Colors(s2) = Colors(s) /\ SameContent(N, s, s2)

LEMMA SetParentFields ==
  ASSUME NEW N, NULL \notin N, NEW s \in Tree(N), NEW x \in N \cup {NULL},
         NEW p \in N \cup {NULL}
  PROVE  ParentSet(N, s, x, p, SetParent(s, x, p))
<1>0. DOMAIN s.node = N /\ Parents(s) \in [N -> N \cup {NULL}]
  BY TreeFields
<1>1. CASE x = NULL
  <2>1. SetParent(s, x, p) = s
    BY <1>1 DEF SetParent
  <2>2. Parents(s) = [z \in N |-> IF z = x THEN p ELSE Parents(s)[z]]
    BY <1>0, <1>1
  <2> QED
    BY <2>1, <2>2 DEF SameContent, ParentSet
<1>2. CASE x # NULL
  <2> DEFINE s2 == SetParent(s, x, p)
  <2>0. x \in N
    BY <1>2
  <2>1. s2 \in Tree(N)
    BY <1>2, <2>0 DEF SetParent, Tree
  <2>2. /\ s2.root = s.root /\ DOMAIN s.node = N
        /\ s2.node = [s.node EXCEPT ![x] = [s.node[x] EXCEPT !.parent = p]]
    BY <1>2 DEF SetParent, Tree
  <2>3. ASSUME NEW z \in N
        PROVE  /\ s2.node[z].left = s.node[z].left /\ s2.node[z].right = s.node[z].right
               /\ s2.node[z].color = s.node[z].color
               /\ s2.node[z].key = s.node[z].key /\ s2.node[z].value = s.node[z].value
               /\ s2.node[z].parent = IF z = x THEN p ELSE s.node[z].parent
    BY <2>0, <2>2 DEF Tree
  <2>4. DOMAIN s2.node = N
    BY <2>2
  <2> HIDE DEF s2
  <2>5. Lefts(s2) = Lefts(s) /\ Rights(s2) = Rights(s)
    BY <2>2, <2>3, <2>4 DEF Lefts, Rights
  <2>6. Colors(s2) = Colors(s) /\ SameContent(N, s, s2)
    BY <2>2, <2>3, <2>4 DEF SameContent, Colors
  <2>7. Parents(s2) = [z \in N |-> IF z = x THEN p ELSE Parents(s)[z]]
    BY <2>2, <2>3, <2>4 DEF Parents
  <2> QED
    BY <2>1, <2>2, <2>5, <2>6, <2>7 DEF s2, ParentSet
<1> QED
  BY <1>1, <1>2

LEMMA SetLeftFields ==
  ASSUME NEW N, NEW s \in Tree(N), NEW x \in N, NEW y \in N \cup {NULL},
         NEW s2, s2 = [s EXCEPT !.node[x].left = y]
  PROVE  LeftSet(N, s, x, y, s2)
<1>1. s2 \in Tree(N)
  BY DEF Tree
<1>2. /\ s2.root = s.root /\ DOMAIN s.node = N
      /\ s2.node = [s.node EXCEPT ![x] = [s.node[x] EXCEPT !.left = y]]
  BY DEF Tree
<1>3. ASSUME NEW z \in N
      PROVE  /\ s2.node[z].right = s.node[z].right /\ s2.node[z].parent = s.node[z].parent
             /\ s2.node[z].color = s.node[z].color
             /\ s2.node[z].key = s.node[z].key /\ s2.node[z].value = s.node[z].value
             /\ s2.node[z].left = IF z = x THEN y ELSE s.node[z].left
  BY <1>2 DEF Tree
<1>4. DOMAIN s2.node = N
  BY <1>2
<1>5. Rights(s2) = Rights(s) /\ Parents(s2) = Parents(s)
  BY <1>2, <1>3, <1>4 DEF Rights, Parents
<1>6. Colors(s2) = Colors(s) /\ SameContent(N, s, s2)
  BY <1>2, <1>3, <1>4 DEF SameContent, Colors
<1>7. Lefts(s2) = [Lefts(s) EXCEPT ![x] = y]
  BY <1>2, <1>3, <1>4, ZenonT(60) DEF Lefts
<1> QED
  BY <1>1, <1>2, <1>5, <1>6, <1>7 DEF LeftSet

LEMMA SetRightFields ==
  ASSUME NEW N, NEW s \in Tree(N), NEW x \in N, NEW y \in N \cup {NULL},
         NEW s2, s2 = [s EXCEPT !.node[x].right = y]
  PROVE  RightSet(N, s, x, y, s2)
<1>1. s2 \in Tree(N)
  BY DEF Tree
<1>2. /\ s2.root = s.root /\ DOMAIN s.node = N
      /\ s2.node = [s.node EXCEPT ![x] = [s.node[x] EXCEPT !.right = y]]
  BY DEF Tree
<1>3. ASSUME NEW z \in N
      PROVE  /\ s2.node[z].left = s.node[z].left /\ s2.node[z].parent = s.node[z].parent
             /\ s2.node[z].color = s.node[z].color
             /\ s2.node[z].key = s.node[z].key /\ s2.node[z].value = s.node[z].value
             /\ s2.node[z].right = IF z = x THEN y ELSE s.node[z].right
  BY <1>2 DEF Tree
<1>4. DOMAIN s2.node = N
  BY <1>2
<1>5. Lefts(s2) = Lefts(s) /\ Parents(s2) = Parents(s)
  BY <1>2, <1>3, <1>4 DEF Lefts, Parents
<1>6. Colors(s2) = Colors(s) /\ SameContent(N, s, s2)
  BY <1>2, <1>3, <1>4 DEF SameContent, Colors
<1>7. Rights(s2) = [Rights(s) EXCEPT ![x] = y]
  BY <1>2, <1>3, <1>4, ZenonT(60) DEF Rights
<1> QED
  BY <1>1, <1>2, <1>5, <1>6, <1>7 DEF RightSet

LEMMA SetRootFields ==
  ASSUME NEW N, NEW s \in Tree(N), NEW y \in N \cup {NULL}, NEW s2, s2 = [s EXCEPT !.root = y]
  PROVE  /\ s2 \in Tree(N) /\ s2.root = y
         /\ Rights(s2) = Rights(s) /\ Lefts(s2) = Lefts(s)
         /\ Parents(s2) = Parents(s) /\ Colors(s2) = Colors(s) /\ SameContent(N, s, s2)
<1>1. s2 \in Tree(N) /\ s2.root = y /\ s2.node = s.node
  BY DEF Tree
<1> QED
  BY <1>1 DEF Lefts, Rights, Parents, Colors, SameContent

(* replace_node puts w, or nothing, where x was. *)
Replaced(N, s, x, w, s2) ==
  /\ s2 \in Tree(N) /\ s2.root = IF Parents(s)[x] = NULL THEN w ELSE s.root
  /\ Lefts(s2) = [z \in N |-> IF Lefts(s)[z] = x THEN w ELSE Lefts(s)[z]]
  /\ Rights(s2) = [z \in N |-> IF Rights(s)[z] = x THEN w ELSE Rights(s)[z]]
  /\ Parents(s2) = [z \in N |-> IF z = w THEN Parents(s)[x] ELSE Parents(s)[z]]
  /\ Colors(s2) = Colors(s) /\ SameContent(N, s, s2)

ShapeOf(s, U) == Shape(DOMAIN s.node, Lefts(s), Rights(s), Parents(s), s.root, U)

(* replace_node (hextype_rbtree.cc:166): the place of x among the children  *)
(* of its parent goes to w, which may be nothing.                           *)
LEMMA ReplaceNode ==
  ASSUME NEW N, NEW s \in Tree(N), NEW U, ShapeOf(s, U), NEW x \in N, NEW w \in N \cup {NULL}
  PROVE  Replaced(N, s, x, w, replace_node(s, x, w))
<1> DEFINE p == s.node[x].parent
           linked == IF p = NULL THEN [s EXCEPT !.root = w]
                     ELSE IF s.node[p].left = x THEN [s EXCEPT !.node[p].left = w]
                     ELSE [s EXCEPT !.node[p].right = w]
           s2 == SetParent(linked, w, p)
<1>1. /\ DOMAIN s.node = N /\ s.root \in N \cup {NULL}
      /\ Lefts(s) \in [N -> N \cup {NULL}] /\ Rights(s) \in [N -> N \cup {NULL}]
      /\ Parents(s) \in [N -> N \cup {NULL}]
      /\ \A z \in N : Lefts(s)[z] = s.node[z].left /\ Rights(s)[z] = s.node[z].right
      /\ p = Parents(s)[x] /\ p \in N \cup {NULL}
  BY TreeFields
<1>2. Shape(N, Lefts(s), Rights(s), Parents(s), s.root, U)
  BY <1>1 DEF ShapeOf
<1>3. /\ \A z \in N : Lefts(s)[z] = x \/ Rights(s)[z] = x => p = z
      /\ NULL \notin N
  <2>1. \A z \in N : Lefts(s)[z] = x \/ Rights(s)[z] = x => Parents(s)[x] = z
    BY <1>2, OneParent
  <2> QED
    BY <1>1, <1>2, <2>1 DEF Shape, Typed
<1>4. p # NULL => x = Lefts(s)[p] \/ x = Rights(s)[p]
  BY <1>1, <1>2 DEF Shape, LinkedAt
<1>5. \A z \in N : Lefts(s)[z] = x => Rights(s)[z] # x
  BY <1>2, <1>3, Kin
<1> HIDE DEF p
<1>6. /\ linked \in Tree(N) /\ linked.root = IF p = NULL THEN w ELSE s.root
      /\ Lefts(linked) = [z \in N |-> IF Lefts(s)[z] = x THEN w ELSE Lefts(s)[z]]
      /\ Rights(linked) = [z \in N |-> IF Rights(s)[z] = x THEN w ELSE Rights(s)[z]]
      /\ Parents(linked) = Parents(s) /\ Colors(linked) = Colors(s)
      /\ SameContent(N, s, linked)
  <2>1. CASE p = NULL
    <3>1. linked = [s EXCEPT !.root = w]
      BY <2>1
    <3> HIDE DEF linked
    <3>2. /\ linked \in Tree(N) /\ linked.root = w
          /\ Rights(linked) = Rights(s) /\ Lefts(linked) = Lefts(s)
          /\ Parents(linked) = Parents(s) /\ Colors(linked) = Colors(s)
          /\ SameContent(N, s, linked)
      BY <3>1, SetRootFields
    <3>3. \A z \in N : Lefts(s)[z] # x /\ Rights(s)[z] # x
      BY <1>3, <2>1
    <3> QED
      BY <1>1, <2>1, <3>2, <3>3
  <2>2. CASE p # NULL /\ Lefts(s)[p] = x
    <3>1. linked = [s EXCEPT !.node[p].left = w] /\ p \in N
      BY <1>1, <2>2
    <3> HIDE DEF linked
    <3>2. /\ linked \in Tree(N) /\ linked.root = s.root
          /\ Lefts(linked) = [Lefts(s) EXCEPT ![p] = w] /\ Rights(linked) = Rights(s)
          /\ Parents(linked) = Parents(s) /\ Colors(linked) = Colors(s)
          /\ SameContent(N, s, linked)
      BY <3>1, SetLeftFields DEF LeftSet
    <3>3. \A z \in N : (Lefts(s)[z] = x <=> z = p) /\ Rights(s)[z] # x
      BY <1>3, <1>5, <2>2, <3>1
    <3>4. \A z \in N : [Lefts(s) EXCEPT ![p] = w][z] = IF Lefts(s)[z] = x THEN w ELSE Lefts(s)[z]
      BY <1>1, <3>1, <3>3
    <3>5. Lefts(linked) = [z \in N |-> IF Lefts(s)[z] = x THEN w ELSE Lefts(s)[z]]
      BY <1>1, <3>2, <3>4, ZenonT(60)
    <3>6. Rights(linked) = [z \in N |-> IF Rights(s)[z] = x THEN w ELSE Rights(s)[z]]
      BY <1>1, <3>2, <3>3
    <3> QED
      BY <2>2, <3>2, <3>5, <3>6
  <2>3. CASE p # NULL /\ Lefts(s)[p] # x
    <3>1. linked = [s EXCEPT !.node[p].right = w] /\ p \in N
      BY <1>1, <2>3
    <3> HIDE DEF linked
    <3>2. /\ linked \in Tree(N) /\ linked.root = s.root
          /\ Rights(linked) = [Rights(s) EXCEPT ![p] = w] /\ Lefts(linked) = Lefts(s)
          /\ Parents(linked) = Parents(s) /\ Colors(linked) = Colors(s)
          /\ SameContent(N, s, linked)
      BY <3>1, SetRightFields DEF RightSet
    <3>3. \A z \in N : Rights(s)[z] = x => z = p
      BY <1>3
    <3>4. Rights(s)[p] = x
      BY <1>4, <2>3
    <3>5. \A z \in N : Lefts(s)[z] # x
      BY <1>3, <2>3
    <3>6. \A z \in N : [Rights(s) EXCEPT ![p] = w][z] = IF Rights(s)[z] = x THEN w ELSE Rights(s)[z]
      BY <1>1, <3>1, <3>3, <3>4
    <3>7. Rights(linked) = [z \in N |-> IF Rights(s)[z] = x THEN w ELSE Rights(s)[z]]
      BY <1>1, <3>2, <3>6, ZenonT(60)
    <3>8. Lefts(linked) = [z \in N |-> IF Lefts(s)[z] = x THEN w ELSE Lefts(s)[z]]
      BY <1>1, <3>2, <3>5
    <3> QED
      BY <2>3, <3>2, <3>7, <3>8
  <2> QED
    BY <2>1, <2>2, <2>3
<1> HIDE DEF linked
<1>7. /\ s2 \in Tree(N) /\ s2.root = linked.root
      /\ Lefts(s2) = Lefts(linked) /\ Rights(s2) = Rights(linked)
      /\ Parents(s2) = [z \in N |-> IF z = w THEN p ELSE Parents(linked)[z]]
      /\ Colors(s2) = Colors(linked) /\ SameContent(N, linked, s2)
  <2>1. p \in N \cup {NULL} /\ NULL \notin N /\ linked \in Tree(N)
    BY <1>1, <1>3, <1>6
  <2> QED
    BY <2>1, SetParentFields DEF ParentSet
<1>8. SameContent(N, s, s2)
  BY <1>6, <1>7 DEF SameContent
<1>9. s2 = replace_node(s, x, w)
  BY DEF replace_node, s2, linked, p
<1> QED
  BY <1>1, <1>6, <1>7, <1>8, <1>9 DEF Replaced

(* s2 is s, rotated at x: y = B[x] takes the place of x. *)
RotatedTree(N, s, s2, A, B, x, y, A2, B2) ==
  /\ s2 \in Tree(N) /\ SameContent(N, s, s2) /\ Colors(s2) = Colors(s)
  /\ Rotated(N, A, B, Parents(s), s.root, x, y, A2, B2, Parents(s2), s2.root)

(* rotate_left (hextype_rbtree.cc:144) and rotate_right                     *)
(* (hextype_rbtree.cc:155), composed of the assignments above, do to the    *)
(* pointers what Rotated says.                                              *)
LEMMA RotateLeft ==
  ASSUME NEW N, NEW s \in Tree(N), NEW U, ShapeOf(s, U),
         NEW x \in N, NEW y \in N, y = Rights(s)[x]
  PROVE  RotatedTree(N, s, rotate_left(s, x), Lefts(s), Rights(s), x, y,
         Lefts(rotate_left(s, x)), Rights(rotate_left(s, x)))
<1> DEFINE A == Lefts(s)
           B == Rights(s)
           P == Parents(s)
<1>1. /\ DOMAIN s.node = N /\ s.root \in N \cup {NULL} /\ NULL \notin N
      /\ A \in [N -> N \cup {NULL}] /\ B \in [N -> N \cup {NULL}] /\ P \in [N -> N \cup {NULL}]
      /\ y = s.node[x].right
  BY TreeFields DEF ShapeOf, Shape, Typed
<1>2. /\ A[y] # x /\ A[y] # y /\ x # y
  <2>1. Shape(N, A, B, P, s.root, U)
    BY <1>1, Mirror DEF ShapeOf
  <2>2. B[x] # x /\ P[y] = x
    <3>1. LinkedAt(A, B, P, s.root, x) /\ B[x] = y /\ y # NULL
      BY <1>1, <2>1 DEF Shape
    <3>2. B[x] # x
      BY <2>1, Kin
    <3> QED
      BY <3>1, <3>2 DEF LinkedAt
  <2>3. A[y] # NULL => P[y] # A[y]
    BY <2>1, Kin
  <2>4. A[y] # y /\ x # NULL
    BY <2>1, <1>1, Kin
  <2> QED
    BY <2>2, <2>3, <2>4
<1>3. PICK a \in N \cup {NULL} : a = A[y]
  BY <1>1
<1> DEFINE s1 == replace_node(s, x, y)
           s2 == [s1 EXCEPT !.node[x].right = a]
           s3 == SetParent(s2, a, x)
           s4 == [s3 EXCEPT !.node[y].left = x]
           s5 == SetParent(s4, x, y)
<1>4. Replaced(N, s, x, y, s1)
  BY ReplaceNode
<1> HIDE DEF s1
<1>5. s1 \in Tree(N) /\ s1.node[y].left = a
  <2>1. s1 \in Tree(N) /\ Lefts(s1)[y] = a
    BY <1>1, <1>2, <1>3, <1>4 DEF Replaced
  <2> QED
    BY <2>1, TreeFields
<1>6. RightSet(N, s1, x, a, s2)
  BY <1>5, SetRightFields
<1> HIDE DEF s2
<1>7. ParentSet(N, s2, a, x, s3)
  BY <1>1, <1>6, SetParentFields DEF RightSet
<1> HIDE DEF s3
<1>8. LeftSet(N, s3, y, x, s4)
  BY <1>7, SetLeftFields DEF ParentSet
<1> HIDE DEF s4
<1>9. ParentSet(N, s4, x, y, s5)
  BY <1>1, <1>8, SetParentFields DEF LeftSet
<1>10. rotate_left(s, x) = s5
  <2>1. x # NULL /\ y = s.node[x].right
    BY <1>1
  <2>2. s1 = replace_node(s, x, s.node[x].right)
    BY <2>1 DEF s1
  <2>3. s3 = SetParent([s1 EXCEPT !.node[x].right = s1.node[y].left], s1.node[y].left, x)
    BY <1>5 DEF s2, s3
  <2>4. s5 = [s3 EXCEPT !.node[y].left = x, !.node[x].parent = y]
    BY <2>1 DEF s4, SetParent
  <2> QED
    BY <2>1, <2>2, <2>3, <2>4 DEF rotate_left
<1> HIDE DEF s5
<1>11. SameContent(N, s, s5)
  BY <1>4, <1>6, <1>7, <1>8, <1>9 DEF SameContent, Replaced, LeftSet, RightSet, ParentSet
<1>12. s5.root = (IF P[x] = NULL THEN y ELSE s.root) /\ Colors(s5) = Colors(s)
  BY <1>4, <1>6, <1>7, <1>8, <1>9 DEF Replaced, LeftSet, RightSet, ParentSet
<1>13. /\ Lefts(s1) = [z \in N |-> IF A[z] = x THEN y ELSE A[z]]
       /\ Rights(s1) = [z \in N |-> IF B[z] = x THEN y ELSE B[z]]
       /\ Parents(s1) = [z \in N |-> IF z = y THEN P[x] ELSE P[z]]
  BY <1>4 DEF Replaced
<1>14. Lefts(s5) = [Lefts(s1) EXCEPT ![y] = x] /\ Rights(s5) = [Rights(s1) EXCEPT ![x] = a]
  BY <1>6, <1>7, <1>8, <1>9 DEF LeftSet, RightSet, ParentSet
<1>15. \A z \in N : Parents(s5)[z] = IF z = x THEN y ELSE IF z = a THEN x ELSE Parents(s1)[z]
  BY <1>6, <1>7, <1>8, <1>9 DEF LeftSet, RightSet, ParentSet
<1> DEFINE A2 == Lefts(s5)
           B2 == Rights(s5)
           P2 == Parents(s5)
<1>16. /\ s5 \in Tree(N)
       /\ A2 \in [N -> N \cup {NULL}] /\ B2 \in [N -> N \cup {NULL}] /\ P2 \in [N -> N \cup {NULL}]
  BY <1>9, TreeFields DEF ParentSet
<1>17. \A z \in N : A2[z] = IF z = y THEN x ELSE IF A[z] = x THEN y ELSE A[z]
  BY <1>13, <1>14
<1>18. \A z \in N : B2[z] = IF z = x THEN A[y] ELSE IF B[z] = x THEN y ELSE B[z]
  BY <1>3, <1>13, <1>14
<1>19. \A z \in N : P2[z] = IF z = x THEN y ELSE IF z = y THEN P[x]
                             ELSE IF z = A[y] THEN x ELSE P[z]
  BY <1>2, <1>3, <1>13, <1>15
<1>20. y = B[x]
  OBVIOUS
<1> HIDE DEF A2, B2, P2, A, B, P
<1>21. Rotated(N, A, B, P, s.root, x, y, A2, B2, P2, s5.root)
  BY <1>12, <1>16, <1>17, <1>18, <1>19, <1>20 DEF Rotated
<1> QED
  BY <1>10, <1>11, <1>12, <1>16, <1>21 DEF RotatedTree, A, B, P, A2, B2, P2

LEMMA RotateRight ==
  ASSUME NEW N, NEW s \in Tree(N), NEW U, ShapeOf(s, U),
         NEW x \in N, NEW y \in N, y = Lefts(s)[x]
  PROVE  RotatedTree(N, s, rotate_right(s, x), Rights(s), Lefts(s), x, y,
         Rights(rotate_right(s, x)), Lefts(rotate_right(s, x)))
<1> DEFINE A == Rights(s)
           B == Lefts(s)
           P == Parents(s)
<1>1. /\ DOMAIN s.node = N /\ s.root \in N \cup {NULL} /\ NULL \notin N
      /\ A \in [N -> N \cup {NULL}] /\ B \in [N -> N \cup {NULL}] /\ P \in [N -> N \cup {NULL}]
      /\ y = s.node[x].left
  BY TreeFields DEF ShapeOf, Shape, Typed
<1>2. /\ A[y] # x /\ A[y] # y /\ x # y
  <2>1. Shape(N, A, B, P, s.root, U)
    BY <1>1, Mirror DEF ShapeOf
  <2>2. B[x] # x /\ P[y] = x
    <3>1. LinkedAt(A, B, P, s.root, x) /\ B[x] = y /\ y # NULL
      BY <1>1, <2>1 DEF Shape
    <3>2. B[x] # x
      BY <2>1, Kin
    <3> QED
      BY <3>1, <3>2 DEF LinkedAt
  <2>3. A[y] # NULL => P[y] # A[y]
    BY <2>1, Kin
  <2>4. A[y] # y /\ x # NULL
    BY <2>1, <1>1, Kin
  <2> QED
    BY <2>2, <2>3, <2>4
<1>3. PICK a \in N \cup {NULL} : a = A[y]
  BY <1>1
<1> DEFINE s1 == replace_node(s, x, y)
           s2 == [s1 EXCEPT !.node[x].left = a]
           s3 == SetParent(s2, a, x)
           s4 == [s3 EXCEPT !.node[y].right = x]
           s5 == SetParent(s4, x, y)
<1>4. Replaced(N, s, x, y, s1)
  BY ReplaceNode
<1> HIDE DEF s1
<1>5. s1 \in Tree(N) /\ s1.node[y].right = a
  <2>1. s1 \in Tree(N) /\ Rights(s1)[y] = a
    BY <1>1, <1>2, <1>3, <1>4 DEF Replaced
  <2> QED
    BY <2>1, TreeFields
<1>6. LeftSet(N, s1, x, a, s2)
  BY <1>5, SetLeftFields
<1> HIDE DEF s2
<1>7. ParentSet(N, s2, a, x, s3)
  BY <1>1, <1>6, SetParentFields DEF LeftSet
<1> HIDE DEF s3
<1>8. RightSet(N, s3, y, x, s4)
  BY <1>7, SetRightFields DEF ParentSet
<1> HIDE DEF s4
<1>9. ParentSet(N, s4, x, y, s5)
  BY <1>1, <1>8, SetParentFields DEF RightSet
<1>10. rotate_right(s, x) = s5
  <2>1. x # NULL /\ y = s.node[x].left
    BY <1>1
  <2>2. s1 = replace_node(s, x, s.node[x].left)
    BY <2>1 DEF s1
  <2>3. s3 = SetParent([s1 EXCEPT !.node[x].left = s1.node[y].right], s1.node[y].right, x)
    BY <1>5 DEF s2, s3
  <2>4. s5 = [s3 EXCEPT !.node[y].right = x, !.node[x].parent = y]
    BY <2>1 DEF s4, SetParent
  <2> QED
    BY <2>1, <2>2, <2>3, <2>4 DEF rotate_right
<1> HIDE DEF s5
<1>11. SameContent(N, s, s5)
  BY <1>4, <1>6, <1>7, <1>8, <1>9 DEF SameContent, Replaced, LeftSet, RightSet, ParentSet
<1>12. s5.root = (IF P[x] = NULL THEN y ELSE s.root) /\ Colors(s5) = Colors(s)
  BY <1>4, <1>6, <1>7, <1>8, <1>9 DEF Replaced, LeftSet, RightSet, ParentSet
<1>13. /\ Rights(s1) = [z \in N |-> IF A[z] = x THEN y ELSE A[z]]
       /\ Lefts(s1) = [z \in N |-> IF B[z] = x THEN y ELSE B[z]]
       /\ Parents(s1) = [z \in N |-> IF z = y THEN P[x] ELSE P[z]]
  BY <1>4 DEF Replaced
<1>14. Rights(s5) = [Rights(s1) EXCEPT ![y] = x] /\ Lefts(s5) = [Lefts(s1) EXCEPT ![x] = a]
  BY <1>6, <1>7, <1>8, <1>9 DEF LeftSet, RightSet, ParentSet
<1>15. \A z \in N : Parents(s5)[z] = IF z = x THEN y ELSE IF z = a THEN x ELSE Parents(s1)[z]
  BY <1>6, <1>7, <1>8, <1>9 DEF LeftSet, RightSet, ParentSet
<1> DEFINE A2 == Rights(s5)
           B2 == Lefts(s5)
           P2 == Parents(s5)
<1>16. /\ s5 \in Tree(N)
       /\ A2 \in [N -> N \cup {NULL}] /\ B2 \in [N -> N \cup {NULL}] /\ P2 \in [N -> N \cup {NULL}]
  BY <1>9, TreeFields DEF ParentSet
<1>17. \A z \in N : A2[z] = IF z = y THEN x ELSE IF A[z] = x THEN y ELSE A[z]
  BY <1>13, <1>14
<1>18. \A z \in N : B2[z] = IF z = x THEN A[y] ELSE IF B[z] = x THEN y ELSE B[z]
  BY <1>3, <1>13, <1>14
<1>19. \A z \in N : P2[z] = IF z = x THEN y ELSE IF z = y THEN P[x]
                             ELSE IF z = A[y] THEN x ELSE P[z]
  BY <1>2, <1>3, <1>13, <1>15
<1>20. y = B[x]
  OBVIOUS
<1> HIDE DEF A2, B2, P2, A, B, P
<1>21. Rotated(N, A, B, P, s.root, x, y, A2, B2, P2, s5.root)
  BY <1>12, <1>16, <1>17, <1>18, <1>19, <1>20 DEF Rotated
<1> QED
  BY <1>10, <1>11, <1>12, <1>16, <1>21 DEF RotatedTree, A, B, P, A2, B2, P2

(* A and B are the two sides of tree s, and E the order from A to B. *)
Faced(s, A, B, E) ==
  \/ A = Lefts(s) /\ B = Rights(s) /\ E = Less
  \/ A = Rights(s) /\ B = Lefts(s) /\ E = Greater

(* s2 is s with x rotated down to side A. *)
Turned(s, A, B, E, x, s2) ==
  \/ A = Lefts(s) /\ B = Rights(s) /\ E = Less /\ s2 = rotate_left(s, x)
  \/ A = Rights(s) /\ B = Lefts(s) /\ E = Greater /\ s2 = rotate_right(s, x)

Sound(N, s, v, e, d, U, H) ==
  /\ s \in Tree(N) /\ N \in SUBSET Int
  /\ Shape(N, Lefts(s), Rights(s), Parents(s), s.root, U)
  /\ Ordered(N, Lefts(s), Rights(s), U, Less)
  /\ HeightsTyped(N, H) /\ Balanced(N, Lefts(s), Rights(s), Colors(s), v, e, d, H)

(* A tree, seen from either side. *)
LEMMA View ==
  ASSUME NEW N, NEW s, NEW v, NEW e, NEW d, NEW U, NEW H, Sound(N, s, v, e, d, U, H),
         NEW A, NEW B, NEW E, Faced(s, A, B, E)
  PROVE  /\ Shape(N, A, B, Parents(s), s.root, U) /\ Ordered(N, A, B, U, E)
         /\ HeightsTyped(N, H) /\ Balanced(N, A, B, Colors(s), v, e, d, H)
         /\ \A a, b, c \in N : <<a, b>> \in E /\ <<b, c>> \in E => <<a, c>> \in E
         /\ s \in Tree(N) /\ N \in SUBSET Int
<1>1. /\ s \in Tree(N) /\ N \in SUBSET Int
      /\ Shape(N, Lefts(s), Rights(s), Parents(s), s.root, U)
      /\ Ordered(N, Lefts(s), Rights(s), U, Less)
      /\ HeightsTyped(N, H) /\ Balanced(N, Lefts(s), Rights(s), Colors(s), v, e, d, H)
  BY DEF Sound
<1>2. E \in {Less, Greater}
  BY DEF Faced
<1>3. \A a, b, c \in N : <<a, b>> \in E /\ <<b, c>> \in E => <<a, c>> \in E
  BY <1>1, <1>2, Transitive
<1>4. Shape(N, Rights(s), Lefts(s), Parents(s), s.root, U)
  BY <1>1, Mirror
<1>5. Ordered(N, Rights(s), Lefts(s), U, Greater)
  BY <1>1, MirrorOrder
<1>6. Balanced(N, Rights(s), Lefts(s), Colors(s), v, e, d, H)
  BY <1>1, MirrorBalance
<1> QED
  BY <1>1, <1>3, <1>4, <1>5, <1>6 DEF Faced

LEMMA Review ==
  ASSUME NEW N \in SUBSET Int, NEW s \in Tree(N), NEW v, NEW e, NEW d, NEW U, NEW H,
         NEW A, NEW B, NEW E, Faced(s, A, B, E),
         Shape(N, A, B, Parents(s), s.root, U), Ordered(N, A, B, U, E),
         HeightsTyped(N, H), Balanced(N, A, B, Colors(s), v, e, d, H)
  PROVE  Sound(N, s, v, e, d, U, H)
<1>1. CASE A = Lefts(s) /\ B = Rights(s) /\ E = Less
  BY <1>1 DEF Sound
<1>2. CASE A = Rights(s) /\ B = Lefts(s) /\ E = Greater
  <2>1. Shape(N, B, A, Parents(s), s.root, U)
    BY Mirror
  <2>2. Ordered(N, B, A, U, Less)
    BY <1>2, <2>1, MirrorOrder
  <2>3. Balanced(N, B, A, Colors(s), v, e, d, H)
    BY MirrorBalance
  <2> QED
    BY <1>2, <2>1, <2>2, <2>3 DEF Sound
<1> QED
  BY <1>1, <1>2 DEF Faced

(* A rotation does to side A and side B what it does to the tree. *)
LEMMA Turn ==
  ASSUME NEW N, NEW s \in Tree(N), NEW U, ShapeOf(s, U), NEW A, NEW B, NEW E,
         NEW x \in N, NEW y \in N, y = B[x], NEW s2, Turned(s, A, B, E, x, s2)
  PROVE  \E A2, B2 : Faced(s2, A2, B2, E) /\ RotatedTree(N, s, s2, A, B, x, y, A2, B2)
<1>1. CASE A = Lefts(s) /\ B = Rights(s) /\ E = Less /\ s2 = rotate_left(s, x)
  <2>1. RotatedTree(N, s, s2, A, B, x, y, Lefts(s2), Rights(s2))
    BY <1>1, RotateLeft
  <2>2. Faced(s2, Lefts(s2), Rights(s2), E)
    BY <1>1 DEF Faced
  <2> QED
    BY <2>1, <2>2
<1>2. CASE A = Rights(s) /\ B = Lefts(s) /\ E = Greater /\ s2 = rotate_right(s, x)
  <2>1. RotatedTree(N, s, s2, A, B, x, y, Rights(s2), Lefts(s2))
    BY <1>2, RotateRight
  <2>2. Faced(s2, Rights(s2), Lefts(s2), E)
    BY <1>2 DEF Faced
  <2> QED
    BY <2>1, <2>2
<1> QED
  BY <1>1, <1>2 DEF Turned

(* s2 is s but for colours. *)
Recoloured(N, s, s2) == s2 \in Tree(N) /\ SameLinks(N, s, s2) /\ SameContent(N, s, s2)

(* A node is coloured, and another one. *)
LEMMA RecolouredTwice ==
  ASSUME NEW N, NEW s \in Tree(N), NEW x \in N, NEW c \in Color, NEW y \in N, NEW b \in Color
  PROVE  /\ Recoloured(N, s, SetColor(SetColor(s, x, c), y, b))
         /\ \A z \in N : Colors(SetColor(SetColor(s, x, c), y, b))[z] =
                         IF z = y THEN b ELSE IF z = x THEN c ELSE Colors(s)[z]
<1> DEFINE s1 == SetColor(s, x, c)
           s2 == SetColor(s1, y, b)
<1>1. ColorSet(N, s, x, c, s1)
  BY SetColorFields
<1> HIDE DEF s1
<1>2. ColorSet(N, s1, y, b, s2)
  <2>1. s1 \in Tree(N)
    BY <1>1 DEF ColorSet
  <2> QED
    BY <2>1, SetColorFields
<1> HIDE DEF s2
<1>3. Recoloured(N, s, s2)
  BY <1>1, <1>2 DEF Recoloured, ColorSet, SameLinks, SameContent
<1>4. Colors(s) \in [N -> Color]
  BY TreeFields
<1>5. \A z \in N : Colors(s2)[z] = IF z = y THEN b ELSE IF z = x THEN c ELSE Colors(s)[z]
  BY <1>1, <1>2, <1>4 DEF ColorSet
<1> QED
  BY <1>3, <1>5 DEF s1, s2

(* s2 is s with the colours c for x, b for y, and a for w. *)
Painted(N, s, x, c, y, b, w, a, s2) ==
  /\ Recoloured(N, s, s2)
  /\ \A z \in N : Colors(s2)[z] =
       IF z = w THEN a ELSE IF z = y THEN b ELSE IF z = x THEN c ELSE Colors(s)[z]

LEMMA RecolouredThrice ==
  ASSUME NEW N, NEW s \in Tree(N), NEW x \in N, NEW c \in Color, NEW y \in N, NEW b \in Color,
         NEW w \in N, NEW a \in Color
  PROVE  Painted(N, s, x, c, y, b, w, a, SetColor(SetColor(SetColor(s, x, c), y, b), w, a))
<1> DEFINE s2 == SetColor(SetColor(s, x, c), y, b)
           s3 == SetColor(s2, w, a)
<1>1. /\ Recoloured(N, s, s2)
      /\ \A z \in N : Colors(s2)[z] = IF z = y THEN b ELSE IF z = x THEN c ELSE Colors(s)[z]
  BY RecolouredTwice
<1> HIDE DEF s2
<1>2. s2 \in Tree(N)
  BY <1>1 DEF Recoloured
<1>3. ColorSet(N, s2, w, a, s3) /\ Colors(s2) \in [N -> Color]
  BY <1>2, SetColorFields, TreeFields
<1> HIDE DEF s3
<1>4. Recoloured(N, s, s3)
  BY <1>1, <1>3 DEF Recoloured, ColorSet, SameLinks, SameContent
<1>5. \A z \in N : Colors(s3)[z] = IF z = w THEN a ELSE Colors(s2)[z]
  BY <1>3 DEF ColorSet
<1>6. \A z \in N : Colors(s3)[z] =
        IF z = w THEN a ELSE IF z = y THEN b ELSE IF z = x THEN c ELSE Colors(s)[z]
  BY <1>1, <1>5
<1> QED
  BY <1>4, <1>6 DEF s2, s3, Painted

(* What a rotation at x makes of s, whose colours have become those of s1.  *)
TurnedInto(N, s, s1, U, A, B, E, x, y, s2, A2, B2) ==
  /\ s2 \in Tree(N) /\ SameContent(N, s, s2) /\ Colors(s2) = Colors(s1)
  /\ Faced(s2, A2, B2, E)
  /\ Rotated(N, A, B, Parents(s), s.root, x, y, A2, B2, Parents(s2), s2.root)
  /\ Shape(N, A2, B2, Parents(s2), s2.root, RotatedSubtrees(N, A, U, x, y))
  /\ Ordered(N, A2, B2, RotatedSubtrees(N, A, U, x, y), E)

(* A tree that has turned has the shape and the order of a search tree. *)
LEMMA TurnSound ==
  ASSUME NEW N, NEW s, NEW v, NEW e, NEW d, NEW U, NEW H, Sound(N, s, v, e, d, U, H),
         NEW A, NEW B, NEW E, Faced(s, A, B, E), NEW x \in N, NEW y \in N, y = B[x],
         NEW s1, Recoloured(N, s, s1), NEW s2, Turned(s1, A, B, E, x, s2)
  PROVE  \E A2, B2 : TurnedInto(N, s, s1, U, A, B, E, x, y, s2, A2, B2)
<1>1. /\ Shape(N, A, B, Parents(s), s.root, U) /\ Ordered(N, A, B, U, E)
      /\ s \in Tree(N) /\ N \in SUBSET Int
  BY View
<1>2. \A a, b, c \in N : <<a, b>> \in E /\ <<b, c>> \in E => <<a, c>> \in E
  BY View
<1>3. s1 \in Tree(N) /\ SameLinks(N, s, s1) /\ SameContent(N, s, s1)
  BY DEF Recoloured
<1>4. DOMAIN s.node = N /\ DOMAIN s1.node = N
  BY <1>1, <1>3, TreeFields
<1>5. /\ s1.root = s.root /\ Parents(s1) = Parents(s)
      /\ Lefts(s1) = Lefts(s) /\ Rights(s1) = Rights(s)
  BY <1>3 DEF SameLinks
<1>6. ShapeOf(s1, U)
  BY <1>4, <1>5 DEF ShapeOf, Sound
<1>7. PICK A2, B2 : Faced(s2, A2, B2, E) /\ RotatedTree(N, s1, s2, A, B, x, y, A2, B2)
  BY <1>3, <1>6, Turn
<1>8. /\ s2 \in Tree(N) /\ SameContent(N, s1, s2) /\ Colors(s2) = Colors(s1)
      /\ Rotated(N, A, B, Parents(s), s.root, x, y, A2, B2, Parents(s2), s2.root)
  BY <1>5, <1>7 DEF RotatedTree
<1>9. SameContent(N, s, s2)
  BY <1>3, <1>8 DEF SameContent
<1>10. Shape(N, A2, B2, Parents(s2), s2.root, RotatedSubtrees(N, A, U, x, y))
  BY <1>1, <1>8, RotateShape
<1>11. Ordered(N, A2, B2, RotatedSubtrees(N, A, U, x, y), E)
  BY <1>1, <1>2, <1>8, RotateOrder
<1> QED
  BY <1>7, <1>8, <1>9, <1>10, <1>11 DEF TurnedInto

(* insert_case5: the grandparent x of n = B[y] goes down to side A. *)
LEMMA CaseInsert5 ==
  ASSUME NEW N, NEW s, NEW n0 \in N, NEW U, NEW H, Sound(N, s, NULL, n0, NULL, U, H),
         NEW A, NEW B, NEW E, Faced(s, A, B, E), NEW x \in N, NEW y \in N, y = B[x], n0 = B[y],
         Colors(s)[n0] = "RED", Colors(s)[y] = "RED", Col(Colors(s), A[x]) = "BLACK",
         s.root # n0 => Colors(s)[s.root] = "BLACK",
         NEW s2,
         Turned(SetColor(SetColor(s, y, "BLACK"), x, "RED"), A, B, E, x, s2)
  PROVE  /\ \E U2, H2 : Sound(N, s2, NULL, NULL, NULL, U2, H2)
         /\ s2 \in Tree(N) /\ SameContent(N, s, s2)
         /\ s2.root # NULL => Colors(s2)[s2.root] = "BLACK"
<1> DEFINE s1 == SetColor(SetColor(s, y, "BLACK"), x, "RED")
           P == Parents(s)
           C == Colors(s)
<1>1. /\ Shape(N, A, B, P, s.root, U)
      /\ HeightsTyped(N, H) /\ Balanced(N, A, B, C, NULL, n0, NULL, H)
      /\ s \in Tree(N) /\ N \in SUBSET Int
  BY View
<1>2. C \in [N -> Color] /\ s.root \in N \cup {NULL}
  BY <1>1, TreeFields
<1>3. /\ Recoloured(N, s, s1)
      /\ \A z \in N : Colors(s1)[z] = IF z = x THEN "RED" ELSE IF z = y THEN "BLACK" ELSE C[z]
  <2>1. "RED" \in Color /\ "BLACK" \in Color
    BY DEF Color
  <2> QED
    BY <1>1, <2>1, RecolouredTwice
<1> HIDE DEF s1
<1>4. PICK A2, B2 : TurnedInto(N, s, s1, U, A, B, E, x, y, s2, A2, B2)
  BY <1>3, TurnSound DEF s1
<1>5. /\ NULL \notin N /\ P[y] = x /\ P[n0] = y /\ x # y /\ y # n0 /\ x # n0 /\ A[y] # n0
      /\ s.root \in N
  <2>1. NULL \notin N /\ LinkedAt(A, B, P, s.root, x) /\ LinkedAt(A, B, P, s.root, y)
    BY <1>1 DEF Shape, Typed
  <2>2. P[y] = x /\ P[n0] = y
    BY <2>1 DEF LinkedAt
  <2>3. B[x] # x /\ B[y] # y /\ P[y] # B[y] /\ (A[y] # NULL => A[y] # B[y])
    BY <1>1, <2>1, Kin
  <2>4. s.root # NULL
    BY <1>1 DEF Shape, Sub
  <2> QED
    BY <1>2, <2>1, <2>2, <2>3, <2>4
<1>6. C[x] = "BLACK"
  <2>1. BalancedAt(A, B, C, NULL, n0, NULL, H, x)
    BY <1>1 DEF Balanced
  <2>2. C[x] = "RED" => Col(C, y) = "BLACK"
    BY <1>5, <2>1 DEF BalancedAt
  <2> QED
    BY <1>2, <1>5, <2>2 DEF Col, Color
<1>7. /\ Rotated(N, A, B, P, s.root, x, y, A2, B2, Parents(s2), s2.root)
      /\ Shape(N, A2, B2, Parents(s2), s2.root, RotatedSubtrees(N, A, U, x, y))
      /\ Ordered(N, A2, B2, RotatedSubtrees(N, A, U, x, y), E)
      /\ s2 \in Tree(N) /\ SameContent(N, s, s2) /\ Colors(s2) = Colors(s1)
      /\ Faced(s2, A2, B2, E)
  BY <1>4 DEF TurnedInto
<1>8. \E H2 : HeightsTyped(N, H2) /\ Balanced(N, A2, B2, Colors(s1), NULL, NULL, NULL, H2)
  <2>1. Exchange(N, A, P, x, y, NULL, n0, NULL, C, Colors(s1), NULL)
    BY <1>3, <1>5, <1>6 DEF Exchange
  <2> QED
    BY <1>1, <1>7, <2>1, RotateRed
<1>9. \E U2, H2 : Sound(N, s2, NULL, NULL, NULL, U2, H2)
  BY <1>1, <1>7, <1>8, Review
<1>10. s2.root # NULL => Colors(s2)[s2.root] = "BLACK"
  <2>1. s2.root = IF P[x] = NULL THEN y ELSE s.root
    BY <1>7 DEF Rotated
  <2>2. Shape(N, A, B, P, s.root, U) => P[s.root] = NULL
    BY <1>5 DEF Shape
  <2>3. s.root # y /\ s.root # n0
    BY <1>1, <1>5, <2>2
  <2> QED
    BY <1>1, <1>3, <1>5, <1>7, <2>1, <2>2, <2>3
<1> QED
  BY <1>7, <1>9, <1>10

(* The faces of two trees on which W looks the same. *)
KeptIn(W, s, s2) ==
  \A z \in W : /\ s2.node[z].left = s.node[z].left /\ s2.node[z].right = s.node[z].right
               /\ s2.node[z].parent = s.node[z].parent /\ s2.node[z].color = s.node[z].color

(* A and B are the two sides, and E the order that goes with them. *)
LEMMA Opposite ==
  ASSUME NEW s, NEW A, NEW B, NEW E, Faced(s, A, B, E)
  PROVE  /\ E \in {Less, Greater} /\ Less # Greater
         /\ E = Less => A = Lefts(s) /\ B = Rights(s)
         /\ E = Greater => A = Rights(s) /\ B = Lefts(s)
<1>1. <<0, 1>> \in Less /\ ~(<<0, 1>> \in Greater)
  BY DEF Less, Greater
<1>2. Less # Greater
  BY <1>1
<1> QED
  BY <1>2 DEF Faced

LEMMA KeptFaces ==
  ASSUME NEW N, NEW s \in Tree(N), NEW s2 \in Tree(N), NEW W \in SUBSET N,
         NEW A, NEW B, NEW E, Faced(s, A, B, E), NEW A2, NEW B2, Faced(s2, A2, B2, E),
         \A z \in W : /\ A2[z] = A[z] /\ B2[z] = B[z] /\ Parents(s2)[z] = Parents(s)[z]
                      /\ Colors(s2)[z] = Colors(s)[z]
  PROVE  KeptIn(W, s, s2)
<1>1. /\ E \in {Less, Greater}
      /\ E = Less => A = Lefts(s) /\ B = Rights(s) /\ A2 = Lefts(s2) /\ B2 = Rights(s2)
      /\ E = Greater => A = Rights(s) /\ B = Lefts(s) /\ A2 = Rights(s2) /\ B2 = Lefts(s2)
  BY Opposite
<1>2. \A z \in W : /\ Lefts(s2)[z] = Lefts(s)[z] /\ Rights(s2)[z] = Rights(s)[z]
                   /\ Parents(s2)[z] = Parents(s)[z] /\ Colors(s2)[z] = Colors(s)[z]
  BY <1>1
<1>3. /\ \A z \in N : /\ Lefts(s)[z] = s.node[z].left /\ Rights(s)[z] = s.node[z].right
                      /\ Parents(s)[z] = s.node[z].parent /\ Colors(s)[z] = s.node[z].color
      /\ \A z \in N : /\ Lefts(s2)[z] = s2.node[z].left /\ Rights(s2)[z] = s2.node[z].right
                      /\ Parents(s2)[z] = s2.node[z].parent /\ Colors(s2)[z] = s2.node[z].color
  BY TreeFields
<1> QED
  BY <1>2, <1>3 DEF KeptIn

(* insert_case3: the red uncle and the parent turn black, the grandparent   *)
(* red.                                                                     *)
LEMMA CaseInsert3 ==
  ASSUME NEW N, NEW s, NEW n0 \in N, NEW U, NEW H, Sound(N, s, NULL, n0, NULL, U, H),
         NEW g \in N, NEW x \in N, NEW y \in N, x = Lefts(s)[g], y = Rights(s)[g],
         Parents(s)[n0] \in {x, y}, Colors(s)[x] = "RED", Colors(s)[y] = "RED",
         s.root # n0 => Colors(s)[s.root] = "BLACK",
         NEW s2, Recoloured(N, s, s2),
         \A z \in N : Colors(s2)[z] = IF z = g THEN "RED"
                                      ELSE IF z \in {x, y} THEN "BLACK" ELSE Colors(s)[z]
  PROVE  /\ \E H2 : Sound(N, s2, NULL, g, NULL, U, H2)
         /\ s2.root # g => Colors(s2)[s2.root] = "BLACK"
<1> DEFINE A == Lefts(s)
           B == Rights(s)
           P == Parents(s)
           C == Colors(s)
<1>1. /\ Shape(N, A, B, P, s.root, U) /\ Ordered(N, A, B, U, Less)
      /\ HeightsTyped(N, H) /\ Balanced(N, A, B, C, NULL, n0, NULL, H)
      /\ s \in Tree(N) /\ N \in SUBSET Int
  BY DEF Sound
<1>2. C \in [N -> Color] /\ s.root \in N \cup {NULL} /\ P[n0] \in N \cup {NULL}
  BY <1>1, TreeFields
<1>3. NULL \notin N /\ s.root \in N /\ P[x] = g /\ P[y] = g
  <2>1. NULL \notin N /\ LinkedAt(A, B, P, s.root, g)
    BY <1>1 DEF Shape, Typed
  <2>2. s.root # NULL
    BY <1>1 DEF Shape, Sub
  <2> QED
    BY <1>2, <2>1, <2>2 DEF LinkedAt
<1>4. C[g] = "BLACK"
  <2>1. BalancedAt(A, B, C, NULL, n0, NULL, H, g)
    BY <1>1 DEF Balanced
  <2>2. x # y
    BY <1>1, <1>3, Kin
  <2>3. C[g] = "RED" => Col(C, x) = "BLACK" \/ Col(C, y) = "BLACK"
    BY <1>3, <2>1, <2>2 DEF BalancedAt
  <2> QED
    BY <1>2, <1>3, <2>3 DEF Col, Color
<1>5. /\ s2 \in Tree(N) /\ s2.root = s.root
      /\ Lefts(s2) = A /\ Rights(s2) = B /\ Parents(s2) = P
  BY DEF Recoloured, SameLinks
<1>6. PICK C2 : C2 = Colors(s2)
  OBVIOUS
<1>7. \A z \in N : C2[z] = IF z = g THEN "RED" ELSE IF z \in {A[g], B[g]} THEN "BLACK" ELSE C[z]
  BY <1>6
<1>8. PICK H2 : HeightsTyped(N, H2) /\ Balanced(N, A, B, C2, NULL, g, NULL, H2)
  <2>1. RedChildren(N, A, B, P, g, n0, C, C2)
    BY <1>4, <1>7 DEF RedChildren
  <2> QED
    BY <1>1, <2>1, RecolourInsert
<1>9. Sound(N, s2, NULL, g, NULL, U, H2)
  BY <1>1, <1>5, <1>6, <1>8 DEF Sound
<1>10. s2.root # g => Colors(s2)[s2.root] = "BLACK"
  <2>1. P[s.root] = NULL
    BY <1>1, <1>3 DEF Shape
  <2>2. s.root # n0
    BY <1>3, <2>1
  <2> QED
    BY <1>3, <1>5, <1>6, <1>7, <2>2
<1> QED
  BY <1>9, <1>10

(* insert_case4: n = B[x] comes up between its parent x and x's parent g.   *)
LEMMA CaseInsert4 ==
  ASSUME NEW N, NEW s, NEW y \in N, NEW U, NEW H, Sound(N, s, NULL, y, NULL, U, H),
         NEW A, NEW B, NEW E, Faced(s, A, B, E), NEW g \in N, NEW x \in N,
         y = B[x], x = A[g], Colors(s)[x] = "RED", Colors(s)[y] = "RED",
         s.root # y => Colors(s)[s.root] = "BLACK",
         NEW s2, Turned(s, A, B, E, x, s2)
  PROVE  /\ \E U2, H2 : Sound(N, s2, NULL, x, NULL, U2, H2)
         /\ s2 \in Tree(N) /\ SameContent(N, s, s2) /\ Colors(s2) = Colors(s)
         /\ Parents(s2)[x] = y /\ Parents(s2)[y] = g
         /\ Colors(s2)[s2.root] = "BLACK"
         /\ \E A2, B2 : Faced(s2, A2, B2, E) /\ A2[y] = x /\ A2[g] = y /\ B2[g] = B[g]
<1> DEFINE P == Parents(s)
           C == Colors(s)
<1>1. /\ Shape(N, A, B, P, s.root, U)
      /\ HeightsTyped(N, H) /\ Balanced(N, A, B, C, NULL, y, NULL, H)
      /\ s \in Tree(N) /\ N \in SUBSET Int
  BY View
<1>2. s.root \in N \cup {NULL}
  BY <1>1, TreeFields
<1>3. PICK A2, B2 : TurnedInto(N, s, s, U, A, B, E, x, y, s2, A2, B2)
  <2>1. Recoloured(N, s, s)
    BY <1>1 DEF Recoloured, SameLinks, SameContent
  <2> QED
    BY <2>1, TurnSound
<1>4. /\ NULL \notin N /\ P[y] = x /\ P[x] = g /\ x # y /\ g # x /\ g # y /\ s.root \in N
      /\ B[g] # x
  <2>1. NULL \notin N /\ LinkedAt(A, B, P, s.root, x) /\ LinkedAt(A, B, P, s.root, g)
    BY <1>1 DEF Shape, Typed
  <2>2. P[y] = x /\ P[x] = g
    BY <2>1 DEF LinkedAt
  <2>3. B[x] # x /\ A[g] # g /\ P[x] # B[x] /\ (A[g] # NULL => A[g] # B[g])
    BY <1>1, <2>1, Kin
  <2>4. s.root # NULL
    BY <1>1 DEF Shape, Sub
  <2> QED
    BY <1>2, <2>1, <2>2, <2>3, <2>4
<1>5. /\ Rotated(N, A, B, P, s.root, x, y, A2, B2, Parents(s2), s2.root)
      /\ Shape(N, A2, B2, Parents(s2), s2.root, RotatedSubtrees(N, A, U, x, y))
      /\ Ordered(N, A2, B2, RotatedSubtrees(N, A, U, x, y), E)
      /\ s2 \in Tree(N) /\ SameContent(N, s, s2) /\ Colors(s2) = C
      /\ Faced(s2, A2, B2, E)
  BY <1>3 DEF TurnedInto
<1>6. Balanced(N, A2, B2, C, NULL, x, NULL, H)
  BY <1>1, <1>5, RotateReds
<1>7. \E U2, H2 : Sound(N, s2, NULL, x, NULL, U2, H2)
  BY <1>1, <1>5, <1>6, Review
<1>8. /\ A2[y] = x /\ A2[g] = y /\ B2[g] = B[g]
      /\ Parents(s2)[x] = y /\ Parents(s2)[y] = g /\ s2.root = s.root
  BY <1>4, <1>5 DEF Rotated
<1>9. Colors(s2)[s2.root] = "BLACK"
  <2>1. P[s.root] = NULL
    BY <1>1, <1>4 DEF Shape
  <2> QED
    BY <1>4, <1>5, <1>8, <2>1
<1> QED
  BY <1>5, <1>7, <1>8, <1>9

(* n0, on side A of its parent x, lacks a black node; v, which is to be     *)
(* deleted, is below it, and y is its sibling.                              *)
Lacking(N, s, v, n0, U, H, A, B, E, x, y) ==
  /\ Sound(N, s, v, v, n0, U, H) /\ Faced(s, A, B, E)
  /\ x \in N /\ n0 \in N /\ n0 = A[x] /\ y = B[x] /\ v \in U[n0]

(* Away from n0's subtree. *)
Apart(N, s, v, n0, U, A, B, x, y) ==
  /\ y \in N /\ v \in N /\ NULL \notin N /\ U[n0] \subseteq N /\ n0 \in U[n0]
  /\ Parents(s)[n0] = x /\ Parents(s)[y] = x /\ x # y /\ n0 # x /\ n0 # y
  /\ {x, y, A[y], B[y]} \cap U[n0] = {} /\ A[y] # x /\ B[y] # x /\ A[y] # y /\ B[y] # y
  /\ A[y] \in N \cup {NULL} /\ B[y] \in N \cup {NULL} /\ (A[y] # NULL => A[y] # B[y])
  /\ (A[y] # NULL => Parents(s)[A[y]] = y) /\ (B[y] # NULL => Parents(s)[B[y]] = y)
  /\ s.root \in N \ {y, n0} /\ Parents(s)[s.root] = NULL
  /\ \A z \in U[n0] : A[z] \notin {x, y} /\ B[z] \notin {x, y}

(* Where a black node is lacking the sibling has one: it is no NULL. *)
LEMMA SiblingExists ==
  ASSUME NEW N, NEW s, NEW v, NEW n0, NEW U, NEW H, NEW A, NEW B, NEW E, NEW x, NEW y,
         IsFiniteSet(N), Lacking(N, s, v, n0, U, H, A, B, E, x, y)
  PROVE  Apart(N, s, v, n0, U, A, B, x, y)
<1> DEFINE P == Parents(s)
<1>0. /\ Sound(N, s, v, v, n0, U, H) /\ Faced(s, A, B, E)
      /\ x \in N /\ n0 \in N /\ n0 = A[x] /\ y = B[x] /\ v \in U[n0]
  BY DEF Lacking
<1>1. /\ Shape(N, A, B, P, s.root, U)
      /\ HeightsTyped(N, H) /\ Balanced(N, A, B, Colors(s), v, v, n0, H)
      /\ s \in Tree(N)
  BY <1>0, View
<1>2. /\ NULL \notin N /\ U \in [N -> SUBSET N] /\ s.root \in N \cup {NULL}
      /\ A \in [N -> N \cup {NULL}] /\ B \in [N -> N \cup {NULL}] /\ P \in [N -> N \cup {NULL}]
      /\ (s.root # NULL => P[s.root] = NULL) /\ Sub(U, s.root) = N
      /\ \A w \in N : LinkedAt(A, B, P, s.root, w) /\ SubtreeAt(A, B, U, w)
  BY <1>1 DEF Shape, Typed
<1>3. y \in N
  <2>1. BalancedAt(A, B, Colors(s), v, v, n0, H, x)
    BY <1>0, <1>1 DEF Balanced
  <2>2. H[n0] \in Nat
    BY <1>0, <1>1 DEF HeightsTyped
  <2>3. Ht(H, n0, n0) = H[n0] + 1
    BY <1>0, <1>2 DEF Ht
  <2>4. y # NULL
    BY <1>0, <1>2, <2>1, <2>2, <2>3 DEF BalancedAt, Ht
  <2> QED
    BY <1>0, <1>2, <2>4
<1>4. /\ P[n0] = x /\ P[y] = x /\ x # NULL
      /\ (A[y] # NULL => P[A[y]] = y) /\ (B[y] # NULL => P[B[y]] = y)
  BY <1>0, <1>2, <1>3 DEF LinkedAt
<1>5. /\ n0 # y /\ x # y /\ n0 # x /\ A[y] # y /\ B[y] # y /\ n0 \in U[n0]
      /\ (A[y] # NULL => A[y] # B[y])
  BY <1>0, <1>1, <1>2, <1>3, Kin
<1>6. A[y] # x /\ B[y] # x
  <2>1. x # NULL /\ y # NULL /\ P[x] # y
    BY <1>0, <1>1, <1>2, <1>3, Kin
  <2> QED
    BY <1>4, <2>1
<1>7. U[n0] \subseteq N /\ v \in N
  BY <1>0, <1>2
<1>8. x \notin U[n0] /\ U[n0] \cap U[y] = {} /\ U[n0] \subseteq U[x] /\ U[y] \subseteq U[x]
  <2>1. SubtreeAt(A, B, U, x)
    BY <1>0, <1>2
  <2> QED
    BY <1>0, <1>2, <1>3, <2>1 DEF SubtreeAt, Sub
<1>9. y \in U[y] /\ (A[y] # NULL => A[y] \in U[y]) /\ (B[y] # NULL => B[y] \in U[y])
  <2>1. SubtreeAt(A, B, U, y)
    BY <1>2, <1>3
  <2>2. /\ A[y] # NULL => A[y] \in Sub(U, A[y])
        /\ B[y] # NULL => B[y] \in Sub(U, B[y])
    BY <1>1, <1>3, Kin
  <2> QED
    BY <2>1, <2>2 DEF SubtreeAt
<1>10. {x, y, A[y], B[y]} \cap U[n0] = {}
  BY <1>2, <1>7, <1>8, <1>9
<1>11. s.root \in N \ {y, n0} /\ P[s.root] = NULL
  <2>1. s.root # NULL
    BY <1>0, <1>2 DEF Sub
  <2> QED
    BY <1>2, <1>4, <2>1
<1>12. ASSUME NEW z \in U[n0] PROVE A[z] \notin {x, y} /\ B[z] \notin {x, y}
  <2>1. z \in N /\ U[z] \subseteq U[n0]
    BY <1>0, <1>1, Nested
  <2>2. SubtreeAt(A, B, U, z)
    BY <1>2, <2>1
  <2>3. /\ A[z] # NULL => A[z] \in Sub(U, A[z])
        /\ B[z] # NULL => B[z] \in Sub(U, B[z])
    BY <1>1, <2>1, Kin
  <2>4. /\ A[z] # NULL => A[z] \in U[n0]
        /\ B[z] # NULL => B[z] \in U[n0]
    BY <2>1, <2>2, <2>3 DEF SubtreeAt
  <2> QED
    BY <1>2, <1>0, <1>3, <1>10, <2>4
<1> QED
  BY <1>2, <1>3, <1>4, <1>5, <1>6, <1>7, <1>10, <1>11, <1>12 DEF Apart

(* delete_case2: a red sibling comes up in its parent's place.              *)
LEMMA CaseDelete2 ==
  ASSUME NEW N, NEW s, NEW v, NEW n0, NEW U, NEW H, NEW A, NEW B, NEW E, NEW x, NEW y,
         IsFiniteSet(N), Lacking(N, s, v, n0, U, H, A, B, E, x, y),
         Colors(s)[y] = "RED", n0 = v \/ Colors(s)[n0] = "BLACK",
         s.root # v => Colors(s)[s.root] = "BLACK",
         NEW s2, Turned(SetColor(SetColor(s, x, "RED"), y, "BLACK"), A, B, E, x, s2)
  PROVE  /\ \E U2, H2 : Sound(N, s2, v, v, n0, U2, H2) /\ U2[n0] = U[n0]
         /\ s2 \in Tree(N) /\ SameContent(N, s, s2) /\ KeptIn(U[n0], s, s2)
         /\ s2.root # v => Colors(s2)[s2.root] = "BLACK"
         /\ \E A2, B2 : /\ Faced(s2, A2, B2, E) /\ A2[x] = n0 /\ Parents(s2)[n0] = x
                        /\ Col(Colors(s2), B2[x]) = "BLACK"
<1> DEFINE s1 == SetColor(SetColor(s, x, "RED"), y, "BLACK")
           P == Parents(s)
           C == Colors(s)
<1>0. /\ Sound(N, s, v, v, n0, U, H) /\ Faced(s, A, B, E)
      /\ x \in N /\ n0 \in N /\ n0 = A[x] /\ y = B[x] /\ v \in U[n0]
  BY DEF Lacking
<1>1. /\ Shape(N, A, B, P, s.root, U)
      /\ HeightsTyped(N, H) /\ Balanced(N, A, B, C, v, v, n0, H)
      /\ s \in Tree(N) /\ N \in SUBSET Int
  BY <1>0, View
<1>2. Apart(N, s, v, n0, U, A, B, x, y)
  BY SiblingExists
<1>3. C \in [N -> Color]
  BY <1>1, TreeFields
<1>4. /\ Recoloured(N, s, s1)
      /\ \A z \in N : Colors(s1)[z] = IF z = x THEN "RED" ELSE IF z = y THEN "BLACK" ELSE C[z]
  <2>1. "RED" \in Color /\ "BLACK" \in Color /\ x \in N /\ y \in N /\ x # y
    BY <1>0, <1>2 DEF Color, Apart
  <2>2. /\ Recoloured(N, s, s1)
        /\ \A z \in N : Colors(s1)[z] = IF z = y THEN "BLACK" ELSE IF z = x THEN "RED" ELSE C[z]
    BY <1>1, <2>1, RecolouredTwice
  <2> HIDE DEF s1
  <2> QED
    BY <2>1, <2>2
<1> HIDE DEF s1
<1>5. PICK A2, B2 : TurnedInto(N, s, s1, U, A, B, E, x, y, s2, A2, B2)
  <2>1. y \in N
    BY <1>2 DEF Apart
  <2> QED
    BY <1>0, <1>4, <2>1, TurnSound DEF s1
<1>6. /\ Rotated(N, A, B, P, s.root, x, y, A2, B2, Parents(s2), s2.root)
      /\ Shape(N, A2, B2, Parents(s2), s2.root, RotatedSubtrees(N, A, U, x, y))
      /\ Ordered(N, A2, B2, RotatedSubtrees(N, A, U, x, y), E)
      /\ s2 \in Tree(N) /\ SameContent(N, s, s2) /\ Colors(s2) = Colors(s1)
      /\ Faced(s2, A2, B2, E)
  BY <1>5 DEF TurnedInto
<1>7. C[x] = "BLACK"
  <2>1. BalancedAt(A, B, C, v, v, n0, H, x)
    BY <1>0, <1>1 DEF Balanced
  <2>2. x # v /\ y # v /\ y # NULL
    BY <1>0, <1>2 DEF Apart
  <2>3. C[x] = "RED" => Col(C, y) = "BLACK"
    BY <1>0, <2>1, <2>2 DEF BalancedAt
  <2> QED
    BY <1>0, <1>3, <2>2, <2>3 DEF Col, Color
<1>8. \E H2 : HeightsTyped(N, H2) /\ Balanced(N, A2, B2, Colors(s1), v, v, n0, H2)
  <2>1. v \notin {x, y} /\ v # A[y] /\ n0 \notin {x, y} /\ n0 # NULL
    BY <1>0, <1>2 DEF Apart
  <2>2. A[x] = v \/ Col(C, A[x]) = "BLACK"
    BY <1>0, <2>1 DEF Col
  <2>3. Exchange(N, A, P, x, y, v, v, v, C, Colors(s1), n0)
    BY <1>4, <1>7, <2>1, <2>2 DEF Exchange
  <2>4. y \in N
    BY <1>2 DEF Apart
  <2> QED
    BY <1>0, <1>1, <1>6, <2>3, <2>4, RotateRed
<1> DEFINE U2 == RotatedSubtrees(N, A, U, x, y)
<1>9. U2[n0] = U[n0]
  BY <1>0, <1>2 DEF RotatedSubtrees, Apart
<1>10. \E V, H2 : Sound(N, s2, v, v, n0, V, H2) /\ V[n0] = U[n0]
  BY <1>1, <1>6, <1>8, <1>9, Review
<1>11. /\ A2[x] = n0 /\ B2[x] = A[y] /\ Parents(s2)[n0] = x
  <2>1. P[n0] = x /\ n0 \notin {x, y, A[y]} /\ x # y /\ A[x] # x
    BY <1>0, <1>2 DEF Apart
  <2> QED
    BY <1>0, <1>6, <2>1 DEF Rotated
<1>12. Col(Colors(s2), A[y]) = "BLACK"
  <2>1. y \in N /\ y # v /\ A[y] # v /\ A[y] \in N \cup {NULL} /\ A[y] \notin {x, y}
    BY <1>0, <1>2 DEF Apart
  <2>2. BalancedAt(A, B, C, v, v, n0, H, y)
    BY <1>1, <2>1 DEF Balanced
  <2>3. Col(C, A[y]) = "BLACK"
    BY <2>1, <2>2 DEF BalancedAt
  <2> QED
    BY <1>4, <1>6, <2>1, <2>3 DEF Col
<1>13. KeptIn(U[n0], s, s2)
  <2>1. ASSUME NEW z \in U[n0]
        PROVE  /\ A2[z] = A[z] /\ B2[z] = B[z] /\ Parents(s2)[z] = P[z]
               /\ Colors(s2)[z] = C[z]
    <3>1. z \in N /\ z \notin {x, y, A[y]} /\ A[z] # x /\ B[z] # x
      BY <1>2 DEF Apart
    <3> QED
      BY <1>4, <1>6, <3>1 DEF Rotated
  <2>2. U[n0] \in SUBSET N
    BY <1>2 DEF Apart
  <2> QED
    BY <1>0, <1>1, <1>6, <2>1, <2>2, KeptFaces
<1>14. s2.root # v => Colors(s2)[s2.root] = "BLACK"
  <2>1. s2.root = IF P[x] = NULL THEN y ELSE s.root
    BY <1>6 DEF Rotated
  <2>2. s.root \in N \ {y, n0} /\ P[s.root] = NULL /\ y \in N /\ x # y
    BY <1>2 DEF Apart
  <2> QED
    BY <1>0, <1>4, <1>6, <2>1, <2>2
<1> QED
  BY <1>6, <1>10, <1>11, <1>12, <1>13, <1>14

(* Above a node of a subtree, but its own top, is a node of it.             *)
LEMMA Above ==
  ASSUME NEW N, NEW A, NEW B, NEW P, NEW r, NEW U, Shape(N, A, B, P, r, U), IsFiniteSet(N),
         NEW x \in N, NEW y \in U[x], y # x
  PROVE  P[y] \in U[x]
<1>1. /\ NULL \notin N /\ U \in [N -> SUBSET N] /\ r \in N \cup {NULL}
      /\ A \in [N -> N \cup {NULL}] /\ B \in [N -> N \cup {NULL}] /\ P \in [N -> N \cup {NULL}]
      /\ \A w \in N : LinkedAt(A, B, P, r, w) /\ SubtreeAt(A, B, U, w)
  BY DEF Shape, Typed
<1> DEFINE S == {z \in N : \A w \in U[z] : w = z \/ P[w] \in U[z]}
<1>2. ASSUME NEW z \in N, A[z] \in S \cup {NULL}, B[z] \in S \cup {NULL} PROVE z \in S
  <2>1. ASSUME NEW w \in U[z], w # z PROVE P[w] \in U[z]
    <3>1. SubtreeAt(A, B, U, z) /\ LinkedAt(A, B, P, r, z)
      BY <1>1
    <3>2. w \in Sub(U, A[z]) \/ w \in Sub(U, B[z])
      BY <2>1, <3>1 DEF SubtreeAt
    <3>3. CASE w \in Sub(U, A[z])
      <4>1. A[z] # NULL /\ w \in U[A[z]] /\ A[z] \in S
        BY <1>2, <3>3 DEF Sub
      <4>2. P[w] \in U[A[z]] \/ P[w] = z
        BY <3>1, <4>1 DEF LinkedAt
      <4> QED
        BY <3>1, <4>1, <4>2 DEF SubtreeAt, Sub
    <3>4. CASE w \in Sub(U, B[z])
      <4>1. B[z] # NULL /\ w \in U[B[z]] /\ B[z] \in S
        BY <1>2, <3>4 DEF Sub
      <4>2. P[w] \in U[B[z]] \/ P[w] = z
        BY <3>1, <4>1 DEF LinkedAt
      <4> QED
        BY <3>1, <4>1, <4>2 DEF SubtreeAt, Sub
    <3> QED
      BY <3>2, <3>3, <3>4
  <2> QED
    BY <2>1
<1> HIDE DEF S
<1>3. N \subseteq S
  BY <1>2, TreeInduction
<1> QED
  BY <1>3 DEF S

(* delete_case3 and delete_case4: a black sibling without red children is   *)
(* made red, its parent black.                                              *)
LEMMA CaseDelete34 ==
  ASSUME NEW N, NEW s, NEW v, NEW n0, NEW U, NEW H, NEW A, NEW B, NEW E, NEW x, NEW y,
         IsFiniteSet(N), Lacking(N, s, v, n0, U, H, A, B, E, x, y),
         Colors(s)[y] = "BLACK", Col(Colors(s), A[y]) = "BLACK", Col(Colors(s), B[y]) = "BLACK",
         s.root # v => Colors(s)[s.root] = "BLACK",
         NEW s2, Recoloured(N, s, s2),
         \A z \in N : Colors(s2)[z] = IF z = y THEN "RED"
             ELSE IF z = x THEN "BLACK" ELSE Colors(s)[z],
         NEW d2, d2 = IF Colors(s)[x] = "BLACK" THEN x ELSE NULL
  PROVE  /\ \E H2 : Sound(N, s2, v, v, d2, U, H2)
         /\ s2.root # v => Colors(s2)[s2.root] = "BLACK"
<1> DEFINE P == Parents(s)
           C == Colors(s)
<1>0. /\ Sound(N, s, v, v, n0, U, H) /\ Faced(s, A, B, E)
      /\ x \in N /\ n0 \in N /\ n0 = A[x] /\ y = B[x] /\ v \in U[n0]
  BY DEF Lacking
<1>1. /\ Shape(N, A, B, P, s.root, U) /\ Ordered(N, A, B, U, E)
      /\ HeightsTyped(N, H) /\ Balanced(N, A, B, C, v, v, n0, H)
      /\ s \in Tree(N) /\ N \in SUBSET Int
  BY <1>0, View
<1>2. Apart(N, s, v, n0, U, A, B, x, y)
  BY SiblingExists
<1>3. C \in [N -> Color]
  BY <1>1, TreeFields
<1>4. /\ s2 \in Tree(N) /\ s2.root = s.root
      /\ Lefts(s2) = Lefts(s) /\ Rights(s2) = Rights(s) /\ Parents(s2) = P
  BY DEF Recoloured, SameLinks
<1>5. PICK C2 : C2 = Colors(s2)
  OBVIOUS
<1>6. BlackNephews(N, A, B, x, n0, y, v, C, C2, d2)
  <2>1. v \notin {x, y} /\ A[y] # v /\ B[y] # v
    BY <1>0, <1>2 DEF Apart
  <2> QED
    BY <1>0, <1>3, <1>5, <2>1 DEF BlackNephews
<1>7. y \in N /\ s.root \in N \ {y, n0} /\ P[s.root] = NULL
  BY <1>2 DEF Apart
<1>8. PICK H2 : HeightsTyped(N, H2) /\ Balanced(N, A, B, C2, v, v, d2, H2)
  BY <1>0, <1>1, <1>6, <1>7, RecolourDelete
<1>9. Faced(s2, A, B, E)
  BY <1>0, <1>4 DEF Faced
<1>10. Sound(N, s2, v, v, d2, U, H2)
  BY <1>1, <1>4, <1>5, <1>8, <1>9, Review
<1>11. s2.root # v => Colors(s2)[s2.root] = "BLACK"
  BY <1>0, <1>4, <1>7
<1> QED
  BY <1>10, <1>11

(* delete_case5: a red near nephew comes up in the sibling's place.         *)
LEMMA CaseDelete5 ==
  ASSUME NEW N, NEW s, NEW v, NEW n0, NEW U, NEW H, NEW A, NEW B, NEW E, NEW x, NEW y,
         IsFiniteSet(N), Lacking(N, s, v, n0, U, H, A, B, E, x, y), NEW w \in N, w = A[y],
         Colors(s)[y] = "BLACK", Colors(s)[w] = "RED", Col(Colors(s), B[y]) = "BLACK",
         s.root # v => Colors(s)[s.root] = "BLACK",
         NEW F, Faced(s, B, A, F),
         NEW s2, Turned(SetColor(SetColor(s, y, "RED"), w, "BLACK"), B, A, F, y, s2)
  PROVE  /\ \E U2, H2 : Sound(N, s2, v, v, n0, U2, H2) /\ U2[n0] = U[n0]
         /\ s2 \in Tree(N) /\ SameContent(N, s, s2) /\ KeptIn(U[n0], s, s2)
         /\ s2.root # v => Colors(s2)[s2.root] = "BLACK"
         /\ \E A2, B2 : /\ Faced(s2, B2, A2, F) /\ A2[x] = n0 /\ Parents(s2)[n0] = x
                        /\ B2[x] = w /\ Colors(s2)[w] = "BLACK"
                        /\ B2[w] = y /\ Colors(s2)[y] = "RED"
<1> DEFINE s1 == SetColor(SetColor(s, y, "RED"), w, "BLACK")
           P == Parents(s)
           C == Colors(s)
<1>1. /\ Sound(N, s, v, v, n0, U, H) /\ Faced(s, A, B, E)
      /\ x \in N /\ n0 \in N /\ n0 = A[x] /\ y = B[x] /\ v \in U[n0]
  BY DEF Lacking
<1>2. /\ Shape(N, B, A, P, s.root, U)
      /\ HeightsTyped(N, H) /\ Balanced(N, B, A, C, v, v, n0, H)
      /\ s \in Tree(N) /\ N \in SUBSET Int
  BY <1>1, View
<1>3. Apart(N, s, v, n0, U, A, B, x, y)
  BY SiblingExists
<1>4. /\ y \in N /\ w # y /\ v \notin {x, y, w, B[y]} /\ n0 \notin {x, y, w} /\ n0 # NULL
      /\ x \notin {y, w} /\ P[w] = y /\ P[n0] = x /\ P[y] = x /\ x # NULL
      /\ s.root \in N \ {y, w} /\ P[s.root] = NULL /\ y # NULL
  BY <1>1, <1>3 DEF Apart
<1>5. /\ Recoloured(N, s, s1)
      /\ \A z \in N : Colors(s1)[z] = IF z = y THEN "RED" ELSE IF z = w THEN "BLACK" ELSE C[z]
  <2>1. "RED" \in Color /\ "BLACK" \in Color
    BY DEF Color
  <2>2. /\ Recoloured(N, s, s1)
        /\ \A z \in N : Colors(s1)[z] = IF z = w THEN "BLACK" ELSE IF z = y THEN "RED" ELSE C[z]
    BY <1>2, <1>4, <2>1, RecolouredTwice
  <2> HIDE DEF s1
  <2> QED
    BY <1>4, <2>2
<1> HIDE DEF s1
<1>6. PICK B2, A2 : TurnedInto(N, s, s1, U, B, A, F, y, w, s2, B2, A2)
  BY <1>1, <1>4, <1>5, TurnSound DEF s1
<1>7. /\ Rotated(N, B, A, P, s.root, y, w, B2, A2, Parents(s2), s2.root)
      /\ Shape(N, B2, A2, Parents(s2), s2.root, RotatedSubtrees(N, B, U, y, w))
      /\ Ordered(N, B2, A2, RotatedSubtrees(N, B, U, y, w), F)
      /\ s2 \in Tree(N) /\ SameContent(N, s, s2) /\ Colors(s2) = Colors(s1)
      /\ Faced(s2, B2, A2, F)
  BY <1>6 DEF TurnedInto
<1>8. \E H2 : HeightsTyped(N, H2) /\ Balanced(N, B2, A2, Colors(s1), v, v, n0, H2)
  <2>1. v # B[w]
    <3>1. B[w] # NULL => P[B[w]] = w
      BY <1>2 DEF Shape, LinkedAt
    <3>2. v \in N /\ v # n0 => P[v] \in U[n0]
      <4>1. v \in N /\ U[n0] \subseteq N /\ NULL \notin N
        BY <1>1, <1>3 DEF Apart
      <4> QED
        BY <1>1, <1>2, <4>1, Above
    <3>3. v \in N /\ w \notin U[n0] /\ v # NULL
      BY <1>1, <1>3 DEF Apart
    <3> QED
      BY <1>4, <3>1, <3>2, <3>3
  <2>2. Exchange(N, B, P, y, w, v, v, v, C, Colors(s1), n0)
    BY <1>4, <1>5, <2>1 DEF Exchange
  <2> QED
    BY <1>2, <1>4, <1>7, <2>2, RotateRed
<1> DEFINE U2 == RotatedSubtrees(N, B, U, y, w)
<1>9. U2[n0] = U[n0]
  BY <1>1, <1>4 DEF RotatedSubtrees
<1>10. \E V, H2 : Sound(N, s2, v, v, n0, V, H2) /\ V[n0] = U[n0]
  BY <1>2, <1>7, <1>8, <1>9, Review
<1>11. /\ A2[x] = n0 /\ Parents(s2)[n0] = x /\ B2[x] = w /\ B2[w] = y
       /\ s2.root = s.root
  <2>1. A[x] # y /\ B[w] # y /\ n0 \notin {y, w, B[w]} /\ x # y /\ x # w
    <3>1. B[w] # NULL => P[B[w]] = w
      BY <1>2 DEF Shape, LinkedAt
    <3> QED
      BY <1>1, <1>4, <3>1
  <2> QED
    BY <1>1, <1>4, <1>7, <2>1 DEF Rotated
<1>12. Colors(s2)[w] = "BLACK" /\ Colors(s2)[y] = "RED"
  BY <1>4, <1>5, <1>7
<1>13. KeptIn(U[n0], s, s2)
  <2>1. ASSUME NEW z \in U[n0]
        PROVE  /\ B2[z] = B[z] /\ A2[z] = A[z] /\ Parents(s2)[z] = P[z]
               /\ Colors(s2)[z] = C[z]
    <3>1. z \in N /\ z \notin {x, y, w} /\ A[z] # y /\ B[z] # y
      BY <1>3 DEF Apart
    <3>2. z # B[w]
      <4>1. B[w] # NULL => P[B[w]] = w
        BY <1>2 DEF Shape, LinkedAt
      <4>2. z # n0 => P[z] \in U[n0]
        BY <1>1, <1>2, <3>1, Above
      <4>3. w \notin U[n0] /\ z # NULL
        BY <1>3, <3>1 DEF Apart
      <4> QED
        BY <1>4, <4>1, <4>2, <4>3
    <3> QED
      BY <1>5, <1>7, <3>1, <3>2 DEF Rotated
  <2>2. U[n0] \in SUBSET N
    BY <1>3 DEF Apart
  <2> QED
    BY <1>2, <1>7, <2>1, <2>2, KeptFaces
<1>14. s2.root # v => Colors(s2)[s2.root] = "BLACK"
  BY <1>4, <1>5, <1>7, <1>11
<1> QED
  BY <1>7, <1>10, <1>11, <1>12, <1>13, <1>14

(* The sibling y takes the parent's colour, the parent and nephew f become  *)
(* black.                                                                   *)
Raised(s, x, y, f) ==
  SetColor(SetColor(SetColor(s, y, Colors(s)[x]), x, "BLACK"), f, "BLACK")

(* delete_case6: the sibling takes its parent's place and colour, the       *)
(* parent and the red far nephew become black.                              *)
LEMMA CaseDelete6 ==
  ASSUME NEW N, NEW s, NEW v, NEW n0, NEW U, NEW H, NEW A, NEW B, NEW E, NEW x, NEW y,
         IsFiniteSet(N), Lacking(N, s, v, n0, U, H, A, B, E, x, y), NEW f \in N, f = B[y],
         Colors(s)[y] = "BLACK", Colors(s)[f] = "RED",
         s.root # v => Colors(s)[s.root] = "BLACK",
         NEW s2, Turned(Raised(s, x, y, f), A, B, E, x, s2)
  PROVE  /\ \E U2, H2 : Sound(N, s2, v, v, NULL, U2, H2)
         /\ s2 \in Tree(N) /\ SameContent(N, s, s2) /\ KeptIn(U[n0], s, s2)
         /\ s2.root # v => Colors(s2)[s2.root] = "BLACK"
         /\ Colors(s2)[x] = "BLACK"
<1> DEFINE s1 == Raised(s, x, y, f)
           P == Parents(s)
           C == Colors(s)
<1>1. /\ Sound(N, s, v, v, n0, U, H) /\ Faced(s, A, B, E)
      /\ x \in N /\ n0 \in N /\ n0 = A[x] /\ y = B[x] /\ v \in U[n0]
  BY DEF Lacking
<1>2. /\ Shape(N, A, B, P, s.root, U)
      /\ HeightsTyped(N, H) /\ Balanced(N, A, B, C, v, v, n0, H)
      /\ s \in Tree(N) /\ N \in SUBSET Int
  BY <1>1, View
<1>3. Apart(N, s, v, n0, U, A, B, x, y)
  BY SiblingExists
<1>4. /\ y \in N /\ f # y /\ v \notin {x, y, A[y], f} /\ n0 \notin {x, y, f, A[y]} /\ n0 # NULL
      /\ x \notin {y, f} /\ P[n0] = x /\ P[y] = x /\ P[f] = y
      /\ s.root \in N \ {y, f} /\ P[s.root] = NULL /\ y # NULL /\ x # NULL
  BY <1>1, <1>3 DEF Apart
<1>5. C \in [N -> Color]
  BY <1>2, TreeFields
<1>6. /\ Recoloured(N, s, s1)
      /\ \A z \in N : Colors(s1)[z] = IF z = y THEN C[x] ELSE IF z \in {x, f} THEN "BLACK" ELSE C[z]
  <2>1. PICK c \in Color, b \in Color : c = C[x] /\ b = "BLACK"
    BY <1>1, <1>5 DEF Color
  <2>2. s1 = SetColor(SetColor(SetColor(s, y, c), x, b), f, b)
    BY <2>1 DEF Raised
  <2> HIDE DEF s1
  <2>3. /\ Recoloured(N, s, s1)
        /\ \A z \in N : Colors(s1)[z] = IF z = f THEN "BLACK" ELSE IF z = x THEN "BLACK"
                                        ELSE IF z = y THEN C[x] ELSE C[z]
    <3>1. /\ Recoloured(N, s, SetColor(SetColor(SetColor(s, y, c), x, b), f, b))
          /\ \A z \in N : Colors(SetColor(SetColor(SetColor(s, y, c), x, b), f, b))[z] =
                          IF z = f THEN b ELSE IF z = x THEN b ELSE IF z = y THEN c ELSE C[z]
      <4>1. s \in Tree(N) /\ x \in N /\ y \in N /\ f \in N
        BY <1>1, <1>2, <1>4
      <4>2. Painted(N, s, y, c, x, b, f, b, SetColor(SetColor(SetColor(s, y, c), x, b), f, b))
        BY <4>1, RecolouredThrice
      <4> QED
        BY <4>2 DEF Painted
    <3> QED
      BY <2>1, <2>2, <3>1
  <2> QED
    BY <1>4, <2>3
<1> HIDE DEF s1
<1>7. PICK A2, B2 : TurnedInto(N, s, s1, U, A, B, E, x, y, s2, A2, B2)
  BY <1>1, <1>4, <1>6, TurnSound DEF s1
<1>8. /\ Rotated(N, A, B, P, s.root, x, y, A2, B2, Parents(s2), s2.root)
      /\ Shape(N, A2, B2, Parents(s2), s2.root, RotatedSubtrees(N, A, U, x, y))
      /\ Ordered(N, A2, B2, RotatedSubtrees(N, A, U, x, y), E)
      /\ s2 \in Tree(N) /\ SameContent(N, s, s2) /\ Colors(s2) = Colors(s1)
      /\ Faced(s2, A2, B2, E)
  BY <1>7 DEF TurnedInto
<1>9. \E H2 : HeightsTyped(N, H2) /\ Balanced(N, A2, B2, Colors(s1), v, v, NULL, H2)
  <2>1. RedNephew(N, A, B, x, n0, y, f, v, C, Colors(s1))
    BY <1>1, <1>4, <1>5, <1>6 DEF RedNephew
  <2> QED
    BY <1>1, <1>2, <1>4, <1>8, <2>1, RotateSibling
<1>10. \E V, H2 : Sound(N, s2, v, v, NULL, V, H2)
  BY <1>2, <1>8, <1>9, Review
<1>11. Colors(s2)[x] = "BLACK"
  BY <1>1, <1>4, <1>6, <1>8
<1>12. KeptIn(U[n0], s, s2)
  <2>1. ASSUME NEW z \in U[n0]
        PROVE  /\ A2[z] = A[z] /\ B2[z] = B[z] /\ Parents(s2)[z] = P[z]
               /\ Colors(s2)[z] = C[z]
    <3>1. z \in N /\ z \notin {x, y, A[y], f} /\ A[z] # x /\ B[z] # x
      BY <1>3 DEF Apart
    <3> QED
      BY <1>6, <1>8, <3>1 DEF Rotated
  <2>2. U[n0] \in SUBSET N
    BY <1>3 DEF Apart
  <2> QED
    BY <1>1, <1>2, <1>8, <2>1, <2>2, KeptFaces
<1>13. s2.root # v => Colors(s2)[s2.root] = "BLACK"
  <2>1. s2.root = IF P[x] = NULL THEN y ELSE s.root
    BY <1>8 DEF Rotated
  <2>2. P[x] = NULL => x = s.root
    BY <1>1, <1>2 DEF Shape, LinkedAt
  <2>3. x # v
    BY <1>4
  <2> QED
    BY <1>1, <1>4, <1>6, <1>8, <2>1, <2>2, <2>3
<1> QED
  BY <1>8, <1>10, <1>11, <1>12, <1>13
-----------------------------------------------------------------------------
(* The nodes y below x that a search for k, started at x, comes to: at each *)
(* node z above y it turns the way that leads to y.                         *)
Path(N, A, B, K, U, k) ==
  [x \in N \cup {NULL} |->
     {y \in Sub(U, x) : \A z \in Sub(U, x) : /\ y \in Sub(U, A[z]) => k < K[z]
                                             /\ y \in Sub(U, B[z]) => K[z] < k}]

(* A path goes on from a node to the child on the way to the key. *)
LEMMA PathStep ==
  ASSUME NEW N, NEW A, NEW B, NEW P, NEW r, NEW U, Shape(N, A, B, P, r, U), IsFiniteSet(N),
         NEW K \in [N -> Int], NEW k \in Int, NEW x \in N
  PROVE  Path(N, A, B, K, U, k)[x] =
           {x} \cup IF k = K[x] THEN {}
                    ELSE Path(N, A, B, K, U, k)[IF k < K[x] THEN A[x] ELSE B[x]]
<1>1. /\ NULL \notin N /\ U \in [N -> SUBSET N]
      /\ A \in [N -> N \cup {NULL}] /\ B \in [N -> N \cup {NULL}]
      /\ \A w \in N : SubtreeAt(A, B, U, w)
  BY DEF Shape, Typed
<1> DEFINE G == Path(N, A, B, K, U, k)
           Right(y, z) == (y \in Sub(U, A[z]) => k < K[z]) /\ (y \in Sub(U, B[z]) => K[z] < k)
<1>2. \A w \in N : G[w] = {y \in U[w] : \A z \in U[w] : Right(y, z)}
  BY <1>1 DEF Path, Sub
<1>3. G[NULL] = {}
  BY DEF Path, Sub
<1> HIDE DEF G
<1>4. K[x] \in Int /\ x \in U[x] /\ U[x] = {x} \cup Sub(U, A[x]) \cup Sub(U, B[x])
  BY <1>1 DEF SubtreeAt
<1>5. /\ x \notin Sub(U, A[x]) /\ x \notin Sub(U, B[x]) /\ Sub(U, A[x]) \cap Sub(U, B[x]) = {}
  BY <1>1 DEF SubtreeAt
<1>6. ASSUME NEW z \in U[x] PROVE x \notin Sub(U, A[z]) /\ x \notin Sub(U, B[z])
  <2>1. z \in N /\ U[z] \subseteq U[x]
    BY Nested
  <2>2. SubtreeAt(A, B, U, z)
    BY <1>1, <2>1
  <2>3. ASSUME x \in Sub(U, A[z]) \/ x \in Sub(U, B[z]) PROVE FALSE
    <3>1. PICK c \in {A[z], B[z]} : x \in Sub(U, c)
      BY <2>3
    <3>2. c \in N /\ x \in U[c]
      BY <1>1, <2>1, <3>1 DEF Sub
    <3>3. U[x] \subseteq U[c]
      BY <3>2, Nested
    <3>4. z \in U[c]
      BY <3>3
    <3> QED
      BY <2>1, <2>2, <3>1, <3>2, <3>4 DEF SubtreeAt, Sub
  <2> QED
    BY <2>3
<1>7. x \in G[x]
  BY <1>2, <1>4, <1>6
<1>8. ASSUME NEW c, NEW o, c \in N, c # NULL,
             \/ c = A[x] /\ o = B[x] /\ k < K[x]
             \/ c = B[x] /\ o = A[x] /\ K[x] < k
      PROVE  G[x] = {x} \cup G[c]
  <2>1. /\ U[x] = {x} \cup U[c] \cup Sub(U, o) /\ U[c] \cap Sub(U, o) = {} /\ x \notin U[c]
        /\ x \notin Sub(U, o)
    BY <1>4, <1>5, <1>8 DEF Sub
  <2>2. ASSUME NEW y \in G[x], y # x PROVE y \in G[c]
    <3>1. y \in U[x] /\ \A z \in U[x] : Right(y, z)
      BY <1>2
    <3>2. y \notin Sub(U, o)
      BY <1>4, <1>8, <3>1
    <3>3. y \in U[c]
      BY <2>1, <2>2, <3>1, <3>2
    <3>4. \A z \in U[c] : Right(y, z)
      BY <2>1, <3>1
    <3> QED
      BY <1>2, <1>8, <3>3, <3>4
  <2>3. ASSUME NEW y \in G[c] PROVE y \in G[x]
    <3>1. y \in U[c] /\ \A z \in U[c] : Right(y, z)
      BY <1>2, <1>8
    <3>2. Right(y, x)
      <4>1. y \notin Sub(U, o)
        BY <2>1, <3>1
      <4> QED
        BY <1>8, <4>1
    <3>3. ASSUME NEW z \in Sub(U, o) PROVE Right(y, z)
      <4>1. o \in N /\ z \in U[o]
        BY <1>1, <1>8, <3>3 DEF Sub
      <4>2. z \in N /\ U[z] \subseteq U[o]
        BY <4>1, Nested
      <4>3. Sub(U, A[z]) \subseteq U[o] /\ Sub(U, B[z]) \subseteq U[o]
        BY <1>1, <4>2 DEF SubtreeAt
      <4>4. y \notin U[o]
        BY <1>1, <2>1, <3>1, <4>1 DEF Sub
      <4> QED
        BY <4>3, <4>4
    <3> QED
      BY <1>2, <2>1, <3>1, <3>2, <3>3
  <2> QED
    BY <1>7, <2>2, <2>3
<1>9. ASSUME NEW o, \/ A[x] = NULL /\ o = B[x] /\ k < K[x]
                    \/ B[x] = NULL /\ o = A[x] /\ K[x] < k
      PROVE  G[x] = {x}
  BY <1>2, <1>4, <1>5, <1>7, <1>9 DEF Sub
<1>10. CASE k = K[x]
  <2>1. ASSUME NEW y \in G[x] PROVE y = x
    <3>1. y \in U[x] /\ Right(y, x)
      BY <1>2, <1>4
    <3>2. ~(k < K[x]) /\ ~(K[x] < k)
      BY <1>4, <1>10
    <3> QED
      BY <1>4, <3>1, <3>2
  <2>2. G[x] = {x}
    BY <1>7, <2>1
  <2> QED
    BY <1>10, <2>2 DEF G
<1>11. CASE k < K[x]
  <2>1. G[x] = {x} \cup G[A[x]]
    BY <1>1, <1>3, <1>8, <1>9, <1>11
  <2> QED
    BY <1>4, <1>11, <2>1 DEF G
<1>12. CASE K[x] < k
  <2>1. G[x] = {x} \cup G[B[x]]
    BY <1>1, <1>3, <1>8, <1>9, <1>12
  <2>2. ~(k < K[x]) /\ k # K[x]
    BY <1>4, <1>12
  <2> QED
    BY <2>1, <2>2 DEF G
<1> QED
  BY <1>4, <1>10, <1>11, <1>12 DEF G

(* The recursive search comes to the nodes of the path. *)
LEMMA PathUnique ==
  ASSUME NEW N, NEW A, NEW B, NEW P, NEW r, NEW U, Shape(N, A, B, P, r, U), IsFiniteSet(N),
         NEW K \in [N -> Int], NEW k \in Int, NEW f,
         f = [x \in N \cup {NULL} |->
                IF x = NULL THEN {}
                ELSE {x} \cup IF k = K[x] THEN {} ELSE f[IF k < K[x] THEN A[x] ELSE B[x]]]
  PROVE  f = Path(N, A, B, K, U, k)
<1>1. /\ NULL \notin N /\ A \in [N -> N \cup {NULL}] /\ B \in [N -> N \cup {NULL}]
  BY DEF Shape, Typed
<1> DEFINE G == Path(N, A, B, K, U, k)
           S == {x \in N : f[x] = G[x]}
<1>2. G[NULL] = {} /\ f[NULL] = {}
  BY DEF Path, Sub
<1>3. ASSUME NEW x \in N
      PROVE  f[x] = {x} \cup IF k = K[x] THEN {} ELSE f[IF k < K[x] THEN A[x] ELSE B[x]]
  BY <1>1
<1>4. ASSUME NEW x \in N, A[x] \in S \cup {NULL}, B[x] \in S \cup {NULL} PROVE x \in S
  <2>1. G[x] = {x} \cup IF k = K[x] THEN {} ELSE G[IF k < K[x] THEN A[x] ELSE B[x]]
    BY PathStep
  <2> HIDE DEF G
  <2>2. f[A[x]] = G[A[x]] /\ f[B[x]] = G[B[x]]
    BY <1>2, <1>4
  <2>3. f[x] = G[x]
    BY <1>3, <2>1, <2>2
  <2> QED
    BY <2>3
<1>5. N \subseteq S
  <2> HIDE DEF S
  <2> QED
    BY <1>4, TreeInduction
<1>6. \A x \in N \cup {NULL} : f[x] = G[x]
  <2> HIDE DEF G
  <2> QED
    BY <1>2, <1>5
<1>7. f = [x \in N \cup {NULL} |-> f[x]]
  OBVIOUS
<1>8. G = [x \in N \cup {NULL} |-> G[x]]
  BY DEF Path
<1> HIDE DEF G
<1> QED
  BY <1>6, <1>7, <1>8 DEF G

(* The keys on the two sides of a node are at most, and at least, its own.  *)
KeyOrder(N, A, B, K, U) ==
  /\ K \in [N -> Int]
  /\ \A x \in N : /\ \A y \in Sub(U, A[x]) : K[y] <= K[x]
                  /\ \A y \in Sub(U, B[x]) : K[x] <= K[y]

(* The path to a key that is in the tree ends at its node. *)
LEMMA PathFinds ==
  ASSUME NEW N, NEW A, NEW B, NEW P, NEW r, NEW U, Shape(N, A, B, P, r, U), IsFiniteSet(N),
         NEW K, KeyOrder(N, A, B, K, U), NEW k \in Int, NEW y \in N, K[y] = k
  PROVE  r \in N /\ \E z \in Path(N, A, B, K, U, k)[r] : K[z] = k
<1>1. /\ NULL \notin N /\ A \in [N -> N \cup {NULL}] /\ B \in [N -> N \cup {NULL}]
      /\ \A w \in N : SubtreeAt(A, B, U, w)
      /\ r \in N \cup {NULL} /\ Sub(U, r) = N
  BY DEF Shape, Typed
<1>2. /\ K \in [N -> Int]
      /\ \A x \in N : /\ \A w \in Sub(U, A[x]) : K[w] <= K[x]
                      /\ \A w \in Sub(U, B[x]) : K[x] <= K[w]
  BY DEF KeyOrder
<1> DEFINE G == Path(N, A, B, K, U, k)
           S == {x \in N : (\E w \in U[x] : K[w] = k) => \E z \in G[x] : K[z] = k}
<1>3. ASSUME NEW x \in N
      PROVE  G[x] = {x} \cup IF k = K[x] THEN {} ELSE G[IF k < K[x] THEN A[x] ELSE B[x]]
  BY <1>2, PathStep
<1> HIDE DEF G
<1>4. ASSUME NEW x \in N, A[x] \in S \cup {NULL}, B[x] \in S \cup {NULL} PROVE x \in S
  <2> SUFFICES ASSUME NEW w \in U[x], K[w] = k PROVE \E z \in G[x] : K[z] = k
    OBVIOUS
  <2>1. U[x] = {x} \cup Sub(U, A[x]) \cup Sub(U, B[x]) /\ K[x] \in Int
    BY <1>1, <1>2 DEF SubtreeAt
  <2>2. CASE k = K[x]
    BY <1>3, <2>2
  <2>3. CASE k < K[x]
    <3>1. w \in Sub(U, A[x])
      BY <1>2, <2>1, <2>3
    <3>2. A[x] \in S /\ w \in U[A[x]]
      BY <1>4, <3>1 DEF Sub
    <3>3. PICK z \in G[A[x]] : K[z] = k
      BY <3>2
    <3>4. z \in G[x]
      BY <1>3, <2>1, <2>3, <3>3
    <3> QED
      BY <3>3, <3>4
  <2>4. CASE K[x] < k
    <3>0. ~(k < K[x]) /\ k # K[x]
      BY <2>1, <2>4
    <3>1. w \in Sub(U, B[x])
      BY <1>2, <2>1, <2>4
    <3>2. B[x] \in S /\ w \in U[B[x]]
      BY <1>4, <3>1 DEF Sub
    <3>3. PICK z \in G[B[x]] : K[z] = k
      BY <3>2
    <3>4. z \in G[x]
      BY <1>3, <3>0, <3>3
    <3> QED
      BY <3>3, <3>4
  <2> QED
    BY <2>1, <2>2, <2>3, <2>4
<1>5. N \subseteq S
  <2> HIDE DEF S
  <2> QED
    BY <1>4, TreeInduction
<1>6. r \in N /\ U[r] = N
  BY <1>1 DEF Sub
<1> QED
  BY <1>5, <1>6 DEF G

(* A search for an absent key ends where it has no way to go on. *)
DeadEnd(A, B, K, k, x) == (IF k < K[x] THEN A[x] ELSE B[x]) = NULL

(* When the key is not in the tree the path ends where its node is missing. *)
LEMMA PathEnds ==
  ASSUME NEW N, NEW A, NEW B, NEW P, NEW r \in N, NEW U, Shape(N, A, B, P, r, U), IsFiniteSet(N),
         NEW K \in [N -> Int], NEW k \in Int, \A y \in N : K[y] # k
  PROVE  \E p \in Path(N, A, B, K, U, k)[r] : DeadEnd(A, B, K, k, p)
<1>1. /\ NULL \notin N /\ A \in [N -> N \cup {NULL}] /\ B \in [N -> N \cup {NULL}]
  BY DEF Shape, Typed
<1> DEFINE G == Path(N, A, B, K, U, k)
           Way(p) == IF k < K[p] THEN A[p] ELSE B[p]
           S == {x \in N : \E p \in G[x] : Way(p) = NULL}
<1>2. ASSUME NEW x \in N
      PROVE  G[x] = {x} \cup G[Way(x)] /\ Way(x) \in {A[x], B[x]}
  <2>1. G[x] = {x} \cup IF k = K[x] THEN {} ELSE G[Way(x)]
    BY PathStep
  <2> QED
    BY <2>1
<1> HIDE DEF G, Way
<1>3. ASSUME NEW x \in N, A[x] \in S \cup {NULL}, B[x] \in S \cup {NULL} PROVE x \in S
  <2>1. CASE Way(x) = NULL
    BY <1>2, <2>1
  <2>2. CASE Way(x) # NULL
    BY <1>2, <1>3, <2>2
  <2> QED
    BY <2>1, <2>2
<1>4. N \subseteq S
  <2> HIDE DEF S
  <2> QED
    BY <1>3, TreeInduction
<1> QED
  BY <1>4 DEF G, Way, DeadEnd
-----------------------------------------------------------------------------
(* The searches of the model, in a tree s. *)
KeyOf(s) == [x \in DOMAIN s.node |-> s.node[x].key]

VisitedIn(s, k) ==
  LET from[x \in DOMAIN s.node \cup {NULL}] ==
        IF x = NULL THEN {}
        ELSE {x} \cup IF k = s.node[x].key THEN {}
                      ELSE from[IF k < s.node[x].key THEN s.node[x].left ELSE s.node[x].right]
  IN  from[s.root]

FoundIn(s, k) ==
  LET hit == {x \in VisitedIn(s, k) : s.node[x].key = k}
  IN  IF hit = {} THEN NULL ELSE CHOOSE x \in hit : TRUE

ContentIn(s) ==
  [k \in Keys |-> LET x == FoundIn(s, k) IN IF x = NULL THEN None ELSE s.node[x].value]

(* The nodes visited by lookup_node in t. *)
LEMMA VisitedThere == \A k : Visited(k) = VisitedIn(t, k)
BY DEF Visited, VisitedIn, Pointer, Nodes, left, right

LEMMA VisitedIsPath ==
  ASSUME NEW N, NEW s \in Tree(N), IsFiniteSet(N), NEW U,
         Shape(N, Lefts(s), Rights(s), Parents(s), s.root, U),
         NEW k \in Int, KeyOf(s) \in [N -> Int]
  PROVE  VisitedIn(s, k) = Path(N, Lefts(s), Rights(s), KeyOf(s), U, k)[s.root]
<1> DEFINE A == Lefts(s)
           B == Rights(s)
           K == KeyOf(s)
           G == Path(N, A, B, K, U, k)
           Recursive(f) ==
             f = [x \in N \cup {NULL} |->
                    IF x = NULL THEN {}
                    ELSE {x} \cup IF k = K[x] THEN {} ELSE f[IF k < K[x] THEN A[x] ELSE B[x]]]
           from == CHOOSE f :
             f = [x \in DOMAIN s.node \cup {NULL} |->
                    IF x = NULL THEN {}
                    ELSE {x} \cup IF k = s.node[x].key THEN {}
                                  ELSE f[IF k < s.node[x].key THEN s.node[x].left
                                         ELSE s.node[x].right]]
<1>1. /\ DOMAIN s.node = N
      /\ \A x \in N : /\ A[x] = s.node[x].left /\ B[x] = s.node[x].right /\ K[x] = s.node[x].key
      /\ NULL \notin N
  BY TreeFields DEF KeyOf, Shape, Typed
<1>2. VisitedIn(s, k) = from[s.root]
  BY DEF VisitedIn
<1>3. \A f : Recursive(f) <=>
        f = [x \in DOMAIN s.node \cup {NULL} |->
               IF x = NULL THEN {}
               ELSE {x} \cup IF k = s.node[x].key THEN {}
                             ELSE f[IF k < s.node[x].key THEN s.node[x].left
                                    ELSE s.node[x].right]]
  BY <1>1
<1>4. Recursive(G)
  <2>1. \A x \in N : G[x] = {x} \cup IF k = K[x] THEN {} ELSE G[IF k < K[x] THEN A[x] ELSE B[x]]
    BY PathStep
  <2>2. G[NULL] = {} /\ G = [x \in N \cup {NULL} |-> G[x]]
    BY DEF Path, Sub
  <2> HIDE DEF G, A, B, K
  <2> QED
    BY <1>1, <2>1, <2>2
<1>5. Recursive(from)
  <2> HIDE DEF Recursive, G
  <2> QED
    BY <1>3, <1>4
<1>6. from = G
  <2>1. ASSUME NEW f, Recursive(f) PROVE f = G
    BY <2>1, PathUnique
  <2> HIDE DEF Recursive, G, from
  <2> QED
    BY <1>5, <2>1
<1> HIDE DEF from
<1> QED
  BY <1>2, <1>6

(* Nodes are named by their keys, but for m, which has the key and the      *)
(* value of v, its predecessor or itself.                                   *)
NamedBy(N, s, m, v) ==
  /\ \A x \in N : s.node[x].key = IF x = m THEN v ELSE x
  /\ m \in N => /\ v \in N /\ v <= m /\ s.node[m].value = s.node[v].value
                /\ \A y \in N : y <= v \/ m <= y

(* The names are in the order of the keys, but for the node that takes over *)
(* the key of the victim.                                                   *)
LEMMA NamesOrderKeys ==
  ASSUME NEW N \in SUBSET Int, NEW s \in Tree(N), NEW U,
         Shape(N, Lefts(s), Rights(s), Parents(s), s.root, U),
         Ordered(N, Lefts(s), Rights(s), U, Less), NEW m, NEW v, NamedBy(N, s, m, v)
  PROVE  KeyOrder(N, Lefts(s), Rights(s), KeyOf(s), U)
<1> DEFINE A == Lefts(s)
           B == Rights(s)
           K == KeyOf(s)
<1>1. DOMAIN s.node = N /\ \A x \in N : K[x] = IF x = m THEN v ELSE x
  BY TreeFields DEF KeyOf, NamedBy
<1>2. m \in N => v \in N /\ v <= m /\ \A y \in N : y <= v \/ m <= y
  BY DEF NamedBy
<1>3. K \in [N -> Int]
  BY <1>1, <1>2 DEF KeyOf
<1>4. ASSUME NEW x \in N, NEW y \in N, x < y PROVE K[x] <= K[y]
  <2> HIDE DEF K
  <2>0. x \in Int /\ y \in Int /\ (m \in N => v \in Int /\ m \in Int)
    BY <1>2
  <2>1. CASE x = m
    <3>1. K[x] = v /\ K[y] = y
      BY <1>1, <1>4, <2>0, <2>1
    <3> QED
      BY <1>2, <1>4, <2>0, <2>1, <3>1
  <2>2. CASE y = m
    <3>1. K[x] = x /\ K[y] = v
      BY <1>1, <1>4, <2>0, <2>2
    <3>2. ~(m <= x)
      BY <1>4, <2>0, <2>2
    <3> QED
      BY <1>2, <2>2, <3>1, <3>2
  <2>3. CASE x # m /\ y # m
    <3>1. K[x] = x /\ K[y] = y
      BY <1>1, <2>3
    <3> QED
      BY <1>4, <2>0, <3>1
  <2> QED
    BY <2>1, <2>2, <2>3
<1>5. ASSUME NEW x \in N
      PROVE  /\ \A y \in Sub(U, A[x]) : y \in N /\ y < x
             /\ \A y \in Sub(U, B[x]) : y \in N /\ x < y
  <2>1. U \in [N -> SUBSET N] /\ A[x] \in N \cup {NULL} /\ B[x] \in N \cup {NULL}
    BY DEF Shape, Typed
  <2>2. Sub(U, A[x]) \subseteq N /\ Sub(U, B[x]) \subseteq N
    BY <2>1 DEF Sub
  <2>3. /\ \A y \in Sub(U, A[x]) : <<y, x>> \in Less
        /\ \A y \in Sub(U, B[x]) : <<x, y>> \in Less
    BY DEF Ordered, OrderedAt
  <2> QED
    BY <2>2, <2>3 DEF Less
<1> HIDE DEF A, B, K
<1>6. KeyOrder(N, A, B, K, U)
  BY <1>3, <1>4, <1>5 DEF KeyOrder
<1> QED
  BY <1>6 DEF A, B, K

(* What a search needs of tree s. *)
Readable(N, s, m, v, U) ==
  /\ s \in Tree(N) /\ IsFiniteSet(N) /\ N \in SUBSET Int
  /\ Shape(N, Lefts(s), Rights(s), Parents(s), s.root, U)
  /\ Ordered(N, Lefts(s), Rights(s), U, Less)
  /\ NamedBy(N, s, m, v)

(* lookup_node finds the node that has the key. *)
LEMMA Found ==
  ASSUME NEW N, NEW s, NEW m, NEW v, NEW U, Readable(N, s, m, v, U), NEW k \in Int
  PROVE  /\ (\E x \in N : s.node[x].key = k) =>
              FoundIn(s, k) \in N /\ s.node[FoundIn(s, k)].key = k
         /\ (\A x \in N : s.node[x].key # k) => FoundIn(s, k) = NULL
<1>1. /\ s \in Tree(N) /\ IsFiniteSet(N) /\ N \in SUBSET Int
      /\ Shape(N, Lefts(s), Rights(s), Parents(s), s.root, U)
      /\ Ordered(N, Lefts(s), Rights(s), U, Less) /\ NamedBy(N, s, m, v)
  BY DEF Readable
<1>2. KeyOrder(N, Lefts(s), Rights(s), KeyOf(s), U)
  BY <1>1, NamesOrderKeys
<1>3. KeyOf(s) \in [N -> Int]
  BY <1>2 DEF KeyOrder
<1>4. \A x \in N : KeyOf(s)[x] = s.node[x].key
  BY <1>1, TreeFields DEF KeyOf
<1> DEFINE G == Path(N, Lefts(s), Rights(s), KeyOf(s), U, k)[s.root]
           hit == {x \in VisitedIn(s, k) : s.node[x].key = k}
<1>5. VisitedIn(s, k) = G
  BY <1>1, <1>3, VisitedIsPath
<1>6. G \subseteq N
  <2>1. s.root \in N \cup {NULL} /\ Sub(U, s.root) = N
    BY <1>1 DEF Shape, Typed
  <2> QED
    BY <2>1 DEF Path
<1> HIDE DEF G
<1>7. hit \subseteq N /\ \A x \in hit : s.node[x].key = k
  BY <1>5, <1>6
<1>8. ASSUME NEW x \in N, s.node[x].key = k PROVE hit # {}
  <2>1. KeyOf(s)[x] = k
    BY <1>4, <1>8
  <2>2. \E z \in G : KeyOf(s)[z] = k
    BY <1>1, <1>2, <2>1, PathFinds DEF G
  <2> QED
    BY <1>4, <1>5, <1>6, <2>2
<1>9. FoundIn(s, k) = IF hit = {} THEN NULL ELSE CHOOSE x \in hit : TRUE
  BY DEF FoundIn
<1> HIDE DEF hit
<1>10. hit # {} => FoundIn(s, k) \in hit
  BY <1>9
<1>11. (\E x \in N : s.node[x].key = k) =>
          FoundIn(s, k) \in N /\ s.node[FoundIn(s, k)].key = k
  BY <1>7, <1>8, <1>10
<1>12. (\A x \in N : s.node[x].key # k) => FoundIn(s, k) = NULL
  BY <1>7, <1>9
<1> QED
  BY <1>11, <1>12

(* The content of a tree, told from its nodes. *)
LEMMA ContentIs ==
  ASSUME NEW N, NEW s, NEW m, NEW v, NEW U, Readable(N, s, m, v, U), NEW k \in Keys
  PROVE  /\ \A x \in N : s.node[x].key = k => ContentIn(s)[k] = s.node[x].value
         /\ (\A x \in N : s.node[x].key # k) => ContentIn(s)[k] = None
<1>1. k \in Int /\ N \in SUBSET Int /\ NULL \notin N
  <2>1. N \in SUBSET Int /\ NULL \notin N
    BY DEF Readable, Shape, Typed
  <2> QED
    BY <2>1, KeysAssumption
<1> DEFINE y == FoundIn(s, k)
<1>2. ContentIn(s)[k] = IF y = NULL THEN None ELSE s.node[y].value
  BY DEF ContentIn
<1>3. /\ (\E x \in N : s.node[x].key = k) => y \in N /\ s.node[y].key = k
      /\ (\A x \in N : s.node[x].key # k) => y = NULL
  BY <1>1, Found
<1> HIDE DEF y
<1>4. NamedBy(N, s, m, v)
  BY DEF Readable
<1>5. ASSUME NEW x \in N, s.node[x].key = k PROVE ContentIn(s)[k] = s.node[x].value
  <2>1. y \in N /\ y # NULL /\ s.node[y].key = k
    BY <1>1, <1>3, <1>5
  <2>2. s.node[y].value = s.node[x].value
    BY <1>4, <1>5, <2>1 DEF NamedBy
  <2> QED
    BY <1>2, <2>1, <2>2
<1>6. (\A x \in N : s.node[x].key # k) => ContentIn(s)[k] = None
  BY <1>2, <1>3
<1> QED
  BY <1>5, <1>6

(* Content that stays with its names is the same map, and well named.       *)
LEMMA ContentKept ==
  ASSUME NEW N, NEW s, NEW m, NEW v, NEW U, Readable(N, s, m, v, U),
         NEW s2, NEW U2, s2 \in Tree(N), SameContent(N, s, s2),
         Shape(N, Lefts(s2), Rights(s2), Parents(s2), s2.root, U2),
         Ordered(N, Lefts(s2), Rights(s2), U2, Less)
  PROVE  ContentIn(s2) = ContentIn(s) /\ Readable(N, s2, m, v, U2)
<1>1. Readable(N, s2, m, v, U2)
  BY DEF Readable, NamedBy, SameContent
<1>2. ASSUME NEW k \in Keys PROVE ContentIn(s2)[k] = ContentIn(s)[k]
  <2>1. /\ \A x \in N : s.node[x].key = k => ContentIn(s)[k] = s.node[x].value
        /\ (\A x \in N : s.node[x].key # k) => ContentIn(s)[k] = None
    BY ContentIs
  <2>2. /\ \A x \in N : s2.node[x].key = k => ContentIn(s2)[k] = s2.node[x].value
        /\ (\A x \in N : s2.node[x].key # k) => ContentIn(s2)[k] = None
    BY <1>1, ContentIs
  <2>3. \A x \in N : s2.node[x].key = s.node[x].key /\ s2.node[x].value = s.node[x].value
    BY DEF SameContent
  <2> QED
    BY <2>1, <2>2, <2>3
<1>3. ContentIn(s2) = [k \in Keys |-> ContentIn(s2)[k]]
      /\ ContentIn(s) = [k \in Keys |-> ContentIn(s)[k]]
  BY DEF ContentIn
<1> QED
  BY <1>1, <1>2, <1>3
-----------------------------------------------------------------------------
(* The sibling of x, and its children on x's side and on the other.         *)
Sibling(s, x) ==
  LET p == Parents(s)[x] IN IF x = Lefts(s)[p] THEN Rights(s)[p] ELSE Lefts(s)[p]
Near(s, x) ==
  IF x = Lefts(s)[Parents(s)[x]] THEN Lefts(s)[Sibling(s, x)] ELSE Rights(s)[Sibling(s, x)]
Far(s, x) ==
  IF x = Lefts(s)[Parents(s)[x]] THEN Rights(s)[Sibling(s, x)] ELSE Lefts(s)[Sibling(s, x)]

(* The model's case distinctions, from the side of the node. *)
LEMMA FaceRead ==
  ASSUME NEW N, NEW s, NEW v, NEW e, NEW d, NEW U, NEW H, Sound(N, s, v, e, d, U, H),
         NEW A, NEW B, NEW E, Faced(s, A, B, E), NEW p \in N, NEW x \in N, A[p] = x
  PROVE  /\ Parents(s)[x] = p /\ Sibling(s, x) = B[p]
         /\ Near(s, x) = A[B[p]] /\ Far(s, x) = B[B[p]]
<1>1. Shape(N, A, B, Parents(s), s.root, U)
  BY View
<1>2. x # NULL
  BY <1>1, Kin
<1>3. Parents(s)[x] = p
  BY <1>1, <1>2 DEF Shape, LinkedAt
<1>4. A[p] # B[p]
  BY <1>1, <1>2, Kin
<1> QED
  BY <1>3, <1>4 DEF Sibling, Near, Far, Faced

LEMMA FaceOf ==
  ASSUME NEW N, NEW s, NEW v, NEW e, NEW d, NEW U, NEW H, Sound(N, s, v, e, d, U, H),
         NEW x \in N, Parents(s)[x] # NULL
  PROVE  /\ Parents(s)[x] \in N
         /\ \E A, B, E :
              /\ Faced(s, A, B, E) /\ A[Parents(s)[x]] = x
              /\ \/ x = Lefts(s)[Parents(s)[x]] /\ A = Lefts(s) /\ B = Rights(s) /\ E = Less
                 \/ /\ x # Lefts(s)[Parents(s)[x]] /\ x = Rights(s)[Parents(s)[x]]
                    /\ A = Rights(s) /\ B = Lefts(s) /\ E = Greater
<1> DEFINE p == Parents(s)[x]
<1>1. Shape(N, Lefts(s), Rights(s), Parents(s), s.root, U)
  BY DEF Sound
<1>2. p \in N /\ x \in {Lefts(s)[p], Rights(s)[p]}
  BY <1>1 DEF Shape, Typed, LinkedAt
<1>3. CASE x = Lefts(s)[p]
  BY <1>2, <1>3 DEF Faced
<1>4. CASE x # Lefts(s)[p]
  BY <1>2, <1>4 DEF Faced
<1> QED
  BY <1>2, <1>3, <1>4
-----------------------------------------------------------------------------
(* The inductive invariant: what each position of the program may rely on. *)
InsertCases == {"insert_case1", "insert_case2", "insert_case3", "insert_case4", "insert_case5"}
DeleteCases == {"delete_case1", "delete_case2", "delete_case3", "delete_case4", "delete_case5",
                "delete_case6"}

(* Tree s, where m may have the key of v, and nothing is said of the colour *)
(* of e.                                                                    *)
Base(N, s, m, v, e) ==
  /\ N \in SUBSET Keys /\ IsFiniteSet(N) /\ s \in Tree(N)
  /\ NamedBy(N, s, m, v)
  /\ s.root # NULL /\ s.root # e => Colors(s)[s.root] = "BLACK"

(* Between calls: a red-black search tree. *)
Steady(s) ==
  LET N == DOMAIN s.node
  IN  /\ Base(N, s, NULL, NULL, NULL)
      /\ \E U, H : Sound(N, s, NULL, NULL, NULL, U, H)

(* A call that is about to return has done what it was asked to do. *)
Returning(s, q) ==
  /\ Steady(s)
  /\ q.op \in {"lookup", "insert", "delete"} /\ q.key \in Keys
  /\ ContentIn(s)[q.key] = IF q.op = "delete" THEN None ELSE q.value

(* Case p of the insertion, at the red node x. *)
InsertInv(p, s, x, q) ==
  LET N == DOMAIN s.node
      y == Parents(s)[x]
      g == Parents(s)[y]
  IN  /\ q.op = "insert" /\ q.key \in Keys /\ ContentIn(s)[q.key] = q.value
      /\ Base(N, s, NULL, NULL, x)
      /\ x \in N /\ Colors(s)[x] = "RED"
      /\ \E U, H : Sound(N, s, NULL, x, NULL, U, H)
      /\ p # "insert_case1" => y # NULL
      /\ p \in {"insert_case3", "insert_case4", "insert_case5"} => Colors(s)[y] = "RED"
      /\ p \in {"insert_case4", "insert_case5"} =>
           g # NULL /\ Col(Colors(s), Sibling(s, y)) = "BLACK"
      /\ p = "insert_case5" =>
           \/ x = Lefts(s)[y] /\ y = Lefts(s)[g]
           \/ x = Rights(s)[y] /\ y = Rights(s)[g]

(* The victim has no child but the one that is to take its place. *)
OnlyChild(s, f) ==
  \/ Lefts(s)[f.victim] = NULL /\ Rights(s)[f.victim] = f.child
  \/ Rights(s)[f.victim] = NULL /\ Lefts(s)[f.victim] = f.child

(* When the victim is gone its child and its parent are not both red. *)
ChildFits(s, f) ==
  Col(Colors(s), f.child) = "BLACK" \/ Colors(s)[Parents(s)[f.victim]] = "BLACK"

(* The request whose victim is still in the tree: the key has left, or the  *)
(* node that keeps it has become another one's.                             *)
Request(N, s, f, q) ==
  /\ q.op = "delete" /\ q.key \in N
  /\ f.victim \in N /\ OnlyChild(s, f)
  /\ Base(N, s, q.key, f.victim, f.victim)

(* The victim is below x, which lacks a black node. *)
Below(s, f, x, U) ==
  /\ f.victim \in U[x]
  /\ f.child # NULL => f.child \in U[x]
  /\ x # f.victim =>
       /\ Parents(s)[f.victim] \in U[x]
       /\ Colors(s)[x] = "BLACK" /\ ChildFits(s, f)

BlackFamily(s, x) ==
  /\ Col(Colors(s), Sibling(s, x)) = "BLACK"
  /\ Col(Colors(s), Near(s, x)) = "BLACK" /\ Col(Colors(s), Far(s, x)) = "BLACK"

(* Case p of the deletion, at x: what is below x lacks a black node, since  *)
(* the victim counts for nothing.                                           *)
DeleteInv(p, s, f, q) ==
  LET N == DOMAIN s.node
      x == f.n
  IN  /\ Request(N, s, f, q) /\ x \in N
      /\ \E U, H : Sound(N, s, f.victim, f.victim, x, U, H) /\ Below(s, f, x, U)
      /\ p # "delete_case1" => Parents(s)[x] # NULL
      /\ p \in {"delete_case3", "delete_case4", "delete_case5", "delete_case6"} =>
           Col(Colors(s), Sibling(s, x)) = "BLACK"
      /\ p = "delete_case4" =>
           Colors(s)[Parents(s)[x]] = "RED" \/ ~BlackFamily(s, x)
      /\ p = "delete_case5" => ~BlackFamily(s, x)
      /\ p = "delete_case6" => Col(Colors(s), Far(s, x)) = "RED"

(* The cases are over: the victim can go without being missed. *)
FinishInv(s, f, q) ==
  LET N == DOMAIN s.node
  IN  /\ Request(N, s, f, q)
      /\ \E U, H : Sound(N, s, f.victim, f.victim, NULL, U, H)
      /\ Parents(s)[f.victim] # NULL => ChildFits(s, f)

Frames(N) == [n : N \cup {NULL}, victim : N \cup {NULL}, child : N \cup {NULL}]

InvOf(p, s, f, q) ==
  /\ f \in Frames(DOMAIN s.node)
  /\ \/ p = "idle" /\ f = NoFrame /\ q = NoRequest /\ Steady(s)
     \/ p = "return" /\ Returning(s, q)
     \/ p \in InsertCases /\ InsertInv(p, s, f.n, q)
     \/ p \in DeleteCases /\ DeleteInv(p, s, f, q)
     \/ p = "delete_finish" /\ FinishInv(s, f, q)

(* The inductive invariant of the specification, for the current state. *)
Inv == InvOf(pc, t, frame, req)
-----------------------------------------------------------------------------
(* The pointers of the model are the fields of t. *)
LEMMA Reads ==
  ASSUME t \in Tree(Nodes)
  PROVE  /\ \A x \in Nodes : left(x) = Lefts(t)[x] /\ right(x) = Rights(t)[x]
                             /\ parent(x) = Parents(t)[x]
         /\ \A x \in Pointer : node_color(x) = Col(Colors(t), x)
BY DEF left, right, parent, node_color, Lefts, Rights, Parents, Colors, Col, Pointer, Nodes

(* What changes neither keys nor values. *)
LEMMA KeepBase ==
  ASSUME NEW N, NEW s, NEW m, NEW v, NEW e, Base(N, s, m, v, e),
         NEW s2 \in Tree(N), SameContent(N, s, s2),
         NEW e2, s2.root # NULL /\ s2.root # e2 => Colors(s2)[s2.root] = "BLACK"
  PROVE  Base(N, s2, m, v, e2)
BY DEF Base, NamedBy, SameContent

LEMMA KeepContent ==
  ASSUME NEW N, NEW s, NEW m, NEW v, NEW e, Base(N, s, m, v, e),
         NEW v1, NEW e1, NEW d1, NEW U1, NEW H1, Sound(N, s, v1, e1, d1, U1, H1),
         NEW s2, SameContent(N, s, s2),
         NEW v2, NEW e2, NEW d2, NEW U2, NEW H2, Sound(N, s2, v2, e2, d2, U2, H2)
  PROVE  ContentIn(s2) = ContentIn(s)
<1>1. Readable(N, s, m, v, U1)
  BY DEF Base, Sound, Readable
<1>2. /\ s2 \in Tree(N) /\ Ordered(N, Lefts(s2), Rights(s2), U2, Less)
      /\ Shape(N, Lefts(s2), Rights(s2), Parents(s2), s2.root, U2)
  BY DEF Sound
<1> QED
  BY <1>1, <1>2, ContentKept

(* What is known of the insertion at x, whatever the case. *)
LEMMA InsertAt ==
  ASSUME NEW p, NEW s, NEW x, NEW q, InsertInv(p, s, x, q), NEW N, N = DOMAIN s.node
  PROVE  /\ Base(N, s, NULL, NULL, x) /\ s \in Tree(N) /\ x \in N /\ Colors(s)[x] = "RED"
         /\ \E U, H : Sound(N, s, NULL, x, NULL, U, H)
         /\ s.root # x => Colors(s)[s.root] = "BLACK"
         /\ q.op = "insert" /\ q.key \in Keys /\ ContentIn(s)[q.key] = q.value
         /\ NULL \notin N /\ s.root \in N /\ Parents(s)[x] \in N \cup {NULL}
<1>1. /\ Base(N, s, NULL, NULL, x) /\ x \in N /\ Colors(s)[x] = "RED"
      /\ \E U, H : Sound(N, s, NULL, x, NULL, U, H)
      /\ q.op = "insert" /\ q.key \in Keys /\ ContentIn(s)[q.key] = q.value
  BY DEF InsertInv
<1>2. PICK U, H : Sound(N, s, NULL, x, NULL, U, H)
  BY <1>1
<1>3. s.root \in N /\ NULL \notin N /\ Parents(s)[x] \in N \cup {NULL}
  BY <1>1, <1>2 DEF Sound, Shape, Typed, Sub
<1> QED
  BY <1>1, <1>3 DEF Base

(* The insertion is over when no node is exempt any more. *)
LEMMA InsertReturns ==
  ASSUME NEW p, NEW s, NEW x, NEW q, InsertInv(p, s, x, q), NEW N, N = DOMAIN s.node,
         NEW s2, s2 \in Tree(N), SameContent(N, s, s2),
         \E U, H : Sound(N, s2, NULL, NULL, NULL, U, H),
         s2.root # NULL => Colors(s2)[s2.root] = "BLACK"
  PROVE  Returning(s2, q) /\ ContentIn(s2) = ContentIn(s)
<1>1. /\ Base(N, s, NULL, NULL, x)
      /\ q.op = "insert" /\ q.key \in Keys /\ ContentIn(s)[q.key] = q.value
  BY InsertAt
<1>2. PICK U, H : Sound(N, s, NULL, x, NULL, U, H)
  BY InsertAt
<1>3. PICK U2, H2 : Sound(N, s2, NULL, NULL, NULL, U2, H2)
  OBVIOUS
<1>4. ContentIn(s2) = ContentIn(s)
  BY <1>1, <1>2, <1>3, KeepContent
<1>5. Base(N, s2, NULL, NULL, NULL)
  BY <1>1, KeepBase
<1>6. DOMAIN s2.node = N
  BY TreeFields
<1>7. Steady(s2)
  BY <1>3, <1>5, <1>6 DEF Steady
<1> QED
  BY <1>1, <1>4, <1>7 DEF Returning

(* insert_case1 and insert_case2 in a tree s. *)
LEMMA Insert1Root ==
  ASSUME NEW s, NEW x, NEW q, InsertInv("insert_case1", s, x, q), Parents(s)[x] = NULL
  PROVE  /\ Returning(SetColor(s, x, "BLACK"), q)
         /\ ContentIn(SetColor(s, x, "BLACK")) = ContentIn(s)
         /\ DOMAIN SetColor(s, x, "BLACK").node = DOMAIN s.node
<1> DEFINE N == DOMAIN s.node
           s2 == SetColor(s, x, "BLACK")
<1>1. /\ Base(N, s, NULL, NULL, x) /\ s \in Tree(N) /\ x \in N
      /\ s.root # x => Colors(s)[s.root] = "BLACK"
  BY InsertAt
<1>2. PICK U, H : Sound(N, s, NULL, x, NULL, U, H)
  BY InsertAt
<1> HIDE DEF N
<1>3. ColorSet(N, s, x, "BLACK", s2)
  BY <1>1, SetColorFields DEF Color
<1> HIDE DEF s2
<1>4. /\ Shape(N, Lefts(s), Rights(s), Parents(s), s.root, U) /\ N \in SUBSET Int
      /\ Ordered(N, Lefts(s), Rights(s), U, Less)
      /\ HeightsTyped(N, H) /\ Balanced(N, Lefts(s), Rights(s), Colors(s), NULL, x, NULL, H)
  BY <1>2 DEF Sound
<1>5. x = s.root
  BY <1>1, <1>4 DEF Shape, LinkedAt
<1>6. /\ s2 \in Tree(N) /\ SameContent(N, s, s2) /\ s2.root = s.root
      /\ Lefts(s2) = Lefts(s) /\ Rights(s2) = Rights(s) /\ Parents(s2) = Parents(s)
  BY <1>3 DEF ColorSet, SameLinks
<1>7. Colors(s) \in [N -> Color]
  BY <1>1, TreeFields
<1>8. \A z \in N : Colors(s2)[z] = IF z = s.root THEN "BLACK" ELSE Colors(s)[z]
  BY <1>3, <1>5, <1>7 DEF ColorSet
<1>9. PICK H2 : HeightsTyped(N, H2)
      /\ Balanced(N, Lefts(s), Rights(s), Colors(s2), NULL, NULL, NULL, H2)
  <2>1. s.root \in N /\ RootBlackened(N, s.root, x, Colors(s), Colors(s2))
    BY <1>1, <1>5, <1>8 DEF RootBlackened
  <2> QED
    BY <1>4, <2>1, BlackenRoot
<1>10. Sound(N, s2, NULL, NULL, NULL, U, H2)
  BY <1>4, <1>6, <1>9 DEF Sound
<1>11. Colors(s2)[s2.root] = "BLACK"
  BY <1>1, <1>5, <1>6, <1>8
<1>12. N = DOMAIN s.node /\ DOMAIN s2.node = N
  BY <1>6, TreeFields DEF N
<1> QED
  BY <1>6, <1>10, <1>11, <1>12, InsertReturns DEF s2

LEMMA Insert1Up ==
  ASSUME NEW s, NEW x, NEW q, InsertInv("insert_case1", s, x, q), Parents(s)[x] # NULL
  PROVE  InsertInv("insert_case2", s, x, q)
BY DEF InsertInv

LEMMA Insert2Up ==
  ASSUME NEW s, NEW x, NEW q, InsertInv("insert_case2", s, x, q),
         Colors(s)[Parents(s)[x]] = "RED"
  PROVE  InsertInv("insert_case3", s, x, q)
BY DEF InsertInv

LEMMA Insert2Return ==
  ASSUME NEW s, NEW x, NEW q, InsertInv("insert_case2", s, x, q),
         Colors(s)[Parents(s)[x]] = "BLACK"
  PROVE  Returning(s, q)
<1> DEFINE N == DOMAIN s.node
<1>1. /\ Base(N, s, NULL, NULL, x) /\ s \in Tree(N) /\ x \in N
      /\ s.root # x => Colors(s)[s.root] = "BLACK"
  BY InsertAt
<1>2. PICK U, H : Sound(N, s, NULL, x, NULL, U, H)
  BY InsertAt
<1>3. N = DOMAIN s.node
  OBVIOUS
<1> HIDE DEF N
<1>4. /\ Shape(N, Lefts(s), Rights(s), Parents(s), s.root, U)
      /\ HeightsTyped(N, H) /\ Balanced(N, Lefts(s), Rights(s), Colors(s), NULL, x, NULL, H)
  BY <1>2 DEF Sound
<1>5. Parents(s)[x] # NULL
  BY DEF InsertInv
<1>6. Balanced(N, Lefts(s), Rights(s), Colors(s), NULL, NULL, NULL, H)
  BY <1>1, <1>4, NoLongerExempt
<1>7. Sound(N, s, NULL, NULL, NULL, U, H)
  BY <1>2, <1>6 DEF Sound
<1>8. s.root # x
  <2>1. s.root # NULL => Parents(s)[s.root] = NULL
    BY <1>4 DEF Shape
  <2>2. x # NULL
    BY <1>1, <1>4, Kin
  <2> QED
    BY <1>5, <2>1, <2>2
<1>9. SameContent(N, s, s)
  BY DEF SameContent
<1> QED
  BY <1>1, <1>3, <1>7, <1>8, <1>9, InsertReturns

(* A red node has a parent, a black one when the node has a red child.      *)
LEMMA RedHasParent ==
  ASSUME NEW p \in {"insert_case3", "insert_case4", "insert_case5"},
         NEW s, NEW x, NEW q, InsertInv(p, s, x, q), NEW N, N = DOMAIN s.node
  PROVE  /\ Parents(s)[x] \in N /\ Colors(s)[Parents(s)[x]] = "RED"
         /\ Parents(s)[Parents(s)[x]] \in N
<1> DEFINE y == Parents(s)[x]
<1>1. /\ s \in Tree(N) /\ x \in N /\ NULL \notin N
      /\ s.root # x => Colors(s)[s.root] = "BLACK"
  BY InsertAt
<1>2. PICK U, H : Sound(N, s, NULL, x, NULL, U, H)
  BY InsertAt
<1>3. y # NULL /\ Colors(s)[y] = "RED"
  BY DEF InsertInv
<1>4. Parents(s) \in [N -> N \cup {NULL}]
  BY <1>1, TreeFields
<1>5. y \in N
  BY <1>1, <1>3, <1>4
<1>6. y # x
  BY <1>1, <1>2, Kin DEF Sound
<1>7. y # s.root
  <2>1. s.root # NULL => Parents(s)[s.root] = NULL
    BY <1>2 DEF Sound, Shape
  <2> QED
    BY <1>1, <1>3, <2>1
<1>8. Parents(s)[y] # NULL
  BY <1>2, <1>5, <1>7 DEF Sound, Shape, LinkedAt
<1> QED
  BY <1>3, <1>4, <1>5, <1>8

(* insert_case3 in a tree s. *)
LEMMA Insert3Down ==
  ASSUME NEW s, NEW x, NEW q, InsertInv("insert_case3", s, x, q),
         Col(Colors(s), Sibling(s, Parents(s)[x])) = "BLACK"
  PROVE  InsertInv("insert_case4", s, x, q)
<1>1. /\ NULL \notin DOMAIN s.node
  BY InsertAt
<1>2. Parents(s)[Parents(s)[x]] \in DOMAIN s.node
  BY RedHasParent
<1> QED
  BY <1>1, <1>2 DEF InsertInv

LEMMA Insert3Up ==
  ASSUME NEW s, NEW x, NEW q, InsertInv("insert_case3", s, x, q),
         NEW y, y = Parents(s)[x], NEW g, g = Parents(s)[y], NEW u, u = Sibling(s, y),
         Col(Colors(s), u) = "RED",
         NEW s2, s2 = SetColor(SetColor(SetColor(s, y, "BLACK"), u, "BLACK"), g, "RED")
  PROVE  /\ InsertInv("insert_case1", s2, g, q) /\ g \in DOMAIN s.node
         /\ ContentIn(s2) = ContentIn(s) /\ DOMAIN s2.node = DOMAIN s.node
<1> DEFINE N == DOMAIN s.node
<1>1. /\ Base(N, s, NULL, NULL, x) /\ s \in Tree(N) /\ x \in N /\ Colors(s)[x] = "RED"
      /\ s.root # x => Colors(s)[s.root] = "BLACK"
      /\ NULL \notin N
  BY InsertAt
<1>2. PICK U, H : Sound(N, s, NULL, x, NULL, U, H)
  BY InsertAt
<1>3. y \in N /\ g \in N /\ Colors(s)[y] = "RED"
  BY RedHasParent
<1>4. q.op = "insert" /\ q.key \in Keys /\ ContentIn(s)[q.key] = q.value
  BY InsertAt
<1>5. N = DOMAIN s.node
  OBVIOUS
<1> HIDE DEF N
<1>6. PICK A, B, E : /\ Faced(s, A, B, E) /\ A[g] = y
                     /\ \/ A = Lefts(s) /\ B = Rights(s)
                        \/ A = Rights(s) /\ B = Lefts(s)
  <2>1. Parents(s)[y] # NULL
    BY <1>1, <1>3
  <2> QED
    BY <1>2, <1>3, <2>1, FaceOf
<1>7. B[g] = u
  BY <1>2, <1>3, <1>6, FaceRead
<1>8. u \in N /\ Colors(s)[u] = "RED" /\ u # y /\ y # g /\ u # g
  <2>1. Shape(N, A, B, Parents(s), s.root, U)
    BY <1>2, <1>6, View
  <2>2. B[g] \in N \cup {NULL} /\ A[g] # g /\ B[g] # g /\ A[g] # B[g]
    BY <1>1, <1>3, <1>6, <2>1, Kin
  <2>3. u # NULL
    BY DEF Col
  <2> QED
    BY <1>6, <1>7, <2>2, <2>3 DEF Col
<1>9. Painted(N, s, y, "BLACK", u, "BLACK", g, "RED", s2)
  <2>1. "RED" \in Color /\ "BLACK" \in Color
    BY DEF Color
  <2> QED
    BY <1>1, <1>3, <1>8, <2>1, RecolouredThrice
<1>10. /\ Recoloured(N, s, s2)
       /\ \A z \in N : Colors(s2)[z] = IF z = g THEN "RED"
                                       ELSE IF z \in {y, u} THEN "BLACK" ELSE Colors(s)[z]
  BY <1>9 DEF Painted
<1>11. PICK a, b : a = Lefts(s)[g] /\ b = Rights(s)[g] /\ {a, b} = {y, u}
  BY <1>6, <1>7
<1>12. /\ \E H2 : Sound(N, s2, NULL, g, NULL, U, H2)
       /\ s2.root # g => Colors(s2)[s2.root] = "BLACK"
  <2>1. a \in N /\ b \in N /\ Parents(s)[x] \in {a, b}
    BY <1>3, <1>8, <1>11
  <2>2. Colors(s)[a] = "RED" /\ Colors(s)[b] = "RED"
    BY <1>3, <1>8, <1>11
  <2>3. \A z \in N : Colors(s2)[z] = IF z = g THEN "RED"
                                     ELSE IF z \in {a, b} THEN "BLACK" ELSE Colors(s)[z]
    BY <1>10, <1>11
  <2> QED
    BY <1>1, <1>2, <1>3, <1>10, <1>11, <2>1, <2>2, <2>3, CaseInsert3
<1>13. s2 \in Tree(N) /\ SameContent(N, s, s2) /\ DOMAIN s2.node = N
  <2>1. s2 \in Tree(N) /\ SameContent(N, s, s2)
    BY <1>10 DEF Recoloured
  <2> QED
    BY <2>1, TreeFields
<1>14. ContentIn(s2) = ContentIn(s)
  BY <1>1, <1>2, <1>12, <1>13, KeepContent
<1>15. Base(N, s2, NULL, NULL, g)
  BY <1>1, <1>12, <1>13, KeepBase
<1>16. Colors(s2)[g] = "RED"
  BY <1>3, <1>10
<1> QED
  BY <1>3, <1>4, <1>5, <1>12, <1>13, <1>14, <1>15, <1>16 DEF InsertInv

(* y is x's parent and g y's; x is on side X, and y on side Y. *)
Ancestors(s, X, Y, x, y, g) ==
  y = Parents(s)[x] /\ g = Parents(s)[y] /\ x = X[y] /\ y = Y[g]

(* insert_case4, where x comes up between its parent y and y's parent g.    *)
LEMMA Insert4Turn ==
  ASSUME NEW s, NEW x, NEW q, InsertInv("insert_case4", s, x, q),
         NEW y, NEW g, NEW A, NEW B, NEW E, Faced(s, A, B, E), Ancestors(s, B, A, x, y, g),
         NEW s2, Turned(s, A, B, E, y, s2)
  PROVE  /\ InsertInv("insert_case5", s2, y, q) /\ y \in DOMAIN s.node
         /\ ContentIn(s2) = ContentIn(s) /\ DOMAIN s2.node = DOMAIN s.node
         /\ E = Less => s2.node[x].left = y
         /\ E = Greater => s2.node[x].right = y
<1>1. PICK N : N = DOMAIN s.node
  OBVIOUS
<1>2. /\ Base(N, s, NULL, NULL, x) /\ s \in Tree(N) /\ x \in N /\ Colors(s)[x] = "RED"
      /\ s.root # x => Colors(s)[s.root] = "BLACK"
      /\ NULL \notin N
  BY <1>1, InsertAt
<1>3. PICK U, H : Sound(N, s, NULL, x, NULL, U, H)
  BY <1>1, InsertAt
<1>4. y \in N /\ g \in N /\ Colors(s)[y] = "RED"
  BY <1>1, RedHasParent DEF Ancestors
<1>5. x = B[y] /\ y = A[g] /\ Parents(s)[x] = y /\ Parents(s)[y] = g
  BY DEF Ancestors
<1>6. q.op = "insert" /\ q.key \in Keys /\ ContentIn(s)[q.key] = q.value
  BY InsertAt
<1>7. Col(Colors(s), Sibling(s, y)) = "BLACK"
  BY <1>5 DEF InsertInv
<1>8. /\ \E U2, H2 : Sound(N, s2, NULL, y, NULL, U2, H2)
      /\ s2 \in Tree(N) /\ SameContent(N, s, s2) /\ Colors(s2) = Colors(s)
      /\ Parents(s2)[y] = x /\ Parents(s2)[x] = g
      /\ Colors(s2)[s2.root] = "BLACK"
      /\ \E A2, B2 : Faced(s2, A2, B2, E) /\ A2[x] = y /\ A2[g] = x /\ B2[g] = B[g]
  BY <1>2, <1>3, <1>4, <1>5, CaseInsert4
<1>9. PICK U2, H2 : Sound(N, s2, NULL, y, NULL, U2, H2)
  BY <1>8
<1>10. PICK A2, B2 : Faced(s2, A2, B2, E) /\ A2[x] = y /\ A2[g] = x /\ B2[g] = B[g]
  BY <1>8
<1>11. ContentIn(s2) = ContentIn(s)
  BY <1>2, <1>3, <1>8, <1>9, KeepContent
<1>12. Base(N, s2, NULL, NULL, y)
  BY <1>2, <1>8, KeepBase
<1>13. DOMAIN s2.node = N
  BY <1>8, TreeFields
<1>14. Col(Colors(s2), Sibling(s2, x)) = "BLACK"
  <2>1. Sibling(s, y) = B[g]
    BY <1>3, <1>4, <1>5, FaceRead
  <2>2. Sibling(s2, x) = B2[g]
    BY <1>2, <1>4, <1>9, <1>10, FaceRead
  <2> QED
    BY <1>7, <1>8, <1>10, <2>1, <2>2
<1>15. \/ A2 = Lefts(s2) /\ E = Less
       \/ A2 = Rights(s2) /\ E = Greater
  BY <1>10 DEF Faced
<1>16. \/ y = Lefts(s2)[x] /\ x = Lefts(s2)[g]
       \/ y = Rights(s2)[x] /\ x = Rights(s2)[g]
  BY <1>10, <1>15
<1>17. InsertInv("insert_case5", s2, y, q)
  <2>1. Parents(s2)[y] # NULL /\ Parents(s2)[Parents(s2)[y]] # NULL
    BY <1>2, <1>4, <1>8
  <2>2. Colors(s2)[y] = "RED" /\ Colors(s2)[Parents(s2)[y]] = "RED"
    BY <1>2, <1>4, <1>8
  <2>3. ContentIn(s2)[q.key] = q.value
    BY <1>6, <1>11
  <2> QED
    BY <1>4, <1>6, <1>8, <1>9, <1>12, <1>13, <1>14, <1>16, <2>1, <2>2, <2>3, <1>1 DEF InsertInv
<1>18. E = Less => s2.node[x].left = y
  BY <1>2, <1>8, <1>10, <1>15, Opposite, TreeFields
<1>19. E = Greater => s2.node[x].right = y
  BY <1>2, <1>8, <1>10, <1>15, Opposite, TreeFields
<1> QED
  BY <1>4, <1>1, <1>11, <1>13, <1>17, <1>18, <1>19

(* insert_case4, where x, its parent and its grandparent are in a line.     *)
LEMMA Insert4Down ==
  ASSUME NEW s, NEW x, NEW q, InsertInv("insert_case4", s, x, q),
         NEW y, y = Parents(s)[x], NEW g, g = Parents(s)[y],
         ~(x = Rights(s)[y] /\ y = Lefts(s)[g]), ~(x = Lefts(s)[y] /\ y = Rights(s)[g])
  PROVE  InsertInv("insert_case5", s, x, q)
<1>1. /\ s \in Tree(DOMAIN s.node) /\ x \in DOMAIN s.node /\ NULL \notin DOMAIN s.node
  BY InsertAt
<1>2. PICK U, H : Sound(DOMAIN s.node, s, NULL, x, NULL, U, H)
  BY InsertAt
<1>3. y \in DOMAIN s.node /\ g \in DOMAIN s.node
  BY RedHasParent
<1>4. x \in {Lefts(s)[y], Rights(s)[y]} /\ y \in {Lefts(s)[g], Rights(s)[g]}
  <2>1. Shape(DOMAIN s.node, Lefts(s), Rights(s), Parents(s), s.root, U)
    BY <1>2 DEF Sound
  <2> QED
    BY <1>1, <1>3, <2>1 DEF Shape, LinkedAt
<1>5. \/ x = Lefts(s)[y] /\ y = Lefts(s)[g]
      \/ x = Rights(s)[y] /\ y = Rights(s)[g]
  BY <1>4
<1> QED
  BY <1>5 DEF InsertInv

(* insert_case5, the last step of an insertion. *)
LEMMA Insert5Turn ==
  ASSUME NEW s, NEW x, NEW q, InsertInv("insert_case5", s, x, q),
         NEW y, NEW g, NEW A, NEW B, NEW E, Faced(s, A, B, E), Ancestors(s, B, B, x, y, g),
         NEW s2, Turned(SetColor(SetColor(s, y, "BLACK"), g, "RED"), A, B, E, g, s2)
  PROVE  /\ Returning(s2, q)
         /\ ContentIn(s2) = ContentIn(s) /\ DOMAIN s2.node = DOMAIN s.node
<1>1. PICK N : N = DOMAIN s.node
  OBVIOUS
<1>2. /\ Base(N, s, NULL, NULL, x) /\ s \in Tree(N) /\ x \in N /\ Colors(s)[x] = "RED"
      /\ s.root # x => Colors(s)[s.root] = "BLACK"
      /\ NULL \notin N
  BY <1>1, InsertAt
<1>3. PICK U, H : Sound(N, s, NULL, x, NULL, U, H)
  BY <1>1, InsertAt
<1>4. y \in N /\ g \in N /\ Colors(s)[y] = "RED"
  BY <1>1, RedHasParent DEF Ancestors
<1>5. x = B[y] /\ y = B[g] /\ Parents(s)[x] = y /\ Parents(s)[y] = g
  BY DEF Ancestors
<1>6. Col(Colors(s), Sibling(s, y)) = "BLACK"
  BY <1>5 DEF InsertInv
<1>7. PICK E2 : Faced(s, B, A, E2)
  BY DEF Faced
<1>8. Sibling(s, y) = A[g]
  BY <1>3, <1>4, <1>7, <1>5, FaceRead
<1>9. /\ \E U2, H2 : Sound(N, s2, NULL, NULL, NULL, U2, H2)
      /\ s2 \in Tree(N) /\ SameContent(N, s, s2)
      /\ s2.root # NULL => Colors(s2)[s2.root] = "BLACK"
  BY <1>2, <1>3, <1>4, <1>6, <1>8, <1>5, CaseInsert5, SMTT(30)
<1>10. DOMAIN s2.node = N
  BY <1>9, TreeFields
<1> QED
  BY <1>1, <1>9, <1>10, InsertReturns

(* What is known of the deletion, whatever the case. *)
DeleteKnown(N, s, f, q) ==
  /\ Request(N, s, f, q) /\ s \in Tree(N) /\ IsFiniteSet(N) /\ NULL \notin N
  /\ Base(N, s, q.key, f.victim, f.victim)
  /\ f.n \in N /\ f.victim \in N /\ OnlyChild(s, f)
  /\ s.root \in N /\ (s.root # f.victim => Colors(s)[s.root] = "BLACK")
  /\ f.child \in N \cup {NULL} /\ Parents(s)[f.n] \in N \cup {NULL}

(* The facts of DeleteInv, with their witnesses. *)
LEMMA DeleteAt ==
  ASSUME NEW p, NEW s, NEW f, NEW q, DeleteInv(p, s, f, q), NEW N, N = DOMAIN s.node
  PROVE  /\ DeleteKnown(N, s, f, q)
         /\ \E U, H : Sound(N, s, f.victim, f.victim, f.n, U, H) /\ Below(s, f, f.n, U)
<1>1. /\ Request(N, s, f, q) /\ f.n \in N
      /\ \E U, H : Sound(N, s, f.victim, f.victim, f.n, U, H) /\ Below(s, f, f.n, U)
  BY DEF DeleteInv
<1>2. PICK U, H : Sound(N, s, f.victim, f.victim, f.n, U, H) /\ Below(s, f, f.n, U)
  BY <1>1
<1>3. /\ Base(N, s, q.key, f.victim, f.victim) /\ f.victim \in N /\ OnlyChild(s, f)
  BY <1>1 DEF Request
<1>4. s \in Tree(N) /\ IsFiniteSet(N)
      /\ (s.root # NULL /\ s.root # f.victim => Colors(s)[s.root] = "BLACK")
  BY <1>3 DEF Base
<1>5. Shape(N, Lefts(s), Rights(s), Parents(s), s.root, U)
  BY <1>2 DEF Sound
<1>6. s.root \in N \cup {NULL} /\ NULL \notin N /\ s.root # NULL
  BY <1>1, <1>5 DEF Shape, Typed, Sub
<1>7. /\ Lefts(s)[f.victim] \in N \cup {NULL} /\ Rights(s)[f.victim] \in N \cup {NULL}
      /\ Parents(s)[f.n] \in N \cup {NULL}
  BY <1>1, <1>3, <1>5 DEF Shape, Typed
<1>8. f.child \in N \cup {NULL}
  BY <1>3, <1>7 DEF OnlyChild
<1> QED
  BY <1>1, <1>3, <1>4, <1>6, <1>7, <1>8 DEF DeleteKnown

(* a and y are parent and sibling of f.n, which is on side A.               *)
Facing(N, s, f, U, H, A, B, E, a, y) ==
  /\ Lacking(N, s, f.victim, f.n, U, H, A, B, E, a, y)
  /\ Apart(N, s, f.victim, f.n, U, A, B, a, y)
  /\ Below(s, f, f.n, U)
  /\ a = Parents(s)[f.n] /\ y = Sibling(s, f.n) /\ A[y] = Near(s, f.n) /\ B[y] = Far(s, f.n)
  /\ \/ f.n = Lefts(s)[a] /\ A = Lefts(s) /\ B = Rights(s) /\ E = Less
     \/ /\ f.n # Lefts(s)[a] /\ f.n = Rights(s)[a]
        /\ A = Rights(s) /\ B = Lefts(s) /\ E = Greater

(* The node, its sibling and its parent, seen from the side of the node. *)
LEMMA DeleteFacing ==
  ASSUME NEW p, p # "delete_case1", NEW s, NEW f, NEW q, DeleteInv(p, s, f, q),
         NEW N, N = DOMAIN s.node
  PROVE  \E U, H, A, B, E, a, y : Facing(N, s, f, U, H, A, B, E, a, y)
<1>1. PICK U, H : Sound(N, s, f.victim, f.victim, f.n, U, H) /\ Below(s, f, f.n, U)
  BY DeleteAt
<1>2. DeleteKnown(N, s, f, q)
  BY DeleteAt
<1>3. f.n \in N /\ IsFiniteSet(N)
  BY <1>2 DEF DeleteKnown
<1>4. Parents(s)[f.n] # NULL
  BY DEF DeleteInv
<1>5. PICK a : a = Parents(s)[f.n]
  OBVIOUS
<1>6. /\ a \in N
      /\ \E A, B, E :
           /\ Faced(s, A, B, E) /\ A[a] = f.n
           /\ \/ f.n = Lefts(s)[a] /\ A = Lefts(s) /\ B = Rights(s) /\ E = Less
              \/ /\ f.n # Lefts(s)[a] /\ f.n = Rights(s)[a]
                 /\ A = Rights(s) /\ B = Lefts(s) /\ E = Greater
  BY <1>1, <1>3, <1>4, <1>5, FaceOf
<1>7. PICK A, B, E :
           /\ Faced(s, A, B, E) /\ A[a] = f.n
           /\ \/ f.n = Lefts(s)[a] /\ A = Lefts(s) /\ B = Rights(s) /\ E = Less
              \/ /\ f.n # Lefts(s)[a] /\ f.n = Rights(s)[a]
                 /\ A = Rights(s) /\ B = Lefts(s) /\ E = Greater
  BY <1>6
<1>8. PICK y : y = B[a]
  OBVIOUS
<1>9. /\ Sibling(s, f.n) = y /\ Near(s, f.n) = A[y] /\ Far(s, f.n) = B[y]
  BY <1>1, <1>3, <1>6, <1>7, <1>8, FaceRead
<1>10. Lacking(N, s, f.victim, f.n, U, H, A, B, E, a, y)
  BY <1>1, <1>3, <1>6, <1>7, <1>8 DEF Lacking, Below
<1>11. Apart(N, s, f.victim, f.n, U, A, B, a, y)
  BY <1>3, <1>10, SiblingExists
<1>12. Facing(N, s, f, U, H, A, B, E, a, y)
  BY <1>1, <1>5, <1>7, <1>9, <1>10, <1>11 DEF Facing
<1> QED
  BY <1>12

(* s2 is s, with the subtree of f.n as it was. *)
Rebuilt(N, s, f, U, s2) ==
  /\ s2 \in Tree(N) /\ SameContent(N, s, s2) /\ KeptIn(U[f.n], s, s2)
  /\ s2.root # f.victim => Colors(s2)[s2.root] = "BLACK"

(* What a case leaves as it was. *)
Undisturbed(N, s, s2, f, q) ==
  /\ Request(N, s2, f, q) /\ ContentIn(s2) = ContentIn(s) /\ DOMAIN s2.node = N
  /\ Parents(s2)[f.victim] = Parents(s)[f.victim]
  /\ f.n # f.victim => ChildFits(s2, f) /\ Colors(s2)[f.n] = "BLACK"

(* What a step of the deletion that rebuilds the tree around the victim     *)
(* leaves of DeleteInv.                                                     *)
LEMMA DeleteStays ==
  ASSUME NEW p, NEW s, NEW f, NEW q, DeleteInv(p, s, f, q), NEW N, N = DOMAIN s.node,
         NEW U, NEW H, Sound(N, s, f.victim, f.victim, f.n, U, H), Below(s, f, f.n, U),
         NEW s2, Rebuilt(N, s, f, U, s2),
         NEW d2, NEW U2, NEW H2, Sound(N, s2, f.victim, f.victim, d2, U2, H2)
  PROVE  /\ Undisturbed(N, s, s2, f, q)
         /\ U2[f.n] = U[f.n] => Below(s2, f, f.n, U2)
<1> DEFINE v == f.victim
           W == U[f.n]
<1>1. DeleteKnown(N, s, f, q)
  BY DeleteAt
<1>2. /\ Request(N, s, f, q) /\ s \in Tree(N) /\ NULL \notin N
      /\ Base(N, s, q.key, v, v) /\ f.n \in N /\ v \in N /\ OnlyChild(s, f)
      /\ f.child \in N \cup {NULL}
  BY <1>1 DEF DeleteKnown
<1>3. /\ s2 \in Tree(N) /\ SameContent(N, s, s2) /\ KeptIn(W, s, s2)
      /\ s2.root # v => Colors(s2)[s2.root] = "BLACK"
  BY DEF Rebuilt
<1>4. Base(N, s2, q.key, v, v)
  BY <1>2, <1>3, KeepBase
<1>5. ContentIn(s2) = ContentIn(s)
  BY <1>2, <1>3, KeepContent
<1>6. DOMAIN s2.node = N
  BY <1>3, TreeFields
<1>7. W \subseteq N /\ f.n \in W
  <2>1. Shape(N, Lefts(s), Rights(s), Parents(s), s.root, U)
    BY DEF Sound
  <2> QED
    BY <1>2, <2>1, Kin DEF Shape
<1>8. /\ v \in W /\ (f.child # NULL => f.child \in W)
      /\ f.n # v => Parents(s)[v] \in W /\ Colors(s)[f.n] = "BLACK" /\ ChildFits(s, f)
  BY DEF Below
<1>9. \A z \in W : /\ Lefts(s2)[z] = Lefts(s)[z] /\ Rights(s2)[z] = Rights(s)[z]
                   /\ Parents(s2)[z] = Parents(s)[z] /\ Colors(s2)[z] = Colors(s)[z]
  <2>1. \A z \in N : /\ Lefts(s)[z] = s.node[z].left /\ Rights(s)[z] = s.node[z].right
                     /\ Parents(s)[z] = s.node[z].parent /\ Colors(s)[z] = s.node[z].color
    BY <1>2, TreeFields
  <2>2. \A z \in N : /\ Lefts(s2)[z] = s2.node[z].left /\ Rights(s2)[z] = s2.node[z].right
                     /\ Parents(s2)[z] = s2.node[z].parent /\ Colors(s2)[z] = s2.node[z].color
    BY <1>3, TreeFields
  <2> QED
    BY <1>3, <1>7, <2>1, <2>2 DEF KeptIn
<1>10. OnlyChild(s2, f)
  BY <1>2, <1>8, <1>9 DEF OnlyChild
<1>11. Request(N, s2, f, q)
  BY <1>2, <1>4, <1>10 DEF Request
<1>12. Col(Colors(s2), f.child) = Col(Colors(s), f.child)
  BY <1>8, <1>9 DEF Col
<1>13. f.n # v => ChildFits(s2, f) /\ Colors(s2)[f.n] = "BLACK"
  BY <1>7, <1>8, <1>9, <1>12 DEF ChildFits
<1>14. Undisturbed(N, s, s2, f, q)
  BY <1>5, <1>6, <1>8, <1>9, <1>11, <1>13 DEF Undisturbed
<1>15. U2[f.n] = U[f.n] => Below(s2, f, f.n, U2)
  BY <1>8, <1>9, <1>13 DEF Below
<1> QED
  BY <1>14, <1>15

(* delete_case1 in a tree s. *)
LEMMA Delete1Up ==
  ASSUME NEW s, NEW f, NEW q, DeleteInv("delete_case1", s, f, q), Parents(s)[f.n] # NULL
  PROVE  DeleteInv("delete_case2", s, f, q)
BY DEF DeleteInv

(* The whole tree lacks a black node: nothing is to be done. *)
LEMMA Delete1End ==
  ASSUME NEW s, NEW f, NEW q, DeleteInv("delete_case1", s, f, q), Parents(s)[f.n] = NULL
  PROVE  FinishInv(s, f, q)
<1>1. PICK N : N = DOMAIN s.node
  OBVIOUS
<1>2. PICK U, H : Sound(N, s, f.victim, f.victim, f.n, U, H) /\ Below(s, f, f.n, U)
  BY <1>1, DeleteAt
<1>3. DeleteKnown(N, s, f, q)
  BY <1>1, DeleteAt
<1>4. Request(N, s, f, q) /\ f.n \in N
  BY <1>3 DEF DeleteKnown
<1>5. /\ Shape(N, Lefts(s), Rights(s), Parents(s), s.root, U)
      /\ HeightsTyped(N, H)
      /\ Balanced(N, Lefts(s), Rights(s), Colors(s), f.victim, f.victim, f.n, H)
  BY <1>2 DEF Sound
<1>6. f.n = s.root
  BY <1>4, <1>5 DEF Shape, LinkedAt
<1>7. Balanced(N, Lefts(s), Rights(s), Colors(s), f.victim, f.victim, NULL, H)
  <2>1. /\ s.root \in N
        /\ Balanced(N, Lefts(s), Rights(s), Colors(s), f.victim, f.victim, s.root, H)
    BY <1>4, <1>5, <1>6
  <2> QED
    BY <1>5, <2>1, RootLacks
<1>8. Sound(N, s, f.victim, f.victim, NULL, U, H)
  BY <1>2, <1>7 DEF Sound
<1>9. Parents(s)[f.victim] # NULL => ChildFits(s, f)
  BY <1>2 DEF Below
<1> QED
  BY <1>1, <1>4, <1>8, <1>9 DEF FinishInv

(* s2 is a next tree of the deletion, with case p to run next. *)
DeleteNext(p, s, s2, f, q) ==
  /\ DeleteInv(p, s2, f, q)
  /\ ContentIn(s2) = ContentIn(s) /\ DOMAIN s2.node = DOMAIN s.node

DeleteEnds(s, s2, f, q) ==
  /\ FinishInv(s2, f, q)
  /\ ContentIn(s2) = ContentIn(s) /\ DOMAIN s2.node = DOMAIN s.node

(* delete_case2 in a tree s. *)
LEMMA Delete2Black ==
  ASSUME NEW s, NEW f, NEW q, DeleteInv("delete_case2", s, f, q),
         Col(Colors(s), Sibling(s, f.n)) = "BLACK"
  PROVE  DeleteInv("delete_case3", s, f, q)
BY DEF DeleteInv

LEMMA Delete2Red ==
  ASSUME NEW s, NEW f, NEW q, DeleteInv("delete_case2", s, f, q), NEW N, N = DOMAIN s.node,
         NEW U, NEW H, NEW A, NEW B, NEW E, NEW a, NEW y, Facing(N, s, f, U, H, A, B, E, a, y),
         Col(Colors(s), y) = "RED",
         NEW s2, Turned(SetColor(SetColor(s, a, "RED"), y, "BLACK"), A, B, E, a, s2)
  PROVE  DeleteNext("delete_case3", s, s2, f, q)
<1> DEFINE v == f.victim
<1>1. /\ Lacking(N, s, v, f.n, U, H, A, B, E, a, y) /\ Apart(N, s, v, f.n, U, A, B, a, y)
      /\ Below(s, f, f.n, U)
  BY DEF Facing
<1>2. /\ IsFiniteSet(N) /\ NULL \notin N /\ f.n \in N
      /\ s.root # v => Colors(s)[s.root] = "BLACK"
  BY DeleteAt DEF DeleteKnown
<1>3. Colors(s)[y] = "RED" /\ (f.n = v \/ Colors(s)[f.n] = "BLACK")
  BY <1>1 DEF Col, Below
<1>4. /\ \E U2, H2 : Sound(N, s2, v, v, f.n, U2, H2) /\ U2[f.n] = U[f.n]
      /\ s2 \in Tree(N) /\ SameContent(N, s, s2) /\ KeptIn(U[f.n], s, s2)
      /\ s2.root # v => Colors(s2)[s2.root] = "BLACK"
      /\ \E A2, B2 : /\ Faced(s2, A2, B2, E) /\ A2[a] = f.n /\ Parents(s2)[f.n] = a
                     /\ Col(Colors(s2), B2[a]) = "BLACK"
  BY <1>1, <1>2, <1>3, CaseDelete2
<1>5. PICK U2, H2 : Sound(N, s2, v, v, f.n, U2, H2) /\ U2[f.n] = U[f.n]
  BY <1>4
<1>6. PICK A2, B2 : /\ Faced(s2, A2, B2, E) /\ A2[a] = f.n /\ Parents(s2)[f.n] = a
                    /\ Col(Colors(s2), B2[a]) = "BLACK"
  BY <1>4
<1>7. Rebuilt(N, s, f, U, s2)
  BY <1>4 DEF Rebuilt
<1>8. Sound(N, s, v, v, f.n, U, H) /\ a \in N
  BY <1>1 DEF Lacking
<1>9. Undisturbed(N, s, s2, f, q) /\ Below(s2, f, f.n, U2)
  BY <1>1, <1>5, <1>7, <1>8, DeleteStays
<1>10. Sibling(s2, f.n) = B2[a]
  BY <1>5, <1>6, <1>2, <1>8, FaceRead
<1>11. /\ Request(N, s2, f, q) /\ ContentIn(s2) = ContentIn(s) /\ DOMAIN s2.node = N
  BY <1>9 DEF Undisturbed
<1>12. Parents(s2)[f.n] # NULL /\ Col(Colors(s2), Sibling(s2, f.n)) = "BLACK"
  BY <1>2, <1>6, <1>8, <1>10
<1>13. DeleteInv("delete_case3", s2, f, q)
  BY <1>2, <1>5, <1>9, <1>11, <1>12 DEF DeleteInv
<1> QED
  BY <1>11, <1>13 DEF DeleteNext

(* The sibling y becomes red, the parent a black. *)
Reddening(N, s, a, y, s2) ==
  /\ Recoloured(N, s, s2)
  /\ \A z \in N : Colors(s2)[z] =
       IF z = y THEN "RED" ELSE IF z = a THEN "BLACK" ELSE Colors(s)[z]

Reddened(N, s, s2, f, q, U, a, d2) ==
  /\ \E H2 : Sound(N, s2, f.victim, f.victim, d2, U, H2)
  /\ Undisturbed(N, s, s2, f, q) /\ Below(s2, f, f.n, U)
  /\ Colors(s2)[a] = "BLACK" /\ Parents(s2)[f.n] = a /\ Parents(s2) = Parents(s)

(* delete_case3 and delete_case4 in a tree s: the sibling turns red. *)
LEMMA SiblingReddened ==
  ASSUME NEW p, NEW s, NEW f, NEW q, DeleteInv(p, s, f, q), NEW N, N = DOMAIN s.node,
         NEW U, NEW H, NEW A, NEW B, NEW E, NEW a, NEW y, Facing(N, s, f, U, H, A, B, E, a, y),
         BlackFamily(s, f.n),
         NEW s2, Reddening(N, s, a, y, s2),
         NEW d2, d2 = IF Colors(s)[a] = "BLACK" THEN a ELSE NULL
  PROVE  Reddened(N, s, s2, f, q, U, a, d2)
<1> DEFINE v == f.victim
<1>1. /\ Lacking(N, s, v, f.n, U, H, A, B, E, a, y) /\ Apart(N, s, v, f.n, U, A, B, a, y)
      /\ Below(s, f, f.n, U) /\ a = Parents(s)[f.n]
  BY DEF Facing
<1>2. /\ IsFiniteSet(N) /\ NULL \notin N /\ f.n \in N /\ s \in Tree(N)
      /\ s.root # v => Colors(s)[s.root] = "BLACK"
  BY DeleteAt DEF DeleteKnown
<1>3. /\ Colors(s)[y] = "BLACK" /\ Col(Colors(s), A[y]) = "BLACK" /\ Col(Colors(s), B[y]) = "BLACK"
  <2>1. y # NULL
    BY <1>1 DEF Apart
  <2>2. /\ Col(Colors(s), y) = "BLACK"
        /\ Col(Colors(s), A[y]) = "BLACK" /\ Col(Colors(s), B[y]) = "BLACK"
    BY DEF Facing, BlackFamily
  <2> QED
    BY <2>1, <2>2 DEF Col
<1>4. /\ Recoloured(N, s, s2)
      /\ \A z \in N : Colors(s2)[z] =
           IF z = y THEN "RED" ELSE IF z = a THEN "BLACK" ELSE Colors(s)[z]
  BY DEF Reddening
<1>5. /\ \E H2 : Sound(N, s2, v, v, d2, U, H2)
      /\ s2.root # v => Colors(s2)[s2.root] = "BLACK"
  BY <1>1, <1>2, <1>3, <1>4, CaseDelete34
<1>6. PICK H2 : Sound(N, s2, v, v, d2, U, H2)
  BY <1>5
<1>7. /\ s2 \in Tree(N) /\ SameContent(N, s, s2)
      /\ Lefts(s2) = Lefts(s) /\ Rights(s2) = Rights(s) /\ Parents(s2) = Parents(s)
  BY <1>4 DEF Recoloured, SameLinks
<1>8. /\ Sound(N, s, v, v, f.n, U, H) /\ a \in N /\ U[f.n] \subseteq N
      /\ a \notin U[f.n] /\ y \notin U[f.n] /\ a # y
  BY <1>1 DEF Lacking, Apart
<1>9. KeptIn(U[f.n], s, s2)
  <2>1. PICK A1, B1, E1 : Faced(s, A1, B1, E1) /\ Faced(s2, A1, B1, E1)
    BY <1>7 DEF Faced
  <2>2. \A z \in U[f.n] : Colors(s2)[z] = Colors(s)[z] /\ Parents(s2)[z] = Parents(s)[z]
    BY <1>7, <1>8, <1>4
  <2>3. U[f.n] \in SUBSET N
    BY <1>8
  <2> QED
    BY <1>2, <1>7, <2>1, <2>2, <2>3, KeptFaces
<1>10. Rebuilt(N, s, f, U, s2)
  BY <1>5, <1>7, <1>9 DEF Rebuilt
<1>11. Undisturbed(N, s, s2, f, q) /\ Below(s2, f, f.n, U)
  BY <1>1, <1>6, <1>8, <1>10, DeleteStays
<1>12. Colors(s2)[a] = "BLACK"
  BY <1>8, <1>4
<1> QED
  BY <1>1, <1>5, <1>7, <1>11, <1>12 DEF Reddened

LEMMA Delete3Down ==
  ASSUME NEW s, NEW f, NEW q, DeleteInv("delete_case3", s, f, q),
         ~(Colors(s)[Parents(s)[f.n]] = "BLACK" /\ BlackFamily(s, f.n))
  PROVE  DeleteInv("delete_case4", s, f, q)
<1>1. PICK N : N = DOMAIN s.node
  OBVIOUS
<1>2. s \in Tree(N) /\ Parents(s)[f.n] \in N \cup {NULL}
  BY <1>1, DeleteAt DEF DeleteKnown
<1>3. Parents(s)[f.n] # NULL
  BY DEF DeleteInv
<1>4. Colors(s) \in [N -> Color]
  BY <1>2, TreeFields
<1>5. Colors(s)[Parents(s)[f.n]] = "RED" \/ ~BlackFamily(s, f.n)
  BY <1>2, <1>3, <1>4 DEF Color
<1> QED
  BY <1>5 DEF DeleteInv

(* The parent lacks a black node in place of f.n. *)
LEMMA Delete3Up ==
  ASSUME NEW s, NEW f, NEW q, DeleteInv("delete_case3", s, f, q),
         Colors(s)[Parents(s)[f.n]] = "BLACK", BlackFamily(s, f.n),
         NEW s2, s2 = SetColor(s, Sibling(s, f.n), "RED"),
         NEW f2, f2.n = Parents(s)[f.n], f2.victim = f.victim, f2.child = f.child
  PROVE  /\ DeleteNext("delete_case1", s, s2, f2, q) /\ f2.n \in DOMAIN s.node
<1> DEFINE v == f.victim
<1>1. PICK N : N = DOMAIN s.node
  OBVIOUS
<1>2. PICK U, H, A, B, E, a, y : Facing(N, s, f, U, H, A, B, E, a, y)
  BY <1>1, DeleteFacing
<1>3. /\ Apart(N, s, v, f.n, U, A, B, a, y) /\ Lacking(N, s, v, f.n, U, H, A, B, E, a, y)
      /\ a = Parents(s)[f.n] /\ y = Sibling(s, f.n)
  BY <1>2 DEF Facing
<1>4. s \in Tree(N) /\ f.n \in N /\ NULL \notin N
  BY <1>1, DeleteAt DEF DeleteKnown
<1>5. y \in N /\ a \in N /\ a # y /\ a \notin U[f.n] /\ v \in U[f.n]
  BY <1>3 DEF Apart, Lacking
<1>6. ColorSet(N, s, y, "RED", s2)
  BY <1>3, <1>4, <1>5, SetColorFields DEF Color
<1>7. Recoloured(N, s, s2)
  BY <1>6 DEF Recoloured, ColorSet
<1>8. \A z \in N : Colors(s2)[z] =
        IF z = y THEN "RED" ELSE IF z = a THEN "BLACK" ELSE Colors(s)[z]
  <2>1. Colors(s) \in [N -> Color]
    BY <1>4, TreeFields
  <2> QED
    BY <1>3, <1>5, <1>6, <2>1 DEF ColorSet
<1>9. a = IF Colors(s)[a] = "BLACK" THEN a ELSE NULL
  BY <1>3
<1>10. Reddening(N, s, a, y, s2)
  BY <1>7, <1>8 DEF Reddening
<1>11. /\ \E H2 : Sound(N, s2, v, v, a, U, H2)
       /\ Undisturbed(N, s, s2, f, q) /\ Below(s2, f, f.n, U)
       /\ Colors(s2)[a] = "BLACK" /\ Parents(s2)[f.n] = a /\ Parents(s2) = Parents(s)
  <2>1. Reddened(N, s, s2, f, q, U, a, a)
    BY <1>1, <1>2, <1>10, <1>9, SiblingReddened
  <2> QED
    BY <2>1 DEF Reddened
<1>12. Undisturbed(N, s, s2, f, q) /\ Below(s2, f, f.n, U)
  BY <1>11
<1>13. Request(N, s2, f, q) /\ ContentIn(s2) = ContentIn(s) /\ DOMAIN s2.node = N
  BY <1>12 DEF Undisturbed
<1>14. Request(N, s2, f2, q)
  BY <1>13 DEF Request, OnlyChild
<1>15. U[f.n] \subseteq U[a] /\ a \in U[a]
  <2>1. Shape(N, A, B, Parents(s), s.root, U) /\ f.n = A[a]
    BY <1>3, View DEF Lacking
  <2>2. SubtreeAt(A, B, U, a)
    BY <1>5, <2>1 DEF Shape
  <2> QED
    BY <1>4, <2>1, <2>2 DEF SubtreeAt, Sub
<1>16. ChildFits(s2, f)
  BY <1>11, <1>12 DEF Undisturbed, ChildFits
<1>17. Parents(s2)[v] \in U[a]
  BY <1>11, <1>12, <1>15 DEF Below
<1>18. Below(s2, f2, f2.n, U)
  <2>1. f2.victim \in U[a] /\ (f2.child # NULL => f2.child \in U[a])
    BY <1>12, <1>15 DEF Below
  <2>2. ChildFits(s2, f2)
    BY <1>16 DEF ChildFits
  <2>3. f2.n = a
    BY <1>3
  <2> QED
    BY <1>11, <1>17, <2>1, <2>2, <2>3 DEF Below
<1>19. DeleteInv("delete_case1", s2, f2, q)
  BY <1>3, <1>5, <1>11, <1>13, <1>14, <1>18 DEF DeleteInv
<1> QED
  BY <1>1, <1>3, <1>5, <1>13, <1>19 DEF DeleteNext

(* delete_case4 in a tree s. *)
LEMMA Delete4Down ==
  ASSUME NEW s, NEW f, NEW q, DeleteInv("delete_case4", s, f, q),
         ~(Colors(s)[Parents(s)[f.n]] = "RED" /\ BlackFamily(s, f.n))
  PROVE  DeleteInv("delete_case5", s, f, q)
<1>1. ~BlackFamily(s, f.n)
  BY DEF DeleteInv
<1> QED
  BY <1>1 DEF DeleteInv

LEMMA Delete4End ==
  ASSUME NEW s, NEW f, NEW q, DeleteInv("delete_case4", s, f, q),
         Colors(s)[Parents(s)[f.n]] = "RED", BlackFamily(s, f.n),
         NEW s2, s2 = SetColor(SetColor(s, Sibling(s, f.n), "RED"), Parents(s)[f.n], "BLACK")
  PROVE  DeleteEnds(s, s2, f, q)
<1> DEFINE v == f.victim
<1>1. PICK N : N = DOMAIN s.node
  OBVIOUS
<1>2. PICK U, H, A, B, E, a, y : Facing(N, s, f, U, H, A, B, E, a, y)
  BY <1>1, DeleteFacing
<1>3. /\ Apart(N, s, v, f.n, U, A, B, a, y) /\ Lacking(N, s, v, f.n, U, H, A, B, E, a, y)
      /\ a = Parents(s)[f.n] /\ y = Sibling(s, f.n)
  BY <1>2 DEF Facing
<1>4. s \in Tree(N) /\ f.n \in N /\ NULL \notin N
  BY <1>1, DeleteAt DEF DeleteKnown
<1>5. y \in N /\ a \in N /\ a # y
  BY <1>3 DEF Apart, Lacking
<1>6. Reddening(N, s, a, y, s2)
  <2>1. "RED" \in Color /\ "BLACK" \in Color
    BY DEF Color
  <2>2. s2 = SetColor(SetColor(s, y, "RED"), a, "BLACK")
    BY <1>3
  <2>3. /\ Recoloured(N, s, s2)
        /\ \A z \in N : Colors(s2)[z] =
             IF z = a THEN "BLACK" ELSE IF z = y THEN "RED" ELSE Colors(s)[z]
    BY <1>4, <1>5, <2>1, <2>2, RecolouredTwice
  <2>4. \A z \in N : Colors(s2)[z] =
             IF z = y THEN "RED" ELSE IF z = a THEN "BLACK" ELSE Colors(s)[z]
    BY <1>5, <2>3
  <2> QED
    BY <2>3, <2>4 DEF Reddening
<1>7. NULL = IF Colors(s)[a] = "BLACK" THEN a ELSE NULL
  BY <1>3
<1>8. /\ \E H2 : Sound(N, s2, v, v, NULL, U, H2)
      /\ Undisturbed(N, s, s2, f, q)
      /\ Colors(s2)[a] = "BLACK" /\ Parents(s2)[f.n] = a
  <2>1. Reddened(N, s, s2, f, q, U, a, NULL)
    BY <1>1, <1>2, <1>6, <1>7, SiblingReddened
  <2> QED
    BY <2>1 DEF Reddened
<1>9. Request(N, s2, f, q) /\ ContentIn(s2) = ContentIn(s) /\ DOMAIN s2.node = N
  BY <1>8 DEF Undisturbed
<1>10. ChildFits(s2, f)
  BY <1>8 DEF Undisturbed, ChildFits
<1>11. FinishInv(s2, f, q)
  BY <1>8, <1>9, <1>10 DEF FinishInv
<1> QED
  BY <1>1, <1>9, <1>11 DEF DeleteEnds

(* delete_case5 in a tree s. *)
LEMMA Delete5Stay ==
  ASSUME NEW s, NEW f, NEW q, DeleteInv("delete_case5", s, f, q),
         ~(/\ Col(Colors(s), Sibling(s, f.n)) = "BLACK"
           /\ Col(Colors(s), Near(s, f.n)) = "RED" /\ Col(Colors(s), Far(s, f.n)) = "BLACK")
  PROVE  DeleteInv("delete_case6", s, f, q)
<1>1. PICK N : N = DOMAIN s.node
  OBVIOUS
<1>2. PICK U, H, A, B, E, a, y : Facing(N, s, f, U, H, A, B, E, a, y)
  BY <1>1, DeleteFacing
<1>3. Near(s, f.n) \in N \cup {NULL} /\ Far(s, f.n) \in N \cup {NULL}
  BY <1>2 DEF Facing, Apart
<1>4. s \in Tree(N)
  BY <1>1, DeleteAt DEF DeleteKnown
<1>5. Colors(s) \in [N -> Color]
  BY <1>4, TreeFields
<1>6. /\ Col(Colors(s), Near(s, f.n)) \in {"RED", "BLACK"}
      /\ Col(Colors(s), Far(s, f.n)) \in {"RED", "BLACK"}
  BY <1>3, <1>5 DEF Col, Color
<1>7. ~BlackFamily(s, f.n) /\ Col(Colors(s), Sibling(s, f.n)) = "BLACK"
  BY DEF DeleteInv
<1>8. Col(Colors(s), Far(s, f.n)) = "RED"
  BY <1>6, <1>7 DEF BlackFamily
<1> QED
  BY <1>7, <1>8 DEF DeleteInv

LEMMA Delete5Turn ==
  ASSUME NEW s, NEW f, NEW q, DeleteInv("delete_case5", s, f, q), NEW N, N = DOMAIN s.node,
         NEW U, NEW H, NEW A, NEW B, NEW E, NEW a, NEW y, Facing(N, s, f, U, H, A, B, E, a, y),
         NEW w, w = A[y], Col(Colors(s), w) = "RED", Col(Colors(s), B[y]) = "BLACK",
         NEW F, Faced(s, B, A, F),
         NEW s2, Turned(SetColor(SetColor(s, y, "RED"), w, "BLACK"), B, A, F, y, s2)
  PROVE  DeleteNext("delete_case6", s, s2, f, q)
<1> DEFINE v == f.victim
<1>1. /\ Lacking(N, s, v, f.n, U, H, A, B, E, a, y) /\ Apart(N, s, v, f.n, U, A, B, a, y)
      /\ Below(s, f, f.n, U) /\ y = Sibling(s, f.n)
  BY DEF Facing
<1>2. /\ IsFiniteSet(N) /\ NULL \notin N /\ f.n \in N
      /\ s.root # v => Colors(s)[s.root] = "BLACK"
  BY DeleteAt DEF DeleteKnown
<1>3. w \in N /\ y \in N /\ a \in N /\ Sound(N, s, v, v, f.n, U, H)
  BY <1>1 DEF Col, Apart, Lacking
<1>4. Colors(s)[w] = "RED" /\ Colors(s)[y] = "BLACK"
  <2>1. Col(Colors(s), y) = "BLACK"
    BY <1>1 DEF DeleteInv
  <2> QED
    BY <1>2, <1>3, <2>1 DEF Col
<1>5. /\ \E U2, H2 : Sound(N, s2, v, v, f.n, U2, H2) /\ U2[f.n] = U[f.n]
      /\ s2 \in Tree(N) /\ SameContent(N, s, s2) /\ KeptIn(U[f.n], s, s2)
      /\ s2.root # v => Colors(s2)[s2.root] = "BLACK"
      /\ \E A2, B2 : /\ Faced(s2, B2, A2, F) /\ A2[a] = f.n /\ Parents(s2)[f.n] = a
                     /\ B2[a] = w /\ Colors(s2)[w] = "BLACK"
                     /\ B2[w] = y /\ Colors(s2)[y] = "RED"
  BY <1>1, <1>2, <1>3, <1>4, CaseDelete5
<1>6. PICK U2, H2 : Sound(N, s2, v, v, f.n, U2, H2) /\ U2[f.n] = U[f.n]
  BY <1>5
<1>7. PICK A2, B2 : /\ Faced(s2, B2, A2, F) /\ A2[a] = f.n /\ Parents(s2)[f.n] = a
                    /\ B2[a] = w /\ Colors(s2)[w] = "BLACK"
                    /\ B2[w] = y /\ Colors(s2)[y] = "RED"
  BY <1>5
<1>8. Rebuilt(N, s, f, U, s2)
  BY <1>5 DEF Rebuilt
<1>9. Undisturbed(N, s, s2, f, q) /\ Below(s2, f, f.n, U2)
  BY <1>1, <1>3, <1>6, <1>8, DeleteStays
<1>10. PICK E2 : Faced(s2, A2, B2, E2)
  BY <1>7 DEF Faced
<1>11. Sibling(s2, f.n) = w /\ Far(s2, f.n) = y
  BY <1>2, <1>3, <1>6, <1>7, <1>10, FaceRead
<1>12. Request(N, s2, f, q) /\ ContentIn(s2) = ContentIn(s) /\ DOMAIN s2.node = N
  BY <1>9 DEF Undisturbed
<1>13. /\ Parents(s2)[f.n] # NULL
       /\ Col(Colors(s2), Sibling(s2, f.n)) = "BLACK" /\ Col(Colors(s2), Far(s2, f.n)) = "RED"
  BY <1>2, <1>3, <1>7, <1>11 DEF Col
<1>14. DeleteInv("delete_case6", s2, f, q)
  BY <1>2, <1>6, <1>9, <1>12, <1>13 DEF DeleteInv
<1> QED
  BY <1>12, <1>14 DEF DeleteNext

(* delete_case6 in a tree s: no black node lacks any more. *)
LEMMA Delete6Turn ==
  ASSUME NEW s, NEW f, NEW q, DeleteInv("delete_case6", s, f, q), NEW N, N = DOMAIN s.node,
         NEW U, NEW H, NEW A, NEW B, NEW E, NEW a, NEW y, Facing(N, s, f, U, H, A, B, E, a, y),
         NEW w, w = B[y], NEW s2, Turned(Raised(s, a, y, w), A, B, E, a, s2)
  PROVE  DeleteEnds(s, s2, f, q)
<1> DEFINE v == f.victim
<1>1. /\ Lacking(N, s, v, f.n, U, H, A, B, E, a, y) /\ Apart(N, s, v, f.n, U, A, B, a, y)
      /\ Below(s, f, f.n, U) /\ a = Parents(s)[f.n] /\ y = Sibling(s, f.n) /\ w = Far(s, f.n)
  BY DEF Facing
<1>2. /\ IsFiniteSet(N) /\ NULL \notin N /\ f.n \in N
      /\ s.root # v => Colors(s)[s.root] = "BLACK"
  BY DeleteAt DEF DeleteKnown
<1>3. Col(Colors(s), w) = "RED" /\ Col(Colors(s), y) = "BLACK"
  BY <1>1 DEF DeleteInv
<1>4. w \in N /\ y \in N /\ Sound(N, s, v, v, f.n, U, H)
  BY <1>1, <1>3 DEF Col, Apart, Lacking
<1>5. Colors(s)[w] = "RED" /\ Colors(s)[y] = "BLACK"
  BY <1>2, <1>3, <1>4 DEF Col
<1>6. /\ \E U2, H2 : Sound(N, s2, v, v, NULL, U2, H2)
      /\ s2 \in Tree(N) /\ SameContent(N, s, s2) /\ KeptIn(U[f.n], s, s2)
      /\ s2.root # v => Colors(s2)[s2.root] = "BLACK"
      /\ Colors(s2)[a] = "BLACK"
  BY <1>1, <1>2, <1>4, <1>5, CaseDelete6
<1>7. PICK U2, H2 : Sound(N, s2, v, v, NULL, U2, H2)
  BY <1>6
<1>8. Rebuilt(N, s, f, U, s2)
  BY <1>6 DEF Rebuilt
<1>9. Undisturbed(N, s, s2, f, q)
  BY <1>1, <1>4, <1>7, <1>8, DeleteStays
<1>10. /\ Request(N, s2, f, q) /\ ContentIn(s2) = ContentIn(s) /\ DOMAIN s2.node = N
       /\ Parents(s2)[v] = Parents(s)[v]
  BY <1>9 DEF Undisturbed
<1>11. ChildFits(s2, f)
  BY <1>1, <1>6, <1>9, <1>10 DEF Undisturbed, ChildFits
<1>12. FinishInv(s2, f, q)
  BY <1>7, <1>10, <1>11 DEF FinishInv
<1> QED
  BY <1>10, <1>12 DEF DeleteEnds
-----------------------------------------------------------------------------
(* The nodes L take the names g gives them: between calls a node is named   *)
(* by its key.                                                              *)
As(g, x) == IF x = NULL THEN NULL ELSE g[x]

Naming(L, M, g) ==
  /\ NULL \notin M /\ NULL \notin L /\ g \in [L -> M]
  /\ \A x, y \in L : g[x] = g[y] => x = y
  /\ \A k \in M : \E x \in L : g[x] = k

Renamed(L, M, g, A, B, P, r, A2, B2, P2, r2) ==
  /\ A2 \in [M -> M \cup {NULL}] /\ B2 \in [M -> M \cup {NULL}] /\ P2 \in [M -> M \cup {NULL}]
  /\ \A x \in L : /\ A2[g[x]] = As(g, A[x]) /\ B2[g[x]] = As(g, B[x])
                  /\ P2[g[x]] = As(g, P[x])
  /\ r2 = As(g, r)

RenamedSubtrees(L, M, g, U) ==
  [k \in M |-> {j \in M : \E x \in L, y \in L : k = g[x] /\ j = g[y] /\ y \in U[x]}]

(* A tree under other names has the same shape, order and heights. *)
LEMMA RenameSubtrees ==
  ASSUME NEW L, NEW M, NEW g, Naming(L, M, g), NEW U \in [L -> SUBSET L],
         NEW c \in L \cup {NULL}
  PROVE  /\ Sub(RenamedSubtrees(L, M, g, U), As(g, c)) \in SUBSET M
         /\ \A y \in L : g[y] \in Sub(RenamedSubtrees(L, M, g, U), As(g, c)) <=> y \in Sub(U, c)
<1> DEFINE U2 == RenamedSubtrees(L, M, g, U)
<1>1. /\ NULL \notin M /\ NULL \notin L /\ g \in [L -> M]
      /\ \A x, y \in L : g[x] = g[y] => x = y
  BY DEF Naming
<1>2. CASE c = NULL
  <2>1. Sub(U2, As(g, c)) = {} /\ Sub(U, c) = {}
    BY <1>2 DEF As, Sub
  <2> QED
    BY <2>1
<1>3. CASE c # NULL
  <2>1. c \in L /\ g[c] \in M /\ g[c] # NULL
    BY <1>1, <1>3
  <2>2. Sub(U2, As(g, c)) = U2[g[c]] /\ Sub(U, c) = U[c]
    BY <1>3, <2>1 DEF As, Sub
  <2>3. U2[g[c]] = {j \in M : \E x \in L, y \in L : g[c] = g[x] /\ j = g[y] /\ y \in U[x]}
    BY <2>1 DEF RenamedSubtrees
  <2> HIDE DEF U2
  <2>4. U2[g[c]] \subseteq M
    BY <2>3
  <2>5. ASSUME NEW y \in L PROVE g[y] \in U2[g[c]] <=> y \in U[c]
    BY <1>1, <2>1, <2>3
  <2> QED
    BY <2>2, <2>4, <2>5 DEF U2
<1> QED
  BY <1>2, <1>3

LEMMA RenameShape ==
  ASSUME NEW L, NEW M, NEW g, Naming(L, M, g),
         NEW A, NEW B, NEW P, NEW r, NEW U, Shape(L, A, B, P, r, U),
         NEW A2, NEW B2, NEW P2, NEW r2, Renamed(L, M, g, A, B, P, r, A2, B2, P2, r2)
  PROVE  Shape(M, A2, B2, P2, r2, RenamedSubtrees(L, M, g, U))
<1> DEFINE U2 == RenamedSubtrees(L, M, g, U)
<1>1. /\ NULL \notin M /\ NULL \notin L /\ g \in [L -> M]
      /\ \A x, y \in L : g[x] = g[y] => x = y
      /\ \A k \in M : \E x \in L : g[x] = k
  BY DEF Naming
<1>2. /\ A2 \in [M -> M \cup {NULL}] /\ B2 \in [M -> M \cup {NULL}] /\ P2 \in [M -> M \cup {NULL}]
      /\ \A x \in L : /\ A2[g[x]] = As(g, A[x]) /\ B2[g[x]] = As(g, B[x])
                      /\ P2[g[x]] = As(g, P[x])
      /\ r2 = As(g, r)
  BY DEF Renamed
<1>3. /\ A \in [L -> L \cup {NULL}] /\ B \in [L -> L \cup {NULL}] /\ P \in [L -> L \cup {NULL}]
      /\ r \in L \cup {NULL} /\ U \in [L -> SUBSET L] /\ Sub(U, r) = L
      /\ (r # NULL => P[r] = NULL)
      /\ \A x \in L : LinkedAt(A, B, P, r, x) /\ SubtreeAt(A, B, U, x)
  BY DEF Shape, Typed
<1>4. Typed(M, A2, B2, P2, r2)
  BY <1>1, <1>2, <1>3 DEF Typed, As
<1>5. \A c \in L \cup {NULL} : (As(g, c) = NULL <=> c = NULL) /\ As(g, c) \in M \cup {NULL}
  BY <1>1 DEF As
<1>6. \A c, x \in L : g[x] = As(g, c) <=> x = c
  BY <1>1 DEF As
<1>7. ASSUME NEW k \in M PROVE LinkedAt(A2, B2, P2, r2, k)
  <2>1. PICK x \in L : g[x] = k
    BY <1>1
  <2>2. LinkedAt(A, B, P, r, x)
    BY <1>3
  <2>3. A2[k] # NULL => P2[A2[k]] = k
    <3>1. A2[k] = As(g, A[x]) /\ A[x] \in L \cup {NULL}
      BY <1>2, <1>3, <2>1
    <3>2. A2[k] # NULL => A[x] \in L /\ A2[k] = g[A[x]] /\ P[A[x]] = x
      BY <2>2, <3>1 DEF As, LinkedAt
    <3> QED
      BY <1>1, <1>2, <2>1, <3>2 DEF As
  <2>4. B2[k] # NULL => P2[B2[k]] = k
    <3>1. B2[k] = As(g, B[x]) /\ B[x] \in L \cup {NULL}
      BY <1>2, <1>3, <2>1
    <3>2. B2[k] # NULL => B[x] \in L /\ B2[k] = g[B[x]] /\ P[B[x]] = x
      BY <2>2, <3>1 DEF As, LinkedAt
    <3> QED
      BY <1>1, <1>2, <2>1, <3>2 DEF As
  <2>5. P2[k] = As(g, P[x]) /\ P[x] \in L \cup {NULL}
    BY <1>2, <1>3, <2>1
  <2>6. P2[k] # NULL => k = A2[P2[k]] \/ k = B2[P2[k]]
    <3>1. P2[k] # NULL => P[x] \in L /\ P2[k] = g[P[x]] /\ (x = A[P[x]] \/ x = B[P[x]])
      BY <2>2, <2>5 DEF As, LinkedAt
    <3> QED
      BY <1>1, <1>2, <2>1, <3>1 DEF As
  <2>7. P2[k] = NULL => k = r2
    <3>1. P2[k] = NULL => x = r
      BY <1>1, <2>2, <2>5 DEF As, LinkedAt
    <3> QED
      BY <1>1, <1>2, <2>1, <3>1 DEF As
  <2> QED
    BY <2>3, <2>4, <2>6, <2>7 DEF LinkedAt
<1>8. /\ U2 \in [M -> SUBSET M]
      /\ \A c \in L \cup {NULL} : /\ Sub(U2, As(g, c)) \in SUBSET M
                                  /\ \A y \in L : g[y] \in Sub(U2, As(g, c)) <=> y \in Sub(U, c)
  <2>1. U2 \in [M -> SUBSET M]
    BY DEF RenamedSubtrees
  <2> QED
    BY <1>3, <2>1, RenameSubtrees
<1> HIDE DEF U2
<1>9. ASSUME NEW k \in M PROVE SubtreeAt(A2, B2, U2, k)
  <2>1. PICK x \in L : g[x] = k
    BY <1>1
  <2>2. /\ U[x] = {x} \cup Sub(U, A[x]) \cup Sub(U, B[x])
        /\ x \notin Sub(U, A[x]) /\ x \notin Sub(U, B[x])
        /\ Sub(U, A[x]) \cap Sub(U, B[x]) = {}
    BY <1>3 DEF SubtreeAt
  <2>3. /\ A2[k] = As(g, A[x]) /\ A[x] \in L \cup {NULL}
        /\ B2[k] = As(g, B[x]) /\ B[x] \in L \cup {NULL}
    BY <1>2, <1>3, <2>1
  <2>4. /\ Sub(U2, A2[k]) \in SUBSET M
        /\ \A y \in L : g[y] \in Sub(U2, A2[k]) <=> y \in Sub(U, A[x])
        /\ Sub(U2, B2[k]) \in SUBSET M
        /\ \A y \in L : g[y] \in Sub(U2, B2[k]) <=> y \in Sub(U, B[x])
    BY <1>8, <2>3
  <2>5. U2[k] \in SUBSET M /\ \A y \in L : g[y] \in U2[k] <=> y \in U[x]
    <3>1. As(g, x) = k /\ Sub(U2, k) = U2[k] /\ Sub(U, x) = U[x]
      BY <1>1, <2>1 DEF As, Sub
    <3> QED
      BY <1>8, <3>1
  <2>6. ASSUME NEW j \in M
        PROVE  j \in U2[k] <=> j = k \/ j \in Sub(U2, A2[k]) \/ j \in Sub(U2, B2[k])
    <3>1. PICK y \in L : g[y] = j
      BY <1>1
    <3> QED
      BY <1>1, <2>1, <2>2, <2>4, <2>5, <3>1
  <2>7. U2[k] = {k} \cup Sub(U2, A2[k]) \cup Sub(U2, B2[k])
    BY <2>4, <2>5, <2>6
  <2>8. k \notin Sub(U2, A2[k]) /\ k \notin Sub(U2, B2[k])
    BY <2>1, <2>2, <2>4
  <2>9. Sub(U2, A2[k]) \cap Sub(U2, B2[k]) = {}
    <3>1. ASSUME NEW j \in M PROVE ~(j \in Sub(U2, A2[k]) /\ j \in Sub(U2, B2[k]))
      <4>1. PICK y \in L : g[y] = j
        BY <1>1
      <4> QED
        BY <2>2, <2>4, <4>1
    <3> QED
      BY <2>4, <3>1
  <2> QED
    BY <2>7, <2>8, <2>9 DEF SubtreeAt
<1>10. r2 # NULL => P2[r2] = NULL
  BY <1>1, <1>2, <1>3 DEF As
<1>11. Sub(U2, r2) = M
  <2>1. Sub(U2, r2) \in SUBSET M /\ \A y \in L : g[y] \in Sub(U2, r2)
    BY <1>2, <1>3, <1>8
  <2> QED
    BY <1>1, <2>1
<1> QED
  BY <1>4, <1>7, <1>8, <1>9, <1>10, <1>11 DEF Shape, U2

LEMMA RenameOrder ==
  ASSUME NEW L \in SUBSET Int, NEW M \in SUBSET Int, NEW g, Naming(L, M, g),
         NEW A, NEW B, NEW P, NEW r, NEW U, Shape(L, A, B, P, r, U),
         NEW A2, NEW B2, NEW P2, NEW r2, Renamed(L, M, g, A, B, P, r, A2, B2, P2, r2),
         \A x, y \in L : x < y => g[x] < g[y], Ordered(L, A, B, U, Less)
  PROVE  Ordered(M, A2, B2, RenamedSubtrees(L, M, g, U), Less)
<1> DEFINE U2 == RenamedSubtrees(L, M, g, U)
<1>1. g \in [L -> M] /\ \A k \in M : \E x \in L : g[x] = k
  BY DEF Naming
<1>2. \A x \in L : A2[g[x]] = As(g, A[x]) /\ B2[g[x]] = As(g, B[x])
  BY DEF Renamed
<1>3. /\ A \in [L -> L \cup {NULL}] /\ B \in [L -> L \cup {NULL}] /\ U \in [L -> SUBSET L]
  BY DEF Shape, Typed
<1>4. \A c \in L \cup {NULL} : /\ Sub(U2, As(g, c)) \in SUBSET M
                               /\ \A y \in L : g[y] \in Sub(U2, As(g, c)) <=> y \in Sub(U, c)
  BY <1>3, RenameSubtrees
<1> HIDE DEF U2
<1>5. ASSUME NEW k \in M PROVE OrderedAt(A2, B2, U2, Less, k)
  <2>1. PICK x \in L : g[x] = k
    BY <1>1
  <2>2. /\ A2[k] = As(g, A[x]) /\ A[x] \in L \cup {NULL}
        /\ B2[k] = As(g, B[x]) /\ B[x] \in L \cup {NULL}
    BY <1>2, <1>3, <2>1
  <2>3. /\ \A y \in Sub(U, A[x]) : <<y, x>> \in Less
        /\ \A y \in Sub(U, B[x]) : <<x, y>> \in Less
    BY DEF Ordered, OrderedAt
  <2>4. ASSUME NEW j \in Sub(U2, A2[k]) PROVE <<j, k>> \in Less
    <3>1. j \in M
      BY <1>4, <2>2
    <3>2. PICK y \in L : g[y] = j
      BY <1>1, <3>1
    <3>3. y \in Sub(U, A[x])
      BY <1>4, <2>2, <3>2
    <3>4. y < x
      BY <2>3, <3>3 DEF Less
    <3> QED
      BY <2>1, <3>1, <3>2, <3>4 DEF Less
  <2>5. ASSUME NEW j \in Sub(U2, B2[k]) PROVE <<k, j>> \in Less
    <3>1. j \in M
      BY <1>4, <2>2
    <3>2. PICK y \in L : g[y] = j
      BY <1>1, <3>1
    <3>3. y \in Sub(U, B[x])
      BY <1>4, <2>2, <3>2
    <3>4. x < y
      BY <2>3, <3>3 DEF Less
    <3> QED
      BY <2>1, <3>1, <3>2, <3>4 DEF Less
  <2> QED
    BY <2>4, <2>5 DEF OrderedAt
<1> QED
  BY <1>5 DEF Ordered, U2

LEMMA RenameBalance ==
  ASSUME NEW L, NEW M, NEW g, Naming(L, M, g),
         NEW A, NEW B, NEW P, NEW r, NEW U, Shape(L, A, B, P, r, U),
         NEW A2, NEW B2, NEW P2, NEW r2, Renamed(L, M, g, A, B, P, r, A2, B2, P2, r2),
         NEW C, NEW C2, \A x \in L : C2[g[x]] = C[x],
         NEW H, HeightsTyped(L, H), Balanced(L, A, B, C, NULL, NULL, NULL, H)
  PROVE  \E H2 : HeightsTyped(M, H2) /\ Balanced(M, A2, B2, C2, NULL, NULL, NULL, H2)
<1> DEFINE H2 == [k \in M |-> H[CHOOSE x \in L : g[x] = k]]
<1>1. /\ NULL \notin M /\ NULL \notin L /\ g \in [L -> M]
      /\ \A x, y \in L : g[x] = g[y] => x = y
      /\ \A k \in M : \E x \in L : g[x] = k
  BY DEF Naming
<1>2. \A x \in L : A2[g[x]] = As(g, A[x]) /\ B2[g[x]] = As(g, B[x])
  BY DEF Renamed
<1>3. A \in [L -> L \cup {NULL}] /\ B \in [L -> L \cup {NULL}]
  BY DEF Shape, Typed
<1>4. \A x \in L : H2[g[x]] = H[x]
  <2> TAKE x \in L
  <2>1. g[x] \in M
    BY <1>1
  <2>2. (CHOOSE y \in L : g[y] = g[x]) = x
    BY <1>1
  <2> QED
    BY <2>1, <2>2
<1>5. HeightsTyped(M, H2)
  <2>1. ASSUME NEW k \in M PROVE (CHOOSE x \in L : g[x] = k) \in L
    BY <1>1
  <2> QED
    BY <2>1 DEF HeightsTyped
<1> HIDE DEF H2
<1>6. \A c \in L \cup {NULL} : /\ Ht(H2, NULL, As(g, c)) = Ht(H, NULL, c)
                               /\ Col(C2, As(g, c)) = Col(C, c)
  BY <1>1, <1>4 DEF Ht, Col, As
<1>7. ASSUME NEW k \in M PROVE BalancedAt(A2, B2, C2, NULL, NULL, NULL, H2, k)
  <2>1. PICK x \in L : g[x] = k
    BY <1>1
  <2>2. BalancedAt(A, B, C, NULL, NULL, NULL, H, x)
    BY DEF Balanced
  <2>3. /\ A2[k] = As(g, A[x]) /\ A[x] \in L \cup {NULL}
        /\ B2[k] = As(g, B[x]) /\ B[x] \in L \cup {NULL}
        /\ C2[k] = C[x] /\ H2[k] = H[x] /\ k # NULL /\ x # NULL
    BY <1>1, <1>2, <1>3, <1>4, <2>1
  <2>4. /\ Ht(H2, NULL, A2[k]) = Ht(H, NULL, A[x]) /\ Ht(H2, NULL, B2[k]) = Ht(H, NULL, B[x])
        /\ Col(C2, A2[k]) = Col(C, A[x]) /\ Col(C2, B2[k]) = Col(C, B[x])
    BY <1>6, <2>3
  <2>5. (A[x] = NULL => Col(C, A[x]) = "BLACK") /\ (B[x] = NULL => Col(C, B[x]) = "BLACK")
    BY DEF Col
  <2> QED
    BY <2>2, <2>3, <2>4, <2>5 DEF BalancedAt
<1> QED
  BY <1>5, <1>7 DEF Balanced

(* Node v is out of tree s: no pointer of the others leads to it.           *)
Unlinked(N, s, v) ==
  /\ s \in Tree(N) /\ NULL \notin N /\ N \in SUBSET Keys /\ v \in N /\ s.root # v
  /\ \A x \in N \ {v} : Lefts(s)[x] # v /\ Rights(s)[x] # v /\ Parents(s)[x] # v

NamesOf(N, s, v) == [x \in N \ {v} |-> s.node[x].key]

(* Without the victim different nodes have different keys. *)
LEMMA KeysAreNames ==
  ASSUME NEW N \in SUBSET Int, NULL \notin N, NEW s, NEW m \in N, NEW v \in N, NamedBy(N, s, m, v)
  PROVE  /\ Naming(N \ {v}, N \ {m}, NamesOf(N, s, v))
         /\ \A x, y \in N \ {v} : x < y => NamesOf(N, s, v)[x] < NamesOf(N, s, v)[y]
<1> DEFINE L == N \ {v}
           M == N \ {m}
           g == NamesOf(N, s, v)
<1>1. /\ \A x \in L : g[x] = IF x = m THEN v ELSE x
      /\ v <= m /\ \A y \in N : y <= v \/ m <= y
  BY DEF NamedBy, NamesOf
<1>2. g = [x \in L |-> g[x]]
  BY DEF NamesOf
<1> HIDE DEF g
<1>3. \A x \in L : g[x] \in M
  BY <1>1
<1>4. \A x, y \in L : g[x] = g[y] => x = y
  BY <1>1
<1>5. \A k \in M : \E x \in L : g[x] = k
  <2> TAKE k \in M
  <2>1. CASE k = v
    <3>1. m \in L /\ g[m] = k
      BY <1>1, <2>1
    <3> QED
      BY <3>1
  <2>2. CASE k # v
    <3>1. k \in L /\ g[k] = k
      BY <1>1, <2>2
    <3> QED
      BY <3>1
  <2> QED
    BY <2>1, <2>2
<1>6. g \in [L -> M]
  BY <1>2, <1>3
<1>7. Naming(L, M, g)
  BY <1>4, <1>5, <1>6 DEF Naming
<1>8. ASSUME NEW x \in L, NEW y \in L, x < y PROVE g[x] < g[y]
  <2>1. x \in Int /\ y \in Int /\ m \in Int /\ v \in Int
    OBVIOUS
  <2>2. CASE x = m
    BY <1>1, <1>8, <2>1, <2>2
  <2>3. CASE y = m
    <3>1. ~(m <= x)
      BY <1>8, <2>1, <2>3
    <3>2. x <= v /\ x # v
      BY <1>1, <3>1
    <3> QED
      BY <1>1, <1>8, <2>1, <2>3, <3>2
  <2>4. CASE x # m /\ y # m
    BY <1>1, <1>8, <2>4
  <2> QED
    BY <2>2, <2>3, <2>4
<1> QED
  BY <1>7, <1>8 DEF g

(* Freed renames, and otherwise keeps, what is left. *)
FreedInto(N, s, m, v, s2) ==
  LET g == NamesOf(N, s, v)
  IN  /\ s2 \in Tree(N \ {m})
      /\ Renamed(N \ {v}, N \ {m}, g, Lefts(s), Rights(s), Parents(s), s.root,
                 Lefts(s2), Rights(s2), Parents(s2), s2.root)
      /\ \A x \in N \ {v} : /\ Colors(s2)[g[x]] = Colors(s)[x]
                            /\ s2.node[g[x]].key = g[x]
                            /\ s2.node[g[x]].value = s.node[x].value

(* What Freed does to the pointers. *)
LEMMA FreedFields ==
  ASSUME NEW N, NEW s, NEW m \in N, NEW v, Unlinked(N, s, v), NamedBy(N, s, m, v)
  PROVE  FreedInto(N, s, m, v, Freed(s, v))
<1> DEFINE L == N \ {v}
           M == N \ {m}
           g == NamesOf(N, s, v)
           s2 == Freed(s, v)
<1>1. /\ s \in Tree(N) /\ NULL \notin N /\ N \in SUBSET Keys /\ v \in N /\ s.root # v
      /\ \A x \in L : Lefts(s)[x] # v /\ Rights(s)[x] # v /\ Parents(s)[x] # v
  BY DEF Unlinked
<1>2. N \in SUBSET Int
  BY <1>1, KeysAssumption
<1>3. Naming(L, M, g)
  BY <1>1, <1>2, KeysAreNames
<1>4. /\ g \in [L -> M] /\ \A x, y \in L : g[x] = g[y] => x = y
      /\ \A k \in M : \E x \in L : g[x] = k
  BY <1>3 DEF Naming
<1>5. \A x \in L : g[x] = s.node[x].key
  BY DEF NamesOf
<1> HIDE DEF g
<1>6. /\ DOMAIN s.node = N /\ s.root \in N \cup {NULL}
      /\ \A x \in N : /\ Lefts(s)[x] = s.node[x].left /\ Rights(s)[x] = s.node[x].right
                      /\ Parents(s)[x] = s.node[x].parent /\ Colors(s)[x] = s.node[x].color
  BY <1>1, TreeFields
<1>7. \A x \in N : s.node[x] \in [key : Keys, value : Values, color : Color, left : N \cup {NULL},
                                  right : N \cup {NULL}, parent : N \cup {NULL}]
  BY <1>1 DEF Tree
<1> DEFINE name(y) == IF y = NULL THEN NULL ELSE s.node[y].key
           named(k) == CHOOSE y \in L : s.node[y].key = k
<1>8. \A y \in L \cup {NULL} : name(y) = As(g, y) /\ name(y) \in M \cup {NULL}
  BY <1>1, <1>4, <1>5 DEF As
<1>9. {name(y) : y \in L} = M
  <2>1. \A y \in L : name(y) = g[y]
    BY <1>1, <1>5
  <2> QED
    BY <1>4, <2>1
<1>10. \A x \in L : named(g[x]) = x
  BY <1>4, <1>5
<1>11. /\ s2.root = name(s.root)
       /\ s2.node = [k \in M |-> [s.node[named(k)] EXCEPT !.left = name(@), !.right = name(@),
                                                          !.parent = name(@)]]
       /\ s2 = [root |-> s2.root, node |-> s2.node]
  <2> DEFINE F(k) == [s.node[named(k)] EXCEPT !.left = name(@), !.right = name(@),
                                              !.parent = name(@)]
  <2>1. s2 = [root |-> name(s.root), node |-> [k \in {name(y) : y \in L} |-> F(k)]]
    BY <1>6 DEF Freed
  <2>2. s2 = [root |-> name(s.root), node |-> [k \in M |-> F(k)]]
    <3> HIDE DEF s2, F, name, named
    <3> QED
      BY <1>9, <2>1
  <2> HIDE DEF s2, F, name, named
  <2>3. /\ s2.root = name(s.root) /\ s2.node = [k \in M |-> F(k)]
        /\ s2 = [root |-> s2.root, node |-> s2.node]
    BY <2>2
  <2> QED
    BY <2>3 DEF F
<1> HIDE DEF s2, named, name
<1>12. \A x \in L : s2.node[g[x]] = [s.node[x] EXCEPT !.left = name(@), !.right = name(@),
                                                      !.parent = name(@)]
  <2> TAKE x \in L
  <2>1. g[x] \in M /\ named(g[x]) = x
    BY <1>4, <1>10
  <2>2. s2.node[g[x]] = [s.node[named(g[x])] EXCEPT !.left = name(@), !.right = name(@),
                                                    !.parent = name(@)]
    BY <1>11, <2>1
  <2> QED
    BY <2>1, <2>2
<1>13. \A x \in L : /\ s.node[x].left \in L \cup {NULL} /\ s.node[x].right \in L \cup {NULL}
                    /\ s.node[x].parent \in L \cup {NULL}
  BY <1>1, <1>6, <1>7
<1>14. ASSUME NEW x \in L
       PROVE  /\ s2.node[g[x]] \in [key : Keys, value : Values, color : Color, left : M \cup {NULL},
                                    right : M \cup {NULL}, parent : M \cup {NULL}]
              /\ s2.node[g[x]].left = As(g, s.node[x].left)
              /\ s2.node[g[x]].right = As(g, s.node[x].right)
              /\ s2.node[g[x]].parent = As(g, s.node[x].parent)
              /\ s2.node[g[x]].color = s.node[x].color
              /\ s2.node[g[x]].key = s.node[x].key /\ s2.node[g[x]].value = s.node[x].value
  <2>1. PICK a, b, c \in L \cup {NULL} :
          a = s.node[x].left /\ b = s.node[x].right /\ c = s.node[x].parent
    BY <1>13
  <2>2. s2.node[g[x]] = [s.node[x] EXCEPT !.left = As(g, a), !.right = As(g, b),
                                          !.parent = As(g, c)]
    BY <1>8, <1>12, <2>1
  <2>3. As(g, a) \in M \cup {NULL} /\ As(g, b) \in M \cup {NULL} /\ As(g, c) \in M \cup {NULL}
    BY <1>8
  <2>4. s.node[x] \in [key : Keys, value : Values, color : Color, left : N \cup {NULL},
                       right : N \cup {NULL}, parent : N \cup {NULL}]
    BY <1>7
  <2> QED
    BY <2>1, <2>2, <2>3, <2>4
<1>15. s2 \in Tree(M)
  <2>1. \A k \in M : s2.node[k] \in [key : Keys, value : Values, color : Color,
            left : M \cup {NULL},
                                     right : M \cup {NULL}, parent : M \cup {NULL}]
    BY <1>4, <1>14
  <2>2. s2.root \in M \cup {NULL}
    BY <1>1, <1>6, <1>8, <1>11
  <2>3. s2.node \in [M -> [key : Keys, value : Values, color : Color, left : M \cup {NULL},
                           right : M \cup {NULL}, parent : M \cup {NULL}]]
    BY <1>11, <2>1
  <2> QED
    BY <1>11, <2>2, <2>3 DEF Tree
<1>16. /\ Lefts(s2) \in [M -> M \cup {NULL}] /\ Rights(s2) \in [M -> M \cup {NULL}]
       /\ Parents(s2) \in [M -> M \cup {NULL}]
       /\ \A k \in M : /\ Lefts(s2)[k] = s2.node[k].left /\ Rights(s2)[k] = s2.node[k].right
                       /\ Parents(s2)[k] = s2.node[k].parent /\ Colors(s2)[k] = s2.node[k].color
  BY <1>15, TreeFields
<1>17. ASSUME NEW x \in L
       PROVE  /\ Lefts(s2)[g[x]] = As(g, Lefts(s)[x]) /\ Rights(s2)[g[x]] = As(g, Rights(s)[x])
              /\ Parents(s2)[g[x]] = As(g, Parents(s)[x])
              /\ Colors(s2)[g[x]] = Colors(s)[x]
  BY <1>4, <1>6, <1>14, <1>16
<1>18. s2.root = As(g, s.root)
  BY <1>1, <1>6, <1>8, <1>11
<1>19. Renamed(L, M, g, Lefts(s), Rights(s), Parents(s), s.root,
               Lefts(s2), Rights(s2), Parents(s2), s2.root)
  BY <1>16, <1>17, <1>18 DEF Renamed
<1>20. \A x \in L : /\ Colors(s2)[g[x]] = Colors(s)[x] /\ s2.node[g[x]].key = g[x]
                    /\ s2.node[g[x]].value = s.node[x].value
  BY <1>5, <1>14, <1>17
<1> QED
  BY <1>15, <1>19, <1>20 DEF FreedInto, g, s2
-----------------------------------------------------------------------------
(* The end of rbtree_delete before the victim is freed: its child is in its *)
(* place, black when it has become the root.                                *)
Detached(s, v, c) ==
  LET s1 == replace_node(s, v, c)
  IN  IF Parents(s)[v] = NULL /\ c # NULL THEN SetColor(s1, c, "BLACK") ELSE s1

DetachedInto(N, s, v, c, s2) ==
  /\ s2 \in Tree(N) /\ SameContent(N, s, s2)
  /\ s2.root = IF Parents(s)[v] = NULL THEN c ELSE s.root
  /\ Lefts(s2) = [z \in N |-> IF Lefts(s)[z] = v THEN c ELSE Lefts(s)[z]]
  /\ Rights(s2) = [z \in N |-> IF Rights(s)[z] = v THEN c ELSE Rights(s)[z]]
  /\ Parents(s2) = [z \in N |-> IF z = c THEN Parents(s)[v] ELSE Parents(s)[z]]
  /\ \A z \in N : Colors(s2)[z] = IF Parents(s)[v] = NULL /\ z = c THEN "BLACK" ELSE Colors(s)[z]

(* What replace_node and the black root do to the pointers                  *)
(* (hextype_rbtree.cc:285).                                                 *)
LEMMA DetachFields ==
  ASSUME NEW N, NULL \notin N, NEW s \in Tree(N), NEW U, ShapeOf(s, U),
         NEW v \in N, NEW c \in N \cup {NULL}
  PROVE  DetachedInto(N, s, v, c, Detached(s, v, c))
<1> DEFINE s1 == replace_node(s, v, c)
<1>1. Replaced(N, s, v, c, s1)
  BY ReplaceNode
<1> HIDE DEF s1
<1>2. CASE Parents(s)[v] = NULL /\ c # NULL
  <2>1. Detached(s, v, c) = SetColor(s1, c, "BLACK") /\ c \in N /\ "BLACK" \in Color
    BY <1>2 DEF Detached, s1, Color
  <2>2. s1 \in Tree(N)
    BY <1>1 DEF Replaced
  <2>3. PICK s2 : s2 = SetColor(s1, c, "BLACK")
    OBVIOUS
  <2>4. ColorSet(N, s1, c, "BLACK", s2)
    BY <2>1, <2>2, <2>3, SetColorFields
  <2>5. SameContent(N, s, s2)
    BY <1>1, <2>4 DEF Replaced, ColorSet, SameContent
  <2>6. Colors(s) \in [N -> Color]
    BY TreeFields
  <2>7. \A z \in N : Colors(s2)[z] =
          IF Parents(s)[v] = NULL /\ z = c THEN "BLACK" ELSE Colors(s)[z]
    BY <1>1, <1>2, <2>4, <2>6 DEF Replaced, ColorSet
  <2>8. DetachedInto(N, s, v, c, s2)
    BY <1>1, <2>4, <2>5, <2>7 DEF Replaced, ColorSet, SameLinks, DetachedInto
  <2> QED
    BY <2>1, <2>3, <2>8
<1>3. CASE ~(Parents(s)[v] = NULL /\ c # NULL)
  <2>1. Detached(s, v, c) = s1
    BY <1>3 DEF Detached, s1
  <2>2. \A z \in N : Colors(s1)[z] =
          IF Parents(s)[v] = NULL /\ z = c THEN "BLACK" ELSE Colors(s)[z]
    BY <1>1, <1>3 DEF Replaced
  <2>3. DetachedInto(N, s, v, c, s1)
    BY <1>1, <2>2 DEF Replaced, DetachedInto
  <2> QED
    BY <2>1, <2>3
<1> QED
  BY <1>2, <1>3

FinishKnown(N, s, f, q) ==
  /\ q.op = "delete" /\ q.key \in N /\ f.victim \in N /\ OnlyChild(s, f)
  /\ Base(N, s, q.key, f.victim, f.victim) /\ NamedBy(N, s, q.key, f.victim)
  /\ N \in SUBSET Keys /\ IsFiniteSet(N) /\ s \in Tree(N) /\ NULL \notin N
  /\ s.root \in N /\ (s.root # f.victim => Colors(s)[s.root] = "BLACK")
  /\ f.child \in N \cup {NULL} /\ f.child # f.victim

(* The facts of FinishInv, with their witnesses. *)
LEMMA FinishAt ==
  ASSUME NEW s, NEW f, NEW q, FinishInv(s, f, q), NEW N, N = DOMAIN s.node
  PROVE  /\ FinishKnown(N, s, f, q)
         /\ \E U, H : Sound(N, s, f.victim, f.victim, NULL, U, H)
<1>1. /\ Request(N, s, f, q)
      /\ \E U, H : Sound(N, s, f.victim, f.victim, NULL, U, H)
  BY DEF FinishInv
<1>2. PICK U, H : Sound(N, s, f.victim, f.victim, NULL, U, H)
  BY <1>1
<1>3. /\ q.op = "delete" /\ q.key \in N /\ f.victim \in N /\ OnlyChild(s, f)
      /\ Base(N, s, q.key, f.victim, f.victim)
  BY <1>1 DEF Request
<1>4. /\ N \in SUBSET Keys /\ IsFiniteSet(N) /\ s \in Tree(N)
      /\ NamedBy(N, s, q.key, f.victim)
      /\ s.root # NULL /\ s.root # f.victim => Colors(s)[s.root] = "BLACK"
  BY <1>3 DEF Base
<1>5. Shape(N, Lefts(s), Rights(s), Parents(s), s.root, U)
  BY <1>2 DEF Sound
<1>6. s.root \in N /\ NULL \notin N
  BY <1>3, <1>5 DEF Shape, Typed, Sub
<1>7. /\ Lefts(s)[f.victim] \in N \cup {NULL} /\ Rights(s)[f.victim] \in N \cup {NULL}
      /\ Lefts(s)[f.victim] # f.victim /\ Rights(s)[f.victim] # f.victim
  BY <1>3, <1>5, Kin
<1>8. f.child \in N \cup {NULL} /\ f.child # f.victim
  BY <1>3, <1>6, <1>7 DEF OnlyChild
<1> QED
  BY <1>1, <1>3, <1>4, <1>6, <1>8 DEF FinishKnown

(* The victim is out, the rest is a red-black search tree. *)
LEMMA DetachedRest ==
  ASSUME NEW s, NEW f, NEW q, FinishInv(s, f, q), NEW N, N = DOMAIN s.node,
         NEW s2, DetachedInto(N, s, f.victim, f.child, s2)
  PROVE  /\ Unlinked(N, s2, f.victim)
         /\ \E A, B, P, C, U, H :
              /\ \A z \in N \ {f.victim} :
                   A[z] = Lefts(s2)[z] /\ B[z] = Rights(s2)[z] /\ P[z] = Parents(s2)[z]
                   /\ C[z] = Colors(s2)[z]
              /\ Shape(N \ {f.victim}, A, B, P, s2.root, U)
              /\ Ordered(N \ {f.victim}, A, B, U, Less)
              /\ HeightsTyped(N \ {f.victim}, H)
              /\ Balanced(N \ {f.victim}, A, B, C, NULL, NULL, NULL, H)
         /\ s2.root # NULL => Colors(s2)[s2.root] = "BLACK"
<1> DEFINE v == f.victim
           c == f.child
           L == N \ {v}
           A == Lefts(s)
           B == Rights(s)
           P == Parents(s)
           A1 == [z \in L |-> IF A[z] = v THEN c ELSE A[z]]
           B1 == [z \in L |-> IF B[z] = v THEN c ELSE B[z]]
           P1 == [z \in L |-> IF z = c THEN P[v] ELSE P[z]]
           C1 == [z \in L |-> Colors(s)[z]]
           C2 == [z \in L |-> Colors(s2)[z]]
<1>1. PICK U, H : Sound(N, s, v, v, NULL, U, H)
  BY FinishAt
<1>2. FinishKnown(N, s, f, q)
  BY FinishAt
<1>3. /\ v \in N /\ OnlyChild(s, f) /\ N \in SUBSET Keys /\ s \in Tree(N) /\ NULL \notin N
      /\ s.root \in N /\ (s.root # v => Colors(s)[s.root] = "BLACK")
      /\ c \in N \cup {NULL} /\ c # v
  BY <1>2 DEF FinishKnown
<1>4. /\ Shape(N, A, B, P, s.root, U) /\ Ordered(N, A, B, U, Less)
      /\ HeightsTyped(N, H) /\ Balanced(N, A, B, Colors(s), v, v, NULL, H)
  BY <1>1 DEF Sound
<1>5. /\ s2 \in Tree(N) /\ s2.root = (IF P[v] = NULL THEN c ELSE s.root)
      /\ Lefts(s2) = [z \in N |-> IF A[z] = v THEN c ELSE A[z]]
      /\ Rights(s2) = [z \in N |-> IF B[z] = v THEN c ELSE B[z]]
      /\ Parents(s2) = [z \in N |-> IF z = c THEN P[v] ELSE P[z]]
      /\ \A z \in N : Colors(s2)[z] = IF P[v] = NULL /\ z = c THEN "BLACK" ELSE Colors(s)[z]
  BY DEF DetachedInto
<1>6. /\ P[s.root] = NULL
      /\ \A z \in N : /\ P[z] # NULL => z = A[P[z]] \/ z = B[P[z]]
                      /\ P[z] # z
  BY <1>3, <1>4, Kin DEF Shape, LinkedAt
<1>7. (A[v] = c /\ B[v] = NULL) \/ (B[v] = c /\ A[v] = NULL)
  BY <1>3 DEF OnlyChild
<1> HIDE DEF A, B, P
<1>8. Unlinked(N, s2, v)
  <2>1. s2.root # v
    BY <1>3, <1>5, <1>6
  <2>2. ASSUME NEW x \in L PROVE Lefts(s2)[x] # v /\ Rights(s2)[x] # v /\ Parents(s2)[x] # v
    <3>1. P[x] = v => x = c
      BY <1>3, <1>6, <1>7
    <3> QED
      BY <1>3, <1>5, <1>6, <3>1
  <2> QED
    BY <1>3, <1>5, <2>1, <2>2 DEF Unlinked
<1>9. Removed(N, A, B, P, s.root, v, c, A1, B1, P1, s2.root)
  BY <1>3, <1>5, <1>7 DEF Removed
<1>10. /\ \A z \in L : A1[z] = Lefts(s2)[z] /\ B1[z] = Rights(s2)[z] /\ P1[z] = Parents(s2)[z]
                       /\ C2[z] = Colors(s2)[z]
       /\ \A z \in L : C1[z] = Colors(s)[z]
  BY <1>5
<1> HIDE DEF A1, B1, P1, C1
<1>11. /\ Shape(L, A1, B1, P1, s2.root, RemovedSubtrees(N, U, v))
       /\ Ordered(L, A1, B1, RemovedSubtrees(N, U, v), Less)
  BY <1>4, <1>9, RemoveShape, RemoveOrder
<1>12. \E H1 : HeightsTyped(L, H1) /\ Balanced(L, A1, B1, C1, NULL, NULL, NULL, H1)
  <2>1. P[v] # NULL => Col(Colors(s), c) = "BLACK" \/ Colors(s)[P[v]] = "BLACK"
    BY DEF FinishInv, ChildFits, P
  <2> QED
    BY <1>4, <1>9, <1>10, <2>1, RemoveBalance
<1>13. PICK H1 : HeightsTyped(L, H1) /\ Balanced(L, A1, B1, C1, NULL, NULL, NULL, H1)
  BY <1>12
<1>14. \E H2 : HeightsTyped(L, H2) /\ Balanced(L, A1, B1, C2, NULL, NULL, NULL, H2)
  <2>1. CASE P[v] = NULL /\ c # NULL
    <3>1. c \in L /\ s2.root = c
      BY <1>3, <1>5, <2>1
    <3>2. \A z \in L : C2[z] = IF z = c THEN "BLACK" ELSE C1[z]
      BY <1>5, <1>10, <2>1
    <3>3. RootBlackened(L, c, NULL, C1, C2)
      BY <3>2 DEF RootBlackened
    <3>4. Shape(L, A1, B1, P1, c, RemovedSubtrees(N, U, v))
      BY <1>11, <3>1
    <3> QED
      BY <1>13, <3>1, <3>3, <3>4, BlackenRoot
  <2>2. CASE ~(P[v] = NULL /\ c # NULL)
    <3>1. \A z \in L : Colors(s2)[z] = Colors(s)[z]
      BY <1>3, <1>5, <2>2
    <3>2. C1 = C2
      BY <3>1 DEF C1
    <3> QED
      BY <1>13, <3>2
  <2> QED
    BY <2>1, <2>2
<1>15. s2.root # NULL => Colors(s2)[s2.root] = "BLACK"
  BY <1>3, <1>5, <1>6
<1>16. PICK H2 : HeightsTyped(L, H2) /\ Balanced(L, A1, B1, C2, NULL, NULL, NULL, H2)
  BY <1>14
<1> QED
  BY <1>8, <1>10, <1>11, <1>15, <1>16

(* The last step of a deletion: the tree is a red-black search tree again,  *)
(* and the key of the call is out of the map.                               *)
Deleted(s, s3, q) ==
  /\ Steady(s3) /\ DOMAIN s3.node = DOMAIN s.node \ {q.key}
  /\ ContentIn(s3) = [ContentIn(s) EXCEPT ![q.key] = None]

(* Renamed, the rest is a tree as it is between calls. *)
LEMMA FreedSteady ==
  ASSUME NEW s, NEW f, NEW q, FinishInv(s, f, q), NEW N, N = DOMAIN s.node,
         NEW s2, DetachedInto(N, s, f.victim, f.child, s2),
         NEW s3, FreedInto(N, s2, q.key, f.victim, s3),
         NEW M, M = N \ {q.key}
  PROVE  /\ \E U, H : Sound(M, s3, NULL, NULL, NULL, U, H)
         /\ s3.root # NULL => Colors(s3)[s3.root] = "BLACK"
<1> DEFINE v == f.victim
           m == q.key
           L == N \ {v}
<1>1. FinishKnown(N, s, f, q)
  BY FinishAt
<1>2. /\ v \in N /\ m \in N /\ NamedBy(N, s, m, v) /\ N \in SUBSET Keys /\ NULL \notin N
      /\ N \in SUBSET Int
  BY <1>1, KeysAssumption DEF FinishKnown
<1>3. /\ Unlinked(N, s2, v)
      /\ \E A, B, P, C, U, H :
           /\ \A z \in L :
                A[z] = Lefts(s2)[z] /\ B[z] = Rights(s2)[z] /\ P[z] = Parents(s2)[z]
                /\ C[z] = Colors(s2)[z]
           /\ Shape(L, A, B, P, s2.root, U)
           /\ Ordered(L, A, B, U, Less)
           /\ HeightsTyped(L, H)
           /\ Balanced(L, A, B, C, NULL, NULL, NULL, H)
      /\ s2.root # NULL => Colors(s2)[s2.root] = "BLACK"
  BY DetachedRest
<1>4. PICK A, B, P, C, U, H :
           /\ \A z \in L :
                A[z] = Lefts(s2)[z] /\ B[z] = Rights(s2)[z] /\ P[z] = Parents(s2)[z]
                /\ C[z] = Colors(s2)[z]
           /\ Shape(L, A, B, P, s2.root, U)
           /\ Ordered(L, A, B, U, Less)
           /\ HeightsTyped(L, H)
           /\ Balanced(L, A, B, C, NULL, NULL, NULL, H)
  BY <1>3
<1>5. NamedBy(N, s2, m, v)
  BY <1>2 DEF DetachedInto, SameContent, NamedBy
<1>6. PICK g : g = NamesOf(N, s2, v)
  OBVIOUS
<1>7. Naming(L, M, g) /\ \A x, y \in L : x < y => g[x] < g[y]
  BY <1>2, <1>5, <1>6, KeysAreNames
<1>8. /\ s3 \in Tree(M)
      /\ Renamed(L, M, g, Lefts(s2), Rights(s2), Parents(s2), s2.root,
                 Lefts(s3), Rights(s3), Parents(s3), s3.root)
      /\ \A x \in L : Colors(s3)[g[x]] = Colors(s2)[x]
  BY <1>6 DEF FreedInto
<1>9. Renamed(L, M, g, A, B, P, s2.root, Lefts(s3), Rights(s3), Parents(s3), s3.root)
  BY <1>4, <1>8 DEF Renamed
<1>10. Shape(M, Lefts(s3), Rights(s3), Parents(s3), s3.root, RenamedSubtrees(L, M, g, U))
  BY <1>4, <1>7, <1>9, RenameShape
<1>11. L \in SUBSET Int /\ M \in SUBSET Int
  BY <1>2
<1> HIDE DEF L
<1>12. Ordered(M, Lefts(s3), Rights(s3), RenamedSubtrees(L, M, g, U), Less)
  BY <1>4, <1>7, <1>9, <1>11, RenameOrder
<1>13. \E H3 : HeightsTyped(M, H3)
               /\ Balanced(M, Lefts(s3), Rights(s3), Colors(s3), NULL, NULL, NULL, H3)
  <2>1. \A x \in L : Colors(s3)[g[x]] = C[x]
    BY <1>4, <1>8
  <2> QED
    BY <1>4, <1>7, <1>9, <2>1, RenameBalance
<1>14. \E V, H3 : Sound(M, s3, NULL, NULL, NULL, V, H3)
  BY <1>8, <1>10, <1>11, <1>12, <1>13 DEF Sound
<1>15. s3.root # NULL => Colors(s3)[s3.root] = "BLACK"
  <2>1. s3.root = As(g, s2.root)
    BY <1>8 DEF Renamed
  <2>2. s2.root # NULL => s2.root \in L
    BY <1>4 DEF Shape, Typed
  <2> QED
    BY <1>3, <1>8, <2>1, <2>2 DEF As
<1> QED
  BY <1>14, <1>15

(* delete_finish in a tree s: a red-black tree without the key. *)
LEMMA Finish ==
  ASSUME NEW s, NEW f, NEW q, FinishInv(s, f, q)
  PROVE  Deleted(s, Freed(Detached(s, f.victim, f.child), f.victim), q)
<1> DEFINE v == f.victim
           m == q.key
<1>1. PICK N : N = DOMAIN s.node
  OBVIOUS
<1>2. FinishKnown(N, s, f, q)
  BY <1>1, FinishAt
<1>3. /\ q.op = "delete" /\ m \in N /\ v \in N /\ NamedBy(N, s, m, v)
      /\ N \in SUBSET Keys /\ IsFiniteSet(N) /\ s \in Tree(N) /\ NULL \notin N
      /\ f.child \in N \cup {NULL} /\ N \in SUBSET Int
  BY <1>2, KeysAssumption DEF FinishKnown
<1>4. PICK U, H : Sound(N, s, v, v, NULL, U, H)
  BY <1>1, FinishAt
<1>5. PICK s2 : s2 = Detached(s, v, f.child)
  OBVIOUS
<1>6. PICK s3 : s3 = Freed(s2, v)
  OBVIOUS
<1>7. PICK M : M = N \ {m}
  OBVIOUS
<1>8. DetachedInto(N, s, v, f.child, s2)
  <2>1. ShapeOf(s, U)
    BY <1>1, <1>4 DEF ShapeOf, Sound
  <2> QED
    BY <1>3, <1>5, <2>1, DetachFields
<1>9. Unlinked(N, s2, v)
  BY <1>1, <1>8, DetachedRest
<1>10. NamedBy(N, s2, m, v)
  BY <1>3, <1>8 DEF DetachedInto, SameContent, NamedBy
<1>11. FreedInto(N, s2, m, v, s3)
  BY <1>3, <1>6, <1>9, <1>10, FreedFields
<1>12. /\ \E V, H3 : Sound(M, s3, NULL, NULL, NULL, V, H3)
       /\ s3.root # NULL => Colors(s3)[s3.root] = "BLACK"
  BY <1>1, <1>7, <1>8, <1>11, FreedSteady
<1>13. PICK V, H3 : Sound(M, s3, NULL, NULL, NULL, V, H3)
  BY <1>12
<1>14. PICK g : g = NamesOf(N, s2, v)
  OBVIOUS
<1>15. Naming(N \ {v}, M, g)
  BY <1>3, <1>7, <1>10, <1>14, KeysAreNames
<1>16. /\ s3 \in Tree(M)
       /\ \A x \in N \ {v} : s3.node[g[x]].key = g[x] /\ s3.node[g[x]].value = s2.node[x].value
  BY <1>7, <1>11, <1>14 DEF FreedInto
<1>17. \A k \in M : \E x \in N \ {v} : g[x] = k
  BY <1>15 DEF Naming
<1>18. \A k \in M : s3.node[k].key = k
  BY <1>16, <1>17
<1>19. NULL \notin M /\ M \in SUBSET Keys /\ IsFiniteSet(M)
  <2>1. IsFiniteSet(M)
    BY <1>3, <1>7, FS_Subset
  <2> QED
    BY <1>3, <1>7, <2>1
<1>20. NamedBy(M, s3, NULL, NULL)
  BY <1>18, <1>19 DEF NamedBy
<1>21. Base(M, s3, NULL, NULL, NULL)
  BY <1>12, <1>16, <1>19, <1>20 DEF Base
<1>22. DOMAIN s3.node = M
  BY <1>16, TreeFields
<1>23. Steady(s3)
  BY <1>12, <1>21, <1>22 DEF Steady
<1>24. Readable(N, s, m, v, U) /\ Readable(M, s3, NULL, NULL, V)
  BY <1>3, <1>4, <1>13, <1>19, <1>20 DEF Sound, Readable
<1>25. \A x \in N \ {v} : g[x] = s.node[x].key /\ s3.node[g[x]].value = s.node[x].value
  BY <1>8, <1>14, <1>16 DEF NamesOf, DetachedInto, SameContent
<1>26. ASSUME NEW k \in Keys
       PROVE  ContentIn(s3)[k] = IF k = m THEN None ELSE ContentIn(s)[k]
  <2>1. /\ \A x \in N : s.node[x].key = k => ContentIn(s)[k] = s.node[x].value
        /\ (\A x \in N : s.node[x].key # k) => ContentIn(s)[k] = None
    BY <1>24, ContentIs
  <2>2. /\ \A x \in M : s3.node[x].key = k => ContentIn(s3)[k] = s3.node[x].value
        /\ (\A x \in M : s3.node[x].key # k) => ContentIn(s3)[k] = None
    BY <1>24, ContentIs
  <2>3. CASE k \in M
    <3>1. PICK x \in N \ {v} : g[x] = k
      BY <1>17, <2>3
    <3> QED
      BY <1>7, <1>18, <1>25, <2>1, <2>2, <2>3, <3>1
  <2>4. CASE k \notin M
    <3>1. ContentIn(s3)[k] = None
      BY <1>18, <2>2, <2>4
    <3>2. k # m => \A x \in N : s.node[x].key # k
      BY <1>3, <1>7, <2>4 DEF NamedBy
    <3> QED
      BY <2>1, <3>1, <3>2
  <2> QED
    BY <2>3, <2>4
<1>27. ContentIn(s3) = [ContentIn(s) EXCEPT ![m] = None]
  <2>1. /\ ContentIn(s3) = [k \in Keys |-> ContentIn(s3)[k]]
        /\ ContentIn(s) = [k \in Keys |-> ContentIn(s)[k]]
    BY DEF ContentIn
  <2> QED
    BY <1>26, <2>1
<1> QED
  BY <1>1, <1>5, <1>6, <1>7, <1>22, <1>23, <1>27 DEF Deleted
-----------------------------------------------------------------------------
(* The other nodes are before, or after, all of a subtree. *)
LEMMA Asunder ==
  ASSUME NEW N, NEW A, NEW B, NEW P, NEW r, NEW U, Shape(N, A, B, P, r, U),
         IsFiniteSet(N), Ordered(N, A, B, U, Less), NEW x \in N, NEW y \in N \ U[x]
  PROVE  (\A w \in U[x] : y < w) \/ (\A w \in U[x] : w < y)
<1> DEFINE Split(a, b) == (\A w \in U[a] : b < w) \/ (\A w \in U[a] : w < b)
           S == {z \in N : \A a \in U[z] : \A b \in U[z] \ U[a] : Split(a, b)}
<1>1. /\ NULL \notin N /\ U \in [N -> SUBSET N] /\ r \in N \cup {NULL} /\ Sub(U, r) = N
      /\ A \in [N -> N \cup {NULL}] /\ B \in [N -> N \cup {NULL}]
      /\ \A z \in N : SubtreeAt(A, B, U, z)
  BY DEF Shape, Typed
<1>2. ASSUME NEW z \in N, A[z] \in S \cup {NULL}, B[z] \in S \cup {NULL}
      PROVE  z \in S
  <2> SUFFICES ASSUME NEW a \in U[z], NEW b \in U[z] \ U[a] PROVE Split(a, b)
    OBVIOUS
  <2>1. U[z] = {z} \cup Sub(U, A[z]) \cup Sub(U, B[z])
    BY <1>1 DEF SubtreeAt
  <2>2. /\ \A w \in Sub(U, A[z]) : w \in Int /\ z \in Int /\ w < z
        /\ \A w \in Sub(U, B[z]) : w \in Int /\ z \in Int /\ z < w
    <3>1. /\ \A w \in Sub(U, A[z]) : <<w, z>> \in Less
          /\ \A w \in Sub(U, B[z]) : <<z, w>> \in Less
      BY DEF Ordered, OrderedAt
    <3> QED
      BY <1>1, <2>1, <3>1 DEF Less
  <2>3. a # z
    OBVIOUS
  <2>4. CASE a \in Sub(U, A[z])
    <3>1. A[z] \in S /\ Sub(U, A[z]) = U[A[z]] /\ A[z] \in N
      BY <1>2, <2>4 DEF Sub
    <3>2. U[a] \subseteq U[A[z]]
      BY <2>4, <3>1, Nested
    <3>3. b \in U[A[z]] => Split(a, b)
      BY <2>4, <3>1
    <3>4. b = z \/ b \in Sub(U, B[z]) => Split(a, b)
      <4>1. ASSUME b = z \/ b \in Sub(U, B[z]), NEW w \in U[a] PROVE w < b
        <5>1. w \in Int /\ z \in Int /\ w < z /\ (b = z \/ z < b) /\ b \in Int
          BY <2>2, <3>1, <3>2, <4>1
        <5> QED
          BY <5>1
      <4> QED
        BY <4>1
    <3> QED
      BY <2>1, <3>1, <3>3, <3>4
  <2>5. CASE a \in Sub(U, B[z])
    <3>1. B[z] \in S /\ Sub(U, B[z]) = U[B[z]] /\ B[z] \in N
      BY <1>2, <2>5 DEF Sub
    <3>2. U[a] \subseteq U[B[z]]
      BY <2>5, <3>1, Nested
    <3>3. b \in U[B[z]] => Split(a, b)
      BY <2>5, <3>1
    <3>4. b = z \/ b \in Sub(U, A[z]) => Split(a, b)
      <4>1. ASSUME b = z \/ b \in Sub(U, A[z]), NEW w \in U[a] PROVE b < w
        <5>1. w \in Int /\ z \in Int /\ z < w /\ (b = z \/ b < z) /\ b \in Int
          BY <2>2, <3>1, <3>2, <4>1
        <5> QED
          BY <5>1
      <4> QED
        BY <4>1
    <3> QED
      BY <2>1, <3>1, <3>3, <3>4
  <2> QED
    BY <2>1, <2>3, <2>4, <2>5
<1>3. N \subseteq S
  <2> HIDE DEF S
  <2>1. \A c \in N : (A[c] \in S \cup {NULL}) /\ (B[c] \in S \cup {NULL}) => c \in S
    BY <1>2
  <2> QED
    BY <2>1, TreeInduction
<1>4. r \in S /\ U[r] = N
  BY <1>1, <1>3 DEF Sub
<1> QED
  BY <1>4

(* z is the last node below y: where its right pointers lead. *)
LastBelow(B, U, y, z) == z \in U[y] /\ B[z] = NULL /\ \A w \in U[y] : <<w, z>> \in Less \/ w = z

(* The last node of a subtree. *)
LEMMA LastUp ==
  ASSUME NEW N, NEW A, NEW B, NEW P, NEW r, NEW U, Shape(N, A, B, P, r, U),
         Ordered(N, A, B, U, Less), NEW y \in N
  PROVE  /\ B[y] = NULL => LastBelow(B, U, y, y)
         /\ \A z : B[y] # NULL /\ LastBelow(B, U, B[y], z) => LastBelow(B, U, y, z)
<1>1. /\ U[y] = {y} \cup Sub(U, A[y]) \cup Sub(U, B[y]) /\ NULL \notin N /\ y \in N
      /\ Sub(U, A[y]) \subseteq N /\ Sub(U, B[y]) \subseteq N
  BY DEF Shape, Typed, SubtreeAt
<1>2. /\ \A w \in Sub(U, A[y]) : <<w, y>> \in Less
      /\ \A w \in Sub(U, B[y]) : <<y, w>> \in Less
  BY DEF Ordered, OrderedAt
<1>3. B[y] = NULL => LastBelow(B, U, y, y)
  <2> SUFFICES ASSUME B[y] = NULL PROVE LastBelow(B, U, y, y)
    OBVIOUS
  <2>1. U[y] = {y} \cup Sub(U, A[y])
    BY <1>1 DEF Sub
  <2> QED
    BY <1>2, <2>1 DEF LastBelow
<1>4. ASSUME NEW z, B[y] # NULL, LastBelow(B, U, B[y], z) PROVE LastBelow(B, U, y, z)
  <2>1. Sub(U, B[y]) = U[B[y]]
    BY <1>4 DEF Sub
  <2>2. z \in U[B[y]] /\ B[z] = NULL /\ \A w \in U[B[y]] : <<w, z>> \in Less \/ w = z
    BY <1>4 DEF LastBelow
  <2>3. z \in U[y] /\ <<y, z>> \in Less
    BY <1>1, <1>2, <2>1, <2>2
  <2>4. ASSUME NEW w \in Sub(U, A[y]) PROVE <<w, z>> \in Less
    <3>1. <<w, y>> \in Less
      BY <1>2
    <3>2. w \in Int /\ y \in Int /\ z \in Int /\ w < y /\ y < z
      BY <2>3, <3>1 DEF Less
    <3>3. w < z
      BY <3>2
    <3> QED
      BY <3>2, <3>3 DEF Less
  <2> QED
    BY <1>1, <2>1, <2>2, <2>3, <2>4 DEF LastBelow
<1> QED
  BY <1>3, <1>4

MaximumIn(s, x) ==
  LET from[y \in DOMAIN s.node] == IF s.node[y].right = NULL THEN y ELSE from[s.node[y].right]
  IN  from[x]

(* maximum_node (hextype_rbtree.cc:294) ends at the last node of a subtree. *)
LEMMA MaximumThere == \A x : maximum_node(x) = MaximumIn(t, x)
BY DEF maximum_node, MaximumIn, Nodes, right

LEMMA LastExists ==
  ASSUME NEW N, NEW A, NEW B, NEW P, NEW r, NEW U, Shape(N, A, B, P, r, U),
         IsFiniteSet(N), Ordered(N, A, B, U, Less)
  PROVE  \A y \in N : \E z : LastBelow(B, U, y, z)
<1> DEFINE S == {y \in N : \E z : LastBelow(B, U, y, z)}
<1>1. ASSUME NEW y \in N, A[y] \in S \cup {NULL}, B[y] \in S \cup {NULL} PROVE y \in S
  <2>1. /\ B[y] = NULL => LastBelow(B, U, y, y)
        /\ \A z : B[y] # NULL /\ LastBelow(B, U, B[y], z) => LastBelow(B, U, y, z)
    BY LastUp
  <2> QED
    BY <1>1, <2>1
<1>2. N \subseteq S
  <2> HIDE DEF S
  <2>1. \A c \in N : (A[c] \in S \cup {NULL}) /\ (B[c] \in S \cup {NULL}) => c \in S
    BY <1>1
  <2> QED
    BY <2>1, TreeInduction
<1> QED
  BY <1>2

(* A recursion down the right pointers ends at the last node. *)
LEMMA LastReached ==
  ASSUME NEW N, NEW A, NEW B, NEW P, NEW r, NEW U, Shape(N, A, B, P, r, U),
         IsFiniteSet(N), Ordered(N, A, B, U, Less),
         NEW f, f = [y \in N |-> IF B[y] = NULL THEN y ELSE f[B[y]]]
  PROVE  \A y \in N : LastBelow(B, U, y, f[y])
<1> DEFINE S == {y \in N : LastBelow(B, U, y, f[y])}
<1>1. ASSUME NEW y \in N, A[y] \in S \cup {NULL}, B[y] \in S \cup {NULL} PROVE y \in S
  <2>1. /\ B[y] = NULL => LastBelow(B, U, y, y)
        /\ \A z : B[y] # NULL /\ LastBelow(B, U, B[y], z) => LastBelow(B, U, y, z)
    BY LastUp
  <2>2. f[y] = IF B[y] = NULL THEN y ELSE f[B[y]]
    OBVIOUS
  <2> QED
    BY <1>1, <2>1, <2>2
<1>2. N \subseteq S
  <2> HIDE DEF S
  <2>1. \A c \in N : (A[c] \in S \cup {NULL}) /\ (B[c] \in S \cup {NULL}) => c \in S
    BY <1>1
  <2> QED
    BY <2>1, TreeInduction
<1> QED
  BY <1>2

LEMMA MaximumIsLast ==
  ASSUME NEW N \in SUBSET Int, NEW s \in Tree(N), IsFiniteSet(N), NEW U,
         Shape(N, Lefts(s), Rights(s), Parents(s), s.root, U),
         Ordered(N, Lefts(s), Rights(s), U, Less), NEW x \in N
  PROVE  LastBelow(Rights(s), U, x, MaximumIn(s, x))
<1>0. PICK B : B = Rights(s)
  OBVIOUS
<1> DEFINE Recursive(f) == f = [y \in N |-> IF B[y] = NULL THEN y ELSE f[B[y]]]
           from == CHOOSE f : f = [y \in DOMAIN s.node |->
                                     IF s.node[y].right = NULL THEN y ELSE f[s.node[y].right]]
           last == [y \in N |-> CHOOSE z : LastBelow(B, U, y, z)]
<1>1. /\ DOMAIN s.node = N /\ \A y \in N : B[y] = s.node[y].right
      /\ B \in [N -> N \cup {NULL}] /\ NULL \notin N /\ U \in [N -> SUBSET N]
  BY <1>0, TreeFields DEF Shape, Typed
<1>2. MaximumIn(s, x) = from[x]
  BY DEF MaximumIn
<1>3. \A f : Recursive(f) <=> f = [y \in DOMAIN s.node |->
                                     IF s.node[y].right = NULL THEN y ELSE f[s.node[y].right]]
  <2> TAKE f
  <2> DEFINE F(y) == IF B[y] = NULL THEN y ELSE f[B[y]]
             G(y) == IF s.node[y].right = NULL THEN y ELSE f[s.node[y].right]
  <2>1. \A y \in N : F(y) = G(y)
    BY <1>1
  <2> HIDE DEF F, G
  <2>2. [y \in N |-> F(y)] = [y \in DOMAIN s.node |-> G(y)]
    BY <1>1, <2>1
  <2> QED
    BY <2>2 DEF F, G
<1>4. \A y \in N : /\ B[y] = NULL => LastBelow(B, U, y, y)
                   /\ \A z : B[y] # NULL /\ LastBelow(B, U, B[y], z) => LastBelow(B, U, y, z)
  BY <1>0, LastUp
<1>5. \A y \in N : \E z : LastBelow(B, U, y, z)
  BY <1>0, LastExists
<1>6. \A y \in N : LastBelow(B, U, y, last[y])
  BY <1>5
<1>7. \A y \in N : \A z, w : LastBelow(B, U, y, z) /\ LastBelow(B, U, y, w) => z = w
  <2> TAKE y \in N
  <2> TAKE z, w
  <2> HAVE LastBelow(B, U, y, z) /\ LastBelow(B, U, y, w)
  <2>1. z \in U[y] /\ w \in U[y] /\ z \in Int /\ w \in Int
    BY <1>1 DEF LastBelow
  <2>2. (<<z, w>> \in Less \/ z = w) /\ (<<w, z>> \in Less \/ w = z)
    BY <2>1 DEF LastBelow
  <2> QED
    BY <2>1, <2>2 DEF Less
<1>8. last = [y \in N |-> last[y]]
  OBVIOUS
<1> HIDE DEF last
<1>9. Recursive(last)
  <2>1. ASSUME NEW y \in N PROVE last[y] = IF B[y] = NULL THEN y ELSE last[B[y]]
    BY <1>1, <1>4, <1>6, <1>7, ZenonT(60)
  <2> QED
    BY <1>8, <2>1
<1>10. Recursive(from)
  <2> HIDE DEF Recursive
  <2> QED
    BY <1>3, <1>9
<1> HIDE DEF from
<1>11. from = [y \in N |-> IF Rights(s)[y] = NULL THEN y ELSE from[Rights(s)[y]]]
  BY <1>0, <1>10
<1>12. \A y \in N : LastBelow(Rights(s), U, y, from[y])
  BY <1>11, LastReached
<1> QED
  BY <1>2, <1>12
-----------------------------------------------------------------------------
(* Node v, without a child B, comes right before m. *)
RightBefore(N, B, v, m) ==
  /\ v \in N /\ v # m /\ B[v] = NULL /\ <<v, m>> \in Less
  /\ \A y \in N : y = m \/ y = v \/ <<y, v>> \in Less \/ <<m, y>> \in Less

(* The last node of the left subtree of m does. *)
LEMMA Predecessor ==
  ASSUME NEW N, NEW A, NEW B, NEW P, NEW r, NEW U, Shape(N, A, B, P, r, U),
         N \in SUBSET Int, IsFiniteSet(N), Ordered(N, A, B, U, Less), NEW m \in N, A[m] # NULL,
         NEW v, LastBelow(B, U, A[m], v)
  PROVE  RightBefore(N, B, v, m)
<1>1. /\ A[m] \in N /\ m \in U[m] /\ NULL \notin N /\ m \notin U[A[m]]
      /\ U[A[m]] \subseteq N /\ U[m] = {m} \cup U[A[m]] \cup Sub(U, B[m])
  BY Kin DEF Shape, Typed, SubtreeAt, Sub
<1>2. v \in U[A[m]] /\ B[v] = NULL /\ \A w \in U[A[m]] : <<w, v>> \in Less \/ w = v
  BY DEF LastBelow
<1>3. /\ \A y \in U[A[m]] : <<y, m>> \in Less
      /\ \A y \in Sub(U, B[m]) : <<m, y>> \in Less
  BY <1>1 DEF Ordered, OrderedAt, Sub
<1>4. v \in N /\ v # m /\ <<v, m>> \in Less /\ v \in U[m]
  BY <1>1, <1>2, <1>3
<1>5. ASSUME NEW y \in N, y \notin U[m] PROVE <<y, v>> \in Less \/ <<m, y>> \in Less
  <2>1. (\A w \in U[m] : y < w) \/ (\A w \in U[m] : w < y)
    BY <1>5, Asunder
  <2>2. v \in Int /\ m \in Int
    BY <1>4 DEF Less
  <2>3. y \in Int
    BY <1>5
  <2> QED
    BY <1>1, <1>4, <2>1, <2>2, <2>3 DEF Less
<1>6. \A y \in N : y = m \/ y = v \/ <<y, v>> \in Less \/ <<m, y>> \in Less
  BY <1>1, <1>2, <1>3, <1>5
<1> QED
  BY <1>2, <1>4, <1>6 DEF RightBefore

(* What TakeOver leaves and what it makes of the names. *)
TakenOver(N, s, m, v, s2) ==
  /\ s2 \in Tree(N) /\ SameLinks(N, s, s2) /\ Colors(s2) = Colors(s)
  /\ \A z \in N : /\ s2.node[z].key = (IF z = m THEN s.node[v].key ELSE s.node[z].key)
                  /\ s2.node[z].value = (IF z = m THEN s.node[v].value ELSE s.node[z].value)

(* What TakeOver does: keys and values alone. *)
LEMMA TakeOverFields ==
  ASSUME NEW N, NEW s \in Tree(N), NEW m \in N, NEW v \in N
  PROVE  TakenOver(N, s, m, v, TakeOver(s, m, v))
<1> DEFINE s2 == TakeOver(s, m, v)
           Record == [key : Keys, value : Values, color : Color, left : N \cup {NULL},
                      right : N \cup {NULL}, parent : N \cup {NULL}]
<1>1. s.node[v].key \in Keys /\ s.node[v].value \in Values /\ \A z \in N : s.node[z] \in Record
  BY DEF Tree
<1>2. PICK a, b : a = s.node[v].key /\ b = s.node[v].value
  OBVIOUS
<1>3. /\ s2.root = s.root /\ DOMAIN s.node = N /\ s.root \in N \cup {NULL}
      /\ s2.node = [s.node EXCEPT ![m] = [s.node[m] EXCEPT !.key = a, !.value = b]]
      /\ DOMAIN s2 = {"root", "node"}
  BY <1>2 DEF TakeOver, Tree
<1>4. s2 = [root |-> s2.root, node |-> s2.node]
  <2>1. s2 = [s EXCEPT !.node[m].key = a, !.node[m].value = b]
    BY <1>2 DEF TakeOver
  <2> HIDE DEF s2
  <2> QED
    BY <2>1 DEF Tree
<1> HIDE DEF s2
<1>5. ASSUME NEW z \in N
      PROVE  /\ s2.node[z] \in Record
             /\ s2.node[z].left = s.node[z].left /\ s2.node[z].right = s.node[z].right
             /\ s2.node[z].parent = s.node[z].parent /\ s2.node[z].color = s.node[z].color
             /\ s2.node[z].key = (IF z = m THEN a ELSE s.node[z].key)
             /\ s2.node[z].value = (IF z = m THEN b ELSE s.node[z].value)
  <2>1. CASE z = m
    <3>1. s2.node[z] = [s.node[m] EXCEPT !.key = a, !.value = b]
      BY <1>3, <2>1
    <3>2. s.node[m] \in Record /\ a \in Keys /\ b \in Values
      BY <1>1, <1>2
    <3> QED
      BY <2>1, <3>1, <3>2
  <2>2. CASE z # m
    <3>1. s2.node[z] = s.node[z]
      BY <1>3, <2>2
    <3> QED
      BY <1>1, <2>2, <3>1
  <2> QED
    BY <2>1, <2>2
<1>6. DOMAIN s2.node = N /\ s2.node = [z \in N |-> s2.node[z]]
  BY <1>3
<1>7. s2 \in Tree(N)
  <2>1. s2.node \in [N -> Record]
    BY <1>5, <1>6
  <2> QED
    BY <1>3, <1>4, <2>1 DEF Tree
<1>8. /\ Lefts(s2) = Lefts(s) /\ Rights(s2) = Rights(s) /\ Parents(s2) = Parents(s)
      /\ Colors(s2) = Colors(s)
  BY <1>3, <1>5, <1>6 DEF Lefts, Rights, Parents, Colors
<1> QED
  BY <1>2, <1>3, <1>5, <1>7, <1>8 DEF TakenOver, SameLinks, s2
-----------------------------------------------------------------------------
(* What is known of a tree between calls. *)
SteadyKnown(N, s) ==
  /\ N = DOMAIN s.node /\ s \in Tree(N) /\ IsFiniteSet(N) /\ NULL \notin N
  /\ N \in SUBSET Keys /\ N \in SUBSET Int
  /\ \A x \in N : s.node[x].key = x
  /\ s.root \in N \cup {NULL} /\ (s.root # NULL => Colors(s)[s.root] = "BLACK")

(* The facts of Steady, with their witnesses. *)
LEMMA SteadyAt ==
  ASSUME NEW s, Steady(s), NEW N, N = DOMAIN s.node
  PROVE  /\ SteadyKnown(N, s) /\ Base(N, s, NULL, NULL, NULL)
         /\ \E U, H : Sound(N, s, NULL, NULL, NULL, U, H) /\ Readable(N, s, NULL, NULL, U)
<1>1. Base(N, s, NULL, NULL, NULL) /\ \E U, H : Sound(N, s, NULL, NULL, NULL, U, H)
  BY DEF Steady
<1>2. PICK U, H : Sound(N, s, NULL, NULL, NULL, U, H)
  BY <1>1
<1>3. /\ N \in SUBSET Keys /\ IsFiniteSet(N) /\ s \in Tree(N) /\ NamedBy(N, s, NULL, NULL)
      /\ s.root # NULL => Colors(s)[s.root] = "BLACK"
  BY <1>1 DEF Base
<1>4. NULL \notin N /\ s.root \in N \cup {NULL}
  BY <1>2 DEF Sound, Shape, Typed
<1>5. N \in SUBSET Int
  BY <1>3, KeysAssumption
<1>6. \A x \in N : s.node[x].key = x
  BY <1>3, <1>4 DEF NamedBy
<1>7. SteadyKnown(N, s)
  BY <1>3, <1>4, <1>5, <1>6 DEF SteadyKnown
<1>8. Readable(N, s, NULL, NULL, U)
  BY <1>2, <1>3 DEF Sound, Readable
<1> QED
  BY <1>1, <1>2, <1>7, <1>8

(* The look-up finds each key at the node of its name. *)
LEMMA SteadyFound ==
  ASSUME NEW s, Steady(s), NEW N, N = DOMAIN s.node, NEW k \in Keys
  PROVE  /\ k \in N => FoundIn(s, k) = k /\ ContentIn(s)[k] = s.node[k].value
         /\ k \notin N => FoundIn(s, k) = NULL /\ ContentIn(s)[k] = None
<1>1. SteadyKnown(N, s)
  BY SteadyAt
<1>2. PICK U : Readable(N, s, NULL, NULL, U)
  BY SteadyAt
<1>3. \A x \in N : s.node[x].key = x
  BY <1>1 DEF SteadyKnown
<1>4. k \in Int
  BY KeysAssumption
<1>5. /\ (\E x \in N : s.node[x].key = k) =>
           FoundIn(s, k) \in N /\ s.node[FoundIn(s, k)].key = k
      /\ (\A x \in N : s.node[x].key # k) => FoundIn(s, k) = NULL
  BY <1>2, <1>4, Found
<1>6. /\ \A x \in N : s.node[x].key = k => ContentIn(s)[k] = s.node[x].value
      /\ (\A x \in N : s.node[x].key # k) => ContentIn(s)[k] = None
  BY <1>2, ContentIs
<1>7. CASE k \in N
  <2>1. FoundIn(s, k) \in N /\ s.node[FoundIn(s, k)].key = k
    BY <1>3, <1>5, <1>7
  <2> QED
    BY <1>3, <1>6, <1>7, <2>1
<1>8. CASE k \notin N
  BY <1>3, <1>5, <1>6, <1>8
<1> QED
  BY <1>7, <1>8

(* Node v is to be deleted, and m has its key: v itself, or a node with two *)
(* children that has taken over key and value of v, its predecessor.        *)
Doomed(N, s, m, v) ==
  /\ Base(N, s, m, v, NULL) /\ m \in N /\ v \in N /\ NULL \notin N
  /\ \E U, H : Sound(N, s, NULL, NULL, NULL, U, H)
  /\ Lefts(s)[v] = NULL \/ Rights(s)[v] = NULL

(* The victim is the node of the key when that has a child missing, and else*)
(* its predecessor.                                                         *)
LEMMA DoomedItself ==
  ASSUME NEW s, Steady(s), NEW N, N = DOMAIN s.node, NEW m \in N,
         Lefts(s)[m] = NULL \/ Rights(s)[m] = NULL
  PROVE  Doomed(N, s, m, m)
<1>1. SteadyKnown(N, s)
  BY SteadyAt
<1>2. \E U, H : Sound(N, s, NULL, NULL, NULL, U, H)
  BY SteadyAt
<1>3. /\ s \in Tree(N) /\ IsFiniteSet(N) /\ NULL \notin N /\ N \in SUBSET Keys /\ N \in SUBSET Int
      /\ \A x \in N : s.node[x].key = x
      /\ s.root # NULL => Colors(s)[s.root] = "BLACK"
  BY <1>1 DEF SteadyKnown
<1>4. \A y \in N : y <= m \/ m <= y
  BY <1>3
<1>5. NamedBy(N, s, m, m)
  BY <1>3, <1>4 DEF NamedBy
<1>6. Base(N, s, m, m, NULL)
  BY <1>3, <1>5 DEF Base
<1> QED
  BY <1>2, <1>3, <1>6 DEF Doomed

LEMMA DoomedPredecessor ==
  ASSUME NEW s, Steady(s), NEW N, N = DOMAIN s.node, NEW m \in N,
         Lefts(s)[m] # NULL, NEW v, v = MaximumIn(s, Lefts(s)[m]),
         NEW s1, s1 = TakeOver(s, m, v)
  PROVE  /\ Doomed(N, s1, m, v) /\ Rights(s1)[v] = NULL /\ v # m
         /\ s1 \in Tree(N) /\ SameLinks(N, s, s1) /\ Colors(s1) = Colors(s)
         /\ ContentIn(s1) = [ContentIn(s) EXCEPT ![m] = None]
<1>1. SteadyKnown(N, s)
  BY SteadyAt
<1>2. PICK U, H : Sound(N, s, NULL, NULL, NULL, U, H) /\ Readable(N, s, NULL, NULL, U)
  BY SteadyAt
<1>3. /\ s \in Tree(N) /\ IsFiniteSet(N) /\ NULL \notin N /\ N \in SUBSET Keys /\ N \in SUBSET Int
      /\ \A x \in N : s.node[x].key = x
      /\ s.root # NULL => Colors(s)[s.root] = "BLACK"
  BY <1>1 DEF SteadyKnown
<1>4. /\ Shape(N, Lefts(s), Rights(s), Parents(s), s.root, U)
      /\ Ordered(N, Lefts(s), Rights(s), U, Less)
  BY <1>2 DEF Sound
<1>5. Lefts(s)[m] \in N
  BY <1>4 DEF Shape, Typed
<1>6. LastBelow(Rights(s), U, Lefts(s)[m], v)
  BY <1>3, <1>4, <1>5, MaximumIsLast
<1>7. /\ v \in N /\ v # m /\ Rights(s)[v] = NULL /\ <<v, m>> \in Less
      /\ \A y \in N : y = m \/ y = v \/ <<y, v>> \in Less \/ <<m, y>> \in Less
  <2>1. PICK A, B, P, r : A = Lefts(s) /\ B = Rights(s) /\ P = Parents(s) /\ r = s.root
    OBVIOUS
  <2>2. Shape(N, A, B, P, r, U) /\ Ordered(N, A, B, U, Less) /\ A[m] # NULL
    BY <1>4, <2>1
  <2>3. LastBelow(B, U, A[m], v) /\ IsFiniteSet(N) /\ N \in SUBSET Int
    BY <1>3, <1>6, <2>1
  <2>4. RightBefore(N, B, v, m)
    BY <2>2, <2>3, Predecessor
  <2> QED
    BY <2>1, <2>4 DEF RightBefore
<1>8. TakenOver(N, s, m, v, s1)
  BY <1>3, <1>7, TakeOverFields
<1>9. /\ s1 \in Tree(N) /\ SameLinks(N, s, s1) /\ Colors(s1) = Colors(s)
      /\ \A z \in N : /\ s1.node[z].key = (IF z = m THEN v ELSE z)
                      /\ s1.node[z].value = (IF z = m THEN s.node[v].value ELSE s.node[z].value)
  BY <1>3, <1>7, <1>8 DEF TakenOver
<1>10. v <= m /\ \A y \in N : y <= v \/ m <= y
  <2>1. m \in Int /\ v \in Int /\ v < m
    BY <1>3, <1>7 DEF Less
  <2>2. ASSUME NEW y \in N PROVE y <= v \/ m <= y
    <3>1. y \in Int /\ (y = m \/ y = v \/ y < v \/ m < y)
      BY <1>3, <1>7 DEF Less
    <3> QED
      BY <2>1, <3>1
  <2> QED
    BY <2>1, <2>2
<1>11. NamedBy(N, s1, m, v)
  BY <1>7, <1>9, <1>10 DEF NamedBy
<1>12. Base(N, s1, m, v, NULL)
  BY <1>3, <1>9, <1>11 DEF Base, SameLinks
<1>13. Sound(N, s1, NULL, NULL, NULL, U, H)
  BY <1>2, <1>9 DEF Sound, SameLinks
<1>14. Doomed(N, s1, m, v) /\ Rights(s1)[v] = NULL
  BY <1>3, <1>7, <1>9, <1>12, <1>13 DEF Doomed, SameLinks
<1>15. Readable(N, s1, m, v, U)
  BY <1>3, <1>11, <1>13 DEF Sound, Readable
<1>16. ASSUME NEW k \in Keys
       PROVE  ContentIn(s1)[k] = IF k = m THEN None ELSE ContentIn(s)[k]
  <2>1. /\ \A x \in N : s.node[x].key = k => ContentIn(s)[k] = s.node[x].value
        /\ (\A x \in N : s.node[x].key # k) => ContentIn(s)[k] = None
    BY <1>2, ContentIs
  <2>2. /\ \A x \in N : s1.node[x].key = k => ContentIn(s1)[k] = s1.node[x].value
        /\ (\A x \in N : s1.node[x].key # k) => ContentIn(s1)[k] = None
    BY <1>15, ContentIs
  <2>3. CASE k = m
    BY <1>7, <1>9, <2>2, <2>3
  <2>4. CASE k # m /\ k \in N
    BY <1>3, <1>9, <2>1, <2>2, <2>4
  <2>5. CASE k \notin N
    BY <1>3, <1>7, <1>9, <2>1, <2>2, <2>5
  <2> QED
    BY <2>3, <2>4, <2>5
<1>17. ContentIn(s1) = [ContentIn(s) EXCEPT ![m] = None]
  <2>1. /\ ContentIn(s1) = [k \in Keys |-> ContentIn(s1)[k]]
        /\ ContentIn(s) = [k \in Keys |-> ContentIn(s)[k]]
    BY DEF ContentIn
  <2> QED
    BY <1>16, <2>1
<1> QED
  BY <1>7, <1>9, <1>14, <1>17
-----------------------------------------------------------------------------
(* A black node v that is to go is given another colour: the way through it *)
(* lacks a black node.                                                      *)
LEMMA DropBlack ==
  ASSUME NEW N, NEW A, NEW B, NEW P, NEW r, NEW U, Shape(N, A, B, P, r, U), NEW v \in N,
         NEW C, NEW C2, C[v] = "BLACK", \A z \in N : z # v => C2[z] = C[z],
         NEW H, HeightsTyped(N, H), Balanced(N, A, B, C, NULL, NULL, NULL, H)
  PROVE  \E H2 : HeightsTyped(N, H2) /\ Balanced(N, A, B, C2, v, v, v, H2)
<1>1. /\ NULL \notin N
      /\ \A z \in N : /\ A[z] \in N \cup {NULL} /\ B[z] \in N \cup {NULL}
                      /\ A[z] # z /\ B[z] # z
  <2>1. NULL \notin N
    BY DEF Shape, Typed
  <2>2. ASSUME NEW z \in N
        PROVE  A[z] \in N \cup {NULL} /\ B[z] \in N \cup {NULL} /\ A[z] # z /\ B[z] # z
    BY Kin
  <2> QED
    BY <2>1, <2>2
<1> DEFINE h == Ht(H, NULL, A[v])
           H2 == [z \in N |-> IF z = v THEN h ELSE H[z]]
<1>2. h \in Nat
  BY <1>1 DEF Ht, HeightsTyped
<1>3. H[v] = h + 1
  BY <1>1 DEF Balanced, BalancedAt
<1> HIDE DEF h
<1>4. HeightsTyped(N, H2) /\ H2[v] = h /\ \A z \in N : z # v => H2[z] = H[z]
  BY <1>2 DEF HeightsTyped
<1> HIDE DEF H2
<1>5. ASSUME NEW c \in N \cup {NULL} PROVE Ht(H2, v, c) = Ht(H, NULL, c)
  <2>1. \A z \in N : H[z] \in Nat
    BY DEF HeightsTyped
  <2>2. CASE c = v
    BY <1>1, <1>2, <1>3, <1>4, <2>2 DEF Ht
  <2>3. CASE c # v
    BY <1>1, <1>4, <2>1, <2>3 DEF Ht
  <2> QED
    BY <2>2, <2>3
<1>6. \A c \in N \cup {NULL} : c # v => Col(C2, c) = Col(C, c)
  BY <1>1 DEF Col
<1>7. ASSUME NEW z \in N PROVE BalancedAt(A, B, C2, v, v, v, H2, z)
  <2>1. BalancedAt(A, B, C, NULL, NULL, NULL, H, z)
    BY DEF Balanced
  <2>2. /\ Ht(H, NULL, A[z]) = Ht(H, NULL, B[z])
        /\ H[z] = Ht(H, NULL, A[z]) + (IF C[z] = "BLACK" THEN 1 ELSE 0)
        /\ C[z] = "RED" => /\ A[z] # NULL => Col(C, A[z]) = "BLACK"
                           /\ B[z] # NULL => Col(C, B[z]) = "BLACK"
    BY <1>1, <2>1 DEF BalancedAt
  <2>3. Ht(H2, v, A[z]) = Ht(H, NULL, A[z]) /\ Ht(H2, v, B[z]) = Ht(H, NULL, B[z])
    BY <1>1, <1>5
  <2>4. CASE z = v
    <3>1. H2[z] = Ht(H, NULL, A[z]) + 0
      BY <1>2, <1>4, <2>4 DEF h
    <3> QED
      BY <2>2, <2>3, <2>4, <3>1 DEF BalancedAt
  <2>5. CASE z # v
    <3>1. C2[z] = C[z] /\ H2[z] = H[z]
      BY <1>4, <2>5
    <3>2. /\ C[z] = "RED" /\ A[z] # v => Col(C2, A[z]) = "BLACK"
          /\ C[z] = "RED" /\ B[z] # v => Col(C2, B[z]) = "BLACK"
      BY <1>1, <1>6, <2>2 DEF Col
    <3> QED
      BY <2>2, <2>3, <2>5, <3>1, <3>2 DEF BalancedAt
  <2> QED
    BY <2>4, <2>5
<1> QED
  BY <1>4, <1>7 DEF Balanced

(* A red node that is to go is missed by no height. *)
LEMMA DropRed ==
  ASSUME NEW N, NEW A, NEW B, NEW P, NEW r, NEW U, Shape(N, A, B, P, r, U), NEW v \in N,
         NEW C, C[v] = "RED", NEW H, Balanced(N, A, B, C, NULL, NULL, NULL, H)
  PROVE  /\ Balanced(N, A, B, C, v, v, NULL, H)
         /\ Col(C, A[v]) = "BLACK" /\ Col(C, B[v]) = "BLACK"
<1>1. NULL \notin N
  BY DEF Shape, Typed
<1>2. ASSUME NEW z \in N
      PROVE  /\ Ht(H, NULL, A[z]) = Ht(H, NULL, B[z])
             /\ H[z] = Ht(H, NULL, A[z]) + (IF C[z] = "BLACK" THEN 1 ELSE 0)
             /\ C[z] = "RED" => Col(C, A[z]) = "BLACK" /\ Col(C, B[z]) = "BLACK"
  <2>1. BalancedAt(A, B, C, NULL, NULL, NULL, H, z)
    BY DEF Balanced
  <2>2. Col(C, NULL) = "BLACK"
    BY DEF Col
  <2> QED
    BY <1>1, <2>1, <2>2 DEF BalancedAt
<1>3. ASSUME NEW z \in N PROVE BalancedAt(A, B, C, v, v, NULL, H, z)
  BY <1>2 DEF BalancedAt
<1> QED
  BY <1>2, <1>3 DEF Balanced

(* The frame with which the deletion of node v starts. *)
VictimFrame(s, v) ==
  [n |-> v, victim |-> v, child |-> IF Rights(s)[v] = NULL THEN Lefts(s)[v] ELSE Rights(s)[v]]

(* What DeleteInv and FinishInv ask of the victim. *)
LEMMA DoomedKnown ==
  ASSUME NEW N, NEW s, NEW m, NEW v, Doomed(N, s, m, v), NEW q, q.op = "delete", q.key = m,
         NEW f, f = VictimFrame(s, v)
  PROVE  /\ f.n = v /\ f.victim = v /\ f.child \in N \cup {NULL} /\ f \in Frames(N)
         /\ Request(N, s, f, q) /\ s \in Tree(N) /\ DOMAIN s.node = N
         /\ f.child # NULL => f.child \in {Lefts(s)[v], Rights(s)[v]}
<1>1. /\ Base(N, s, m, v, NULL) /\ m \in N /\ v \in N /\ NULL \notin N
      /\ \E U, H : Sound(N, s, NULL, NULL, NULL, U, H)
      /\ Lefts(s)[v] = NULL \/ Rights(s)[v] = NULL
  BY DEF Doomed
<1>2. f.n = v /\ f.victim = v
      /\ f.child = (IF Rights(s)[v] = NULL THEN Lefts(s)[v] ELSE Rights(s)[v])
  BY DEF VictimFrame
<1>3. s \in Tree(N)
  BY <1>1 DEF Base
<1>4. Lefts(s)[v] \in N \cup {NULL} /\ Rights(s)[v] \in N \cup {NULL} /\ DOMAIN s.node = N
  BY <1>1, <1>3, TreeFields
<1>5. OnlyChild(s, f)
  BY <1>1, <1>2 DEF OnlyChild
<1>6. s.root # NULL => Colors(s)[s.root] = "BLACK"
  BY <1>1 DEF Base
<1>7. Base(N, s, m, v, v)
  BY <1>1, <1>6 DEF Base
<1>8. Request(N, s, f, q)
  BY <1>1, <1>2, <1>5, <1>7 DEF Request
<1>9. f \in Frames(N)
  BY <1>1, <1>4 DEF VictimFrame, Frames
<1> QED
  BY <1>2, <1>3, <1>4, <1>8, <1>9

(* DeleteFound in a tree s: a red victim goes at once, a black one after the*)
(* cases.                                                                   *)
LEMMA VictimRed ==
  ASSUME NEW N, NEW s, NEW m, NEW v, Doomed(N, s, m, v), NEW q, q.op = "delete", q.key = m,
         NEW f, f = VictimFrame(s, v), Colors(s)[v] = "RED"
  PROVE  FinishInv(s, f, q)
<1>1. /\ f.n = v /\ f.victim = v /\ f.child \in N \cup {NULL}
      /\ Request(N, s, f, q) /\ DOMAIN s.node = N
      /\ f.child # NULL => f.child \in {Lefts(s)[v], Rights(s)[v]}
  BY DoomedKnown
<1>2. PICK U, H : Sound(N, s, NULL, NULL, NULL, U, H)
  BY DEF Doomed
<1>3. v \in N
  BY DEF Doomed
<1>4. /\ Shape(N, Lefts(s), Rights(s), Parents(s), s.root, U)
      /\ Balanced(N, Lefts(s), Rights(s), Colors(s), NULL, NULL, NULL, H)
  BY <1>2 DEF Sound
<1>5. /\ Balanced(N, Lefts(s), Rights(s), Colors(s), v, v, NULL, H)
      /\ Col(Colors(s), Lefts(s)[v]) = "BLACK" /\ Col(Colors(s), Rights(s)[v]) = "BLACK"
  BY <1>3, <1>4, DropRed
<1>6. Sound(N, s, v, v, NULL, U, H)
  BY <1>2, <1>5 DEF Sound
<1>7. ChildFits(s, f)
  BY <1>1, <1>5 DEF ChildFits, Col
<1> QED
  BY <1>1, <1>6, <1>7 DEF FinishInv

LEMMA VictimBlack ==
  ASSUME NEW N, NEW s, NEW m, NEW v, Doomed(N, s, m, v), NEW q, q.op = "delete", q.key = m,
         NEW f, f = VictimFrame(s, v), Colors(s)[v] = "BLACK",
         NEW s2, s2 = SetColor(s, v, Col(Colors(s), f.child))
  PROVE  DeleteNext("delete_case1", s, s2, f, q)
<1>1. /\ f.n = v /\ f.victim = v /\ f.child \in N \cup {NULL}
      /\ Request(N, s, f, q) /\ s \in Tree(N) /\ DOMAIN s.node = N
      /\ f.child # NULL => f.child \in {Lefts(s)[v], Rights(s)[v]}
  BY DoomedKnown
<1>2. PICK U, H : Sound(N, s, NULL, NULL, NULL, U, H)
  BY DEF Doomed
<1>3. v \in N /\ Base(N, s, m, v, NULL)
  BY DEF Doomed
<1>4. /\ Shape(N, Lefts(s), Rights(s), Parents(s), s.root, U) /\ HeightsTyped(N, H)
      /\ Balanced(N, Lefts(s), Rights(s), Colors(s), NULL, NULL, NULL, H)
  BY <1>2 DEF Sound
<1>5. PICK c : c = Col(Colors(s), f.child)
  OBVIOUS
<1>6. c \in Color
  <2>1. Colors(s) \in [N -> Color]
    BY <1>1, TreeFields
  <2> QED
    BY <1>1, <1>5, <2>1 DEF Col, Color
<1>7. ColorSet(N, s, v, c, s2)
  BY <1>1, <1>3, <1>5, <1>6, SetColorFields
<1>8. /\ s2 \in Tree(N) /\ SameLinks(N, s, s2) /\ SameContent(N, s, s2)
      /\ \A z \in N : z # v => Colors(s2)[z] = Colors(s)[z]
  <2>1. Colors(s) \in [N -> Color]
    BY <1>1, TreeFields
  <2> QED
    BY <1>7, <2>1 DEF ColorSet
<1>9. PICK H2 : HeightsTyped(N, H2) /\ Balanced(N, Lefts(s), Rights(s), Colors(s2), v, v, v, H2)
  BY <1>3, <1>4, <1>8, DropBlack
<1>10. Sound(N, s2, v, v, v, U, H2)
  BY <1>2, <1>8, <1>9 DEF Sound, SameLinks
<1>11. Base(N, s2, m, v, v)
  <2>1. s2.root # NULL /\ s2.root # v => Colors(s2)[s2.root] = "BLACK"
    <3>1. s.root \in N \cup {NULL} /\ s2.root = s.root
      BY <1>1, <1>8, TreeFields DEF SameLinks
    <3> QED
      BY <1>3, <1>8, <3>1 DEF Base
  <2> QED
    BY <1>3, <1>8, <2>1, KeepBase
<1>12. Request(N, s2, f, q)
  <2>1. OnlyChild(s2, f)
    BY <1>1, <1>8 DEF Request, OnlyChild, SameLinks
  <2> QED
    BY <1>1, <1>11, <2>1 DEF Request
<1>13. Below(s2, f, f.n, U)
  <2>1. v \in U[v] /\ (Lefts(s)[v] # NULL => Lefts(s)[v] \in U[v])
        /\ (Rights(s)[v] # NULL => Rights(s)[v] \in U[v])
    BY <1>3, <1>4, Kin DEF Shape, SubtreeAt
  <2> QED
    BY <1>1, <2>1 DEF Below
<1>14. ContentIn(s2) = ContentIn(s)
  BY <1>2, <1>3, <1>8, <1>10, KeepContent
<1>15. DOMAIN s2.node = N
  BY <1>8, TreeFields
<1>16. DeleteInv("delete_case1", s2, f, q)
  BY <1>1, <1>3, <1>10, <1>12, <1>13, <1>15 DEF DeleteInv
<1> QED
  BY <1>1, <1>14, <1>15, <1>16 DEF DeleteNext
-----------------------------------------------------------------------------
(* InsertNew, in a tree s. *)
AttachIn(s, k) ==
  CHOOSE x \in VisitedIn(s, k) :
    /\ s.node[x].key # k
    /\ (IF k < s.node[x].key THEN s.node[x].left ELSE s.node[x].right) = NULL

NewNode(k, w, p) ==
  [key |-> k, value |-> w, color |-> "RED", left |-> NULL, right |-> NULL, parent |-> p]

Grown(s, p, k, w) ==
  LET s1 == [s EXCEPT !.node = [x \in DOMAIN s.node \cup {k} |->
                                  IF x = k THEN NewNode(k, w, p) ELSE @[x]]]
  IN  IF p = NULL THEN [s1 EXCEPT !.root = k]
      ELSE IF k < s.node[p].key THEN [s1 EXCEPT !.node[p].left = k]
      ELSE [s1 EXCEPT !.node[p].right = k]

GrownInto(N, s, p, k, w, s2) ==
  LET M == N \cup {k}
  IN  /\ s2 \in Tree(M)
      /\ s2.root = IF p = NULL THEN k ELSE s.root
      /\ Lefts(s2) = [z \in M |-> IF z = k THEN NULL
                                  ELSE IF z = p /\ k < p THEN k ELSE Lefts(s)[z]]
      /\ Rights(s2) = [z \in M |-> IF z = k THEN NULL
                                   ELSE IF z = p /\ ~(k < p) THEN k ELSE Rights(s)[z]]
      /\ Parents(s2) = [z \in M |-> IF z = k THEN p ELSE Parents(s)[z]]
      /\ \A z \in M : /\ Colors(s2)[z] = (IF z = k THEN "RED" ELSE Colors(s)[z])
                      /\ s2.node[z].key = (IF z = k THEN k ELSE s.node[z].key)
                      /\ s2.node[z].value = (IF z = k THEN w ELSE s.node[z].value)

(* What InsertNew does to the pointers. *)
LEMMA GrownFields ==
  ASSUME NEW s, Steady(s), NEW N, N = DOMAIN s.node, NEW k \in Keys, k \notin N,
         NEW w \in Values, NEW p \in N \cup {NULL}, NEW s2, s2 = Grown(s, p, k, w)
  PROVE  GrownInto(N, s, p, k, w, s2)
<1>1. SteadyKnown(N, s)
  BY SteadyAt
<1>2. /\ s \in Tree(N) /\ NULL \notin N /\ \A x \in N : s.node[x].key = x
      /\ s.root \in N \cup {NULL}
  BY <1>1 DEF SteadyKnown
<1> DEFINE M == N \cup {k}
           Record == [key : Keys, value : Values, color : Color, left : M \cup {NULL},
                      right : M \cup {NULL}, parent : M \cup {NULL}]
<1>3. PICK nodes : nodes = [x \in M |-> IF x = k THEN NewNode(k, w, p) ELSE s.node[x]]
  OBVIOUS
<1>4. PICK s1 : s1 = [s EXCEPT !.node = nodes]
  OBVIOUS
<1>5. s1 = [root |-> s.root, node |-> nodes]
  BY <1>2, <1>4 DEF Tree
<1>6. s2 = IF p = NULL THEN [s1 EXCEPT !.root = k]
           ELSE IF k < p THEN [s1 EXCEPT !.node[p].left = k]
           ELSE [s1 EXCEPT !.node[p].right = k]
  <2>1. s1 = [s EXCEPT !.node = [x \in DOMAIN s.node \cup {k} |->
                                   IF x = k THEN NewNode(k, w, p) ELSE @[x]]]
    BY <1>3, <1>4
  <2>2. p # NULL => s.node[p].key = p
    BY <1>2
  <2> QED
    BY <2>1, <2>2 DEF Grown
<1>7. \A x \in N : s.node[x] \in Record
  BY <1>2 DEF Tree
<1>8. NewNode(k, w, p) \in Record
  BY DEF NewNode, Color
<1>9. \A x \in M : nodes[x] \in Record
  BY <1>3, <1>7, <1>8
<1>10. DOMAIN nodes = M
  BY <1>3
<1>11. /\ s2 = [root |-> s2.root, node |-> s2.node]
       /\ s2.root = IF p = NULL THEN k ELSE s.root
       /\ p = NULL => s2.node = nodes
       /\ p # NULL /\ k < p => s2.node = [nodes EXCEPT ![p] = [nodes[p] EXCEPT !.left = k]]
       /\ p # NULL /\ ~(k < p) => s2.node = [nodes EXCEPT ![p] = [nodes[p] EXCEPT !.right = k]]
  BY <1>5, <1>6
<1>12. ASSUME NEW z \in M
       PROVE  /\ s2.node[z] \in Record
              /\ s2.node[z].left = (IF z = p /\ p # NULL /\ k < p THEN k ELSE nodes[z].left)
              /\ s2.node[z].right = (IF z = p /\ p # NULL /\ ~(k < p) THEN k ELSE nodes[z].right)
              /\ s2.node[z].parent = nodes[z].parent /\ s2.node[z].color = nodes[z].color
              /\ s2.node[z].key = nodes[z].key /\ s2.node[z].value = nodes[z].value
  <2>1. nodes[z] \in Record
    BY <1>9
  <2>2. CASE z # p \/ p = NULL
    <3>1. s2.node[z] = nodes[z]
      BY <1>10, <1>11, <2>2
    <3> QED
      BY <2>1, <2>2, <3>1
  <2>3. CASE z = p /\ p # NULL /\ k < p
    <3>1. s2.node[z] = [nodes[p] EXCEPT !.left = k]
      BY <1>10, <1>11, <2>3
    <3> QED
      BY <2>1, <2>3, <3>1
  <2>4. CASE z = p /\ p # NULL /\ ~(k < p)
    <3>1. s2.node[z] = [nodes[p] EXCEPT !.right = k]
      BY <1>10, <1>11, <2>4
    <3> QED
      BY <2>1, <2>4, <3>1
  <2> QED
    BY <2>2, <2>3, <2>4
<1>13. DOMAIN s2.node = M /\ s2.node = [z \in M |-> s2.node[z]]
  <2>1. s2.node \in {nodes, [nodes EXCEPT ![p] = [nodes[p] EXCEPT !.left = k]],
                     [nodes EXCEPT ![p] = [nodes[p] EXCEPT !.right = k]]}
    BY <1>11
  <2> QED
    BY <1>10, <1>3, <2>1
<1>14. s2 \in Tree(M)
  <2>1. s2.node \in [M -> Record]
    BY <1>12, <1>13
  <2>2. s2.root \in M \cup {NULL}
    BY <1>2, <1>11
  <2> QED
    BY <1>11, <2>1, <2>2 DEF Tree
<1>15. /\ nodes[k] = NewNode(k, w, p) /\ k # p
       /\ \A z \in N : nodes[z] = s.node[z]
  BY <1>2, <1>3, KeysAssumption
<1>16. /\ nodes[k].left = NULL /\ nodes[k].right = NULL /\ nodes[k].parent = p
       /\ nodes[k].color = "RED" /\ nodes[k].key = k /\ nodes[k].value = w
  BY <1>15 DEF NewNode
<1>17. /\ \A z \in N : /\ Lefts(s)[z] = s.node[z].left /\ Rights(s)[z] = s.node[z].right
                       /\ Parents(s)[z] = s.node[z].parent /\ Colors(s)[z] = s.node[z].color
  BY <1>2, TreeFields
<1>18. ASSUME NEW z \in M
       PROVE  /\ s2.node[z].left = IF z = k THEN NULL
                                   ELSE IF z = p /\ k < p THEN k ELSE Lefts(s)[z]
              /\ s2.node[z].right = IF z = k THEN NULL
                                    ELSE IF z = p /\ ~(k < p) THEN k ELSE Rights(s)[z]
              /\ s2.node[z].parent = IF z = k THEN p ELSE Parents(s)[z]
              /\ s2.node[z].color = IF z = k THEN "RED" ELSE Colors(s)[z]
              /\ s2.node[z].key = IF z = k THEN k ELSE s.node[z].key
              /\ s2.node[z].value = IF z = k THEN w ELSE s.node[z].value
  <2>1. z # k => z \in N /\ nodes[z] = s.node[z] /\ z # NULL
    BY <1>2, <1>15
  <2> QED
    BY <1>12, <1>15, <1>16, <1>17, <2>1
<1> HIDE DEF M
<1>19. /\ Lefts(s2) = [z \in M |-> IF z = k THEN NULL
                                   ELSE IF z = p /\ k < p THEN k ELSE Lefts(s)[z]]
       /\ Rights(s2) = [z \in M |-> IF z = k THEN NULL
                                    ELSE IF z = p /\ ~(k < p) THEN k ELSE Rights(s)[z]]
       /\ Parents(s2) = [z \in M |-> IF z = k THEN p ELSE Parents(s)[z]]
  <2>1. /\ Lefts(s2) = [z \in M |-> s2.node[z].left]
        /\ Rights(s2) = [z \in M |-> s2.node[z].right]
        /\ Parents(s2) = [z \in M |-> s2.node[z].parent]
    BY <1>13 DEF Lefts, Rights, Parents
  <2>2. Lefts(s2) = [z \in M |-> IF z = k THEN NULL
                                 ELSE IF z = p /\ k < p THEN k ELSE Lefts(s)[z]]
    BY <1>18, <2>1
  <2>3. Rights(s2) = [z \in M |-> IF z = k THEN NULL
                                  ELSE IF z = p /\ ~(k < p) THEN k ELSE Rights(s)[z]]
    BY <1>18, <2>1
  <2>4. Parents(s2) = [z \in M |-> IF z = k THEN p ELSE Parents(s)[z]]
    BY <1>18, <2>1
  <2> QED
    BY <2>2, <2>3, <2>4
<1>20. \A z \in M : Colors(s2)[z] = (IF z = k THEN "RED" ELSE Colors(s)[z])
  BY <1>13, <1>18 DEF Colors
<1> QED
  BY <1>11, <1>14, <1>18, <1>19, <1>20 DEF GrownInto, M

(* Where an absent key belongs. *)
Place(N, s, U, p, k) ==
  /\ p \in N /\ p # k
  /\ (IF k < p THEN Lefts(s)[p] ELSE Rights(s)[p]) = NULL
  /\ \A z \in N : /\ p \in Sub(U, Lefts(s)[z]) => k < z
                  /\ p \in Sub(U, Rights(s)[z]) => z < k

(* The search for an absent key ends where its node belongs. *)
LEMMA AttachPlace ==
  ASSUME NEW s, Steady(s), NEW N, N = DOMAIN s.node, NEW k \in Keys, k \notin N,
         s.root # NULL, NEW U, Readable(N, s, NULL, NULL, U), NEW p, p = AttachIn(s, k)
  PROVE  Place(N, s, U, p, k)
<1>1. SteadyKnown(N, s)
  BY SteadyAt
<1>2. /\ s \in Tree(N) /\ IsFiniteSet(N) /\ NULL \notin N /\ \A x \in N : s.node[x].key = x
      /\ N \in SUBSET Int /\ s.root \in N
  BY <1>1 DEF SteadyKnown
<1>3. /\ Shape(N, Lefts(s), Rights(s), Parents(s), s.root, U)
  BY DEF Readable
<1>4. \A x \in N : Lefts(s)[x] = s.node[x].left /\ Rights(s)[x] = s.node[x].right
  BY <1>2, TreeFields
<1>5. KeyOf(s) \in [N -> Int] /\ (\A x \in N : KeyOf(s)[x] = x) /\ k \in Int
  BY <1>2, KeysAssumption DEF KeyOf
<1>6. VisitedIn(s, k) = Path(N, Lefts(s), Rights(s), KeyOf(s), U, k)[s.root]
  BY <1>2, <1>3, <1>5, VisitedIsPath
<1>7. PICK A, B, P, r, K : A = Lefts(s) /\ B = Rights(s) /\ P = Parents(s)
      /\ r = s.root /\ K = KeyOf(s)
  OBVIOUS
<1>8. Sub(U, r) = N
  BY <1>3, <1>7 DEF Shape
<1>9. \A x \in VisitedIn(s, k) :
        /\ x \in N
        /\ \A z \in N : /\ x \in Sub(U, A[z]) => k < z
                        /\ x \in Sub(U, B[z]) => z < k
  <2>1. VisitedIn(s, k) = {y \in Sub(U, r) : \A z \in Sub(U, r) :
                                /\ y \in Sub(U, A[z]) => k < K[z]
                                /\ y \in Sub(U, B[z]) => K[z] < k}
    BY <1>2, <1>6, <1>7 DEF Path
  <2> QED
    BY <1>5, <1>7, <1>8, <2>1
<1>10. \E x \in VisitedIn(s, k) : (IF k < K[x] THEN A[x] ELSE B[x]) = NULL
  <2>1. Shape(N, A, B, P, r, U) /\ IsFiniteSet(N) /\ r \in N
    BY <1>2, <1>3, <1>7
  <2>2. K \in [N -> Int] /\ k \in Int /\ \A y \in N : K[y] # k
    BY <1>5, <1>7
  <2>3. \E x \in Path(N, A, B, K, U, k)[r] : DeadEnd(A, B, K, k, x)
    BY <2>1, <2>2, PathEnds
  <2> QED
    BY <1>6, <1>7, <2>3 DEF DeadEnd
<1>11. PICK x \in VisitedIn(s, k) :
         /\ s.node[x].key # k
         /\ (IF k < s.node[x].key THEN s.node[x].left ELSE s.node[x].right) = NULL
  BY <1>2, <1>4, <1>5, <1>7, <1>9, <1>10
<1>12. /\ p \in VisitedIn(s, k) /\ s.node[p].key # k
       /\ (IF k < s.node[p].key THEN s.node[p].left ELSE s.node[p].right) = NULL
  BY <1>11 DEF AttachIn
<1> QED
  BY <1>2, <1>4, <1>7, <1>9, <1>12 DEF Place

(* The new node, red, is excepted from what is said of red nodes. *)
LEMMA GrownSound ==
  ASSUME NEW s, Steady(s), NEW N, N = DOMAIN s.node, NEW k \in Keys, k \notin N,
         NEW U, NEW H, Sound(N, s, NULL, NULL, NULL, U, H),
         NEW p, Place(N, s, U, p, k), NEW w, NEW s2, GrownInto(N, s, p, k, w, s2)
  PROVE  \E U2, H2 : Sound(N \cup {k}, s2, NULL, k, NULL, U2, H2)
<1> DEFINE M == N \cup {k}
<1>1. SteadyKnown(N, s)
  BY SteadyAt
<1>2. s \in Tree(N) /\ NULL \notin N /\ N \in SUBSET Int /\ k \in Int /\ k # NULL
  BY <1>1, KeysAssumption DEF SteadyKnown
<1>3. /\ p \in N /\ p # k /\ p # NULL
      /\ k < p => Lefts(s)[p] = NULL
      /\ ~(k < p) => Rights(s)[p] = NULL
      /\ \A z \in N : /\ p \in Sub(U, Lefts(s)[z]) => k < z
                      /\ p \in Sub(U, Rights(s)[z]) => z < k
  BY <1>2 DEF Place
<1>4. /\ s2 \in Tree(M) /\ s2.root = s.root
      /\ Lefts(s2) = [z \in M |-> IF z = k THEN NULL
                                  ELSE IF z = p /\ k < p THEN k ELSE Lefts(s)[z]]
      /\ Rights(s2) = [z \in M |-> IF z = k THEN NULL
                                   ELSE IF z = p /\ ~(k < p) THEN k ELSE Rights(s)[z]]
      /\ Parents(s2) = [z \in M |-> IF z = k THEN p ELSE Parents(s)[z]]
      /\ \A z \in M : Colors(s2)[z] = (IF z = k THEN "RED" ELSE Colors(s)[z])
  BY <1>3 DEF GrownInto
<1>5. PICK A, B, E, A2, B2 :
        /\ Faced(s, A, B, E) /\ Faced(s2, A2, B2, E)
        /\ \/ /\ k < p /\ A = Lefts(s) /\ B = Rights(s) /\ E = Less
              /\ A2 = Lefts(s2) /\ B2 = Rights(s2)
           \/ /\ ~(k < p) /\ A = Rights(s) /\ B = Lefts(s) /\ E = Greater
              /\ A2 = Rights(s2) /\ B2 = Lefts(s2)
  <2>1. CASE k < p
    BY <2>1 DEF Faced
  <2>2. CASE ~(k < p)
    BY <2>2 DEF Faced
  <2> QED
    BY <2>1, <2>2
<1>6. /\ Shape(N, A, B, Parents(s), s.root, U) /\ Ordered(N, A, B, U, E)
      /\ HeightsTyped(N, H) /\ Balanced(N, A, B, Colors(s), NULL, NULL, NULL, H)
  BY <1>5, View
<1>7. /\ A \in [N -> N \cup {NULL}] /\ B \in [N -> N \cup {NULL}]
      /\ Parents(s) \in [N -> N \cup {NULL}]
  BY <1>6 DEF Shape, Typed
<1>8. /\ A[p] = NULL
      /\ A2 \in [M -> N \cup {k, NULL}] /\ B2 \in [M -> N \cup {k, NULL}]
      /\ Parents(s2) \in [M -> N \cup {k, NULL}]
      /\ A2[k] = NULL /\ B2[k] = NULL /\ Parents(s2)[k] = p
      /\ \A z \in N : /\ A2[z] = (IF z = p THEN k ELSE A[z]) /\ B2[z] = B[z]
                      /\ Parents(s2)[z] = Parents(s)[z]
  <2>1. Parents(s2) \in [M -> N \cup {k, NULL}] /\ Parents(s2)[k] = p
        /\ \A z \in N : Parents(s2)[z] = Parents(s)[z]
    BY <1>3, <1>4, <1>7
  <2>2. CASE k < p
    BY <1>2, <1>3, <1>4, <1>5, <1>7, <2>1, <2>2
  <2>3. CASE ~(k < p)
    BY <1>2, <1>3, <1>4, <1>5, <1>7, <2>1, <2>3
  <2> QED
    BY <2>2, <2>3
<1>9. Attached(N, A, B, Parents(s), p, k, A2, B2, Parents(s2))
  BY <1>2, <1>3, <1>8 DEF Attached
<1>10. /\ <<k, p>> \in E
       /\ \A z \in N : /\ p \in Sub(U, A[z]) => <<k, z>> \in E
                       /\ p \in Sub(U, B[z]) => <<z, k>> \in E
  <2>1. p \in Int /\ \A z \in N : z \in Int
    BY <1>2, <1>3
  <2>2. CASE k < p
    BY <1>2, <1>3, <1>5, <2>1, <2>2 DEF Less
  <2>3. CASE ~(k < p)
    <3>1. p < k
      BY <1>2, <1>3, <2>1, <2>3
    <3> QED
      BY <1>2, <1>3, <1>5, <2>1, <2>3, <3>1 DEF Greater
  <2> QED
    BY <2>2, <2>3
<1>11. PICK V : V = AttachedSubtrees(N, U, p, k)
  OBVIOUS
<1>12. Shape(M, A2, B2, Parents(s2), s2.root, V)
  BY <1>4, <1>6, <1>9, <1>11, AttachShape
<1>13. Ordered(M, A2, B2, V, E)
  BY <1>6, <1>9, <1>10, <1>11, AttachOrder
<1>14. \E H2 : HeightsTyped(M, H2) /\ Balanced(M, A2, B2, Colors(s2), NULL, k, NULL, H2)
  <2>1. Colors(s2)[k] = "RED" /\ \A z \in N : Colors(s2)[z] = Colors(s)[z]
    BY <1>4
  <2> QED
    BY <1>6, <1>9, <2>1, AttachBalance
<1>15. PICK H2 : HeightsTyped(M, H2) /\ Balanced(M, A2, B2, Colors(s2), NULL, k, NULL, H2)
  BY <1>14
<1>16. M \in SUBSET Int
  BY <1>2
<1> HIDE DEF M
<1>17. Sound(M, s2, NULL, k, NULL, V, H2)
  BY <1>4, <1>5, <1>12, <1>13, <1>15, <1>16, Review
<1> QED
  BY <1>17 DEF M

(* The first node of a tree is its root. *)
LEMMA GrownAlone ==
  ASSUME NEW s, Steady(s), NEW N, N = DOMAIN s.node, NEW k \in Keys, s.root = NULL,
         NEW w, NEW s2, GrownInto(N, s, NULL, k, w, s2)
  PROVE  \E U2, H2 : Sound(N \cup {k}, s2, NULL, k, NULL, U2, H2)
<1>1. SteadyKnown(N, s)
  BY SteadyAt
<1>2. PICK U : Readable(N, s, NULL, NULL, U)
  BY SteadyAt
<1>3. N = {}
  <2>1. Sub(U, s.root) = N
    BY <1>2 DEF Readable, Shape
  <2> QED
    BY <2>1 DEF Sub
<1>4. k \in Int /\ k # NULL
  BY KeysAssumption
<1>5. /\ s2 \in Tree({k}) /\ s2.root = k
      /\ Lefts(s2) = [z \in {k} |-> NULL] /\ Rights(s2) = [z \in {k} |-> NULL]
      /\ Parents(s2) = [z \in {k} |-> NULL] /\ Colors(s2)[k] = "RED"
  BY <1>3, <1>4 DEF GrownInto
<1> DEFINE V == [z \in {k} |-> {k}]
           H2 == [z \in {k} |-> 0]
<1>6. Shape({k}, Lefts(s2), Rights(s2), Parents(s2), s2.root, V)
  <2>1. Typed({k}, Lefts(s2), Rights(s2), Parents(s2), s2.root)
    BY <1>4, <1>5 DEF Typed
  <2>2. V \in [{k} -> SUBSET {k}] /\ Sub(V, s2.root) = {k} /\ Parents(s2)[s2.root] = NULL
    BY <1>4, <1>5 DEF Sub
  <2>3. \A z \in {k} : LinkedAt(Lefts(s2), Rights(s2), Parents(s2), s2.root, z)
    BY <1>5 DEF LinkedAt
  <2>4. \A z \in {k} : SubtreeAt(Lefts(s2), Rights(s2), V, z)
    BY <1>5 DEF SubtreeAt, Sub
  <2> HIDE DEF V
  <2> QED
    BY <2>1, <2>2, <2>3, <2>4 DEF Shape
<1>7. Ordered({k}, Lefts(s2), Rights(s2), V, Less)
  BY <1>5 DEF Ordered, OrderedAt, Sub
<1>8. HeightsTyped({k}, H2)
  BY DEF HeightsTyped
<1>9. Balanced({k}, Lefts(s2), Rights(s2), Colors(s2), NULL, k, NULL, H2)
  BY <1>4, <1>5 DEF Balanced, BalancedAt, Ht, Col
<1> HIDE DEF V, H2
<1>10. {k} \in SUBSET Int
  BY <1>4
<1>11. Sound({k}, s2, NULL, k, NULL, V, H2)
  BY <1>5, <1>6, <1>7, <1>8, <1>9, <1>10 DEF Sound
<1> QED
  BY <1>3, <1>11

(* InsertNew and InsertExisting in a tree s. *)
LEMMA InsertFresh ==
  ASSUME NEW s, Steady(s), NEW N, N = DOMAIN s.node, NEW k \in Keys, k \notin N,
         NEW w \in Values, NEW p, p = IF s.root = NULL THEN NULL ELSE AttachIn(s, k),
         NEW s2, s2 = Grown(s, p, k, w),
         NEW q, q.op = "insert", q.key = k, q.value = w
  PROVE  /\ InsertInv("insert_case1", s2, k, q) /\ DOMAIN s2.node = N \cup {k}
         /\ ContentIn(s2) = [ContentIn(s) EXCEPT ![k] = w]
<1> DEFINE M == N \cup {k}
<1>1. SteadyKnown(N, s)
  BY SteadyAt
<1>2. PICK U, H : Sound(N, s, NULL, NULL, NULL, U, H) /\ Readable(N, s, NULL, NULL, U)
  BY SteadyAt
<1>3. /\ s \in Tree(N) /\ IsFiniteSet(N) /\ NULL \notin N /\ N \in SUBSET Keys /\ N \in SUBSET Int
      /\ \A x \in N : s.node[x].key = x
      /\ s.root \in N \cup {NULL} /\ (s.root # NULL => Colors(s)[s.root] = "BLACK")
  BY <1>1 DEF SteadyKnown
<1>4. s.root # NULL => Place(N, s, U, p, k)
  BY <1>2, AttachPlace
<1>5. p \in N \cup {NULL} /\ (p = NULL <=> s.root = NULL)
  BY <1>3, <1>4 DEF Place
<1>6. GrownInto(N, s, p, k, w, s2)
  BY <1>5, GrownFields
<1>7. \E U2, H2 : Sound(M, s2, NULL, k, NULL, U2, H2)
  <2>1. CASE s.root = NULL
    <3>1. GrownInto(N, s, NULL, k, w, s2)
      BY <1>5, <1>6, <2>1
    <3> QED
      BY <2>1, <3>1, GrownAlone
  <2>2. CASE s.root # NULL
    BY <1>2, <1>4, <1>6, <2>2, GrownSound
  <2> QED
    BY <2>1, <2>2
<1>8. PICK U2, H2 : Sound(M, s2, NULL, k, NULL, U2, H2)
  BY <1>7
<1>9. /\ s2 \in Tree(M) /\ s2.root = IF p = NULL THEN k ELSE s.root
      /\ \A z \in M : /\ Colors(s2)[z] = (IF z = k THEN "RED" ELSE Colors(s)[z])
                      /\ s2.node[z].key = (IF z = k THEN k ELSE s.node[z].key)
                      /\ s2.node[z].value = (IF z = k THEN w ELSE s.node[z].value)
  BY <1>6 DEF GrownInto
<1>10. /\ DOMAIN s2.node = M /\ M \in SUBSET Keys /\ IsFiniteSet(M) /\ k # NULL /\ NULL \notin M
  <2>1. IsFiniteSet(M)
    BY <1>3, FS_AddElement
  <2> QED
    BY <1>3, <1>9, <2>1, TreeFields, KeysAssumption
<1>11. \A z \in M : s2.node[z].key = z
  BY <1>3, <1>9
<1>12. NamedBy(M, s2, NULL, NULL)
  BY <1>10, <1>11 DEF NamedBy
<1>13. s2.root # NULL /\ s2.root # k => Colors(s2)[s2.root] = "BLACK"
  BY <1>3, <1>5, <1>9
<1>14. Base(M, s2, NULL, NULL, k)
  BY <1>9, <1>10, <1>12, <1>13 DEF Base
<1>15. Readable(M, s2, NULL, NULL, U2)
  BY <1>8, <1>10, <1>12 DEF Sound, Readable
<1>16. ASSUME NEW x \in Keys PROVE ContentIn(s2)[x] = IF x = k THEN w ELSE ContentIn(s)[x]
  <2>1. /\ \A y \in N : s.node[y].key = x => ContentIn(s)[x] = s.node[y].value
        /\ (\A y \in N : s.node[y].key # x) => ContentIn(s)[x] = None
    BY <1>2, ContentIs
  <2>2. /\ \A y \in M : s2.node[y].key = x => ContentIn(s2)[x] = s2.node[y].value
        /\ (\A y \in M : s2.node[y].key # x) => ContentIn(s2)[x] = None
    BY <1>15, ContentIs
  <2>3. CASE x \in M
    BY <1>3, <1>9, <1>11, <2>1, <2>2, <2>3
  <2>4. CASE x \notin M
    BY <1>3, <1>11, <2>1, <2>2, <2>4
  <2> QED
    BY <2>3, <2>4
<1>17. ContentIn(s2) = [ContentIn(s) EXCEPT ![k] = w]
  <2>1. /\ ContentIn(s2) = [x \in Keys |-> ContentIn(s2)[x]]
        /\ ContentIn(s) = [x \in Keys |-> ContentIn(s)[x]]
    BY DEF ContentIn
  <2> QED
    BY <1>16, <2>1
<1>18. /\ ContentIn(s2)[k] = w /\ k \in M /\ Colors(s2)[k] = "RED"
  BY <1>9, <1>16
<1>19. InsertInv("insert_case1", s2, k, q)
  BY <1>8, <1>10, <1>14, <1>18, SMTT(30) DEF InsertInv
<1> QED
  BY <1>10, <1>17, <1>19

LEMMA InsertOver ==
  ASSUME NEW s, Steady(s), NEW N, N = DOMAIN s.node, NEW k \in Keys, k \in N,
         NEW w \in Values, NEW s2, s2 = [s EXCEPT !.node[k].value = w],
         NEW q, q.op = "insert", q.key = k, q.value = w
  PROVE  /\ Returning(s2, q) /\ DOMAIN s2.node = N
         /\ ContentIn(s2) = [ContentIn(s) EXCEPT ![k] = w]
<1> DEFINE Record == [key : Keys, value : Values, color : Color, left : N \cup {NULL},
                      right : N \cup {NULL}, parent : N \cup {NULL}]
<1>1. SteadyKnown(N, s)
  BY SteadyAt
<1>2. PICK U, H : Sound(N, s, NULL, NULL, NULL, U, H) /\ Readable(N, s, NULL, NULL, U)
  BY SteadyAt
<1>3. /\ s \in Tree(N) /\ IsFiniteSet(N) /\ NULL \notin N /\ N \in SUBSET Keys
      /\ \A x \in N : s.node[x].key = x
      /\ s.root # NULL => Colors(s)[s.root] = "BLACK"
  BY <1>1 DEF SteadyKnown
<1>4. s2 \in Tree(N)
  BY <1>3, SMTT(30) DEF Tree
<1>5. s2.root = s.root /\ s2.node = [s.node EXCEPT ![k] = [s.node[k] EXCEPT !.value = w]]
  BY <1>3 DEF Tree
<1>6. ASSUME NEW z \in N
      PROVE  /\ s2.node[z].left = s.node[z].left /\ s2.node[z].right = s.node[z].right
             /\ s2.node[z].parent = s.node[z].parent /\ s2.node[z].color = s.node[z].color
             /\ s2.node[z].key = s.node[z].key
             /\ s2.node[z].value = (IF z = k THEN w ELSE s.node[z].value)
  <2>1. s.node[z] \in Record
    BY <1>3 DEF Tree
  <2> QED
    BY <1>5, <2>1
<1>7. DOMAIN s2.node = N
  BY <1>5
<1>8. /\ Lefts(s2) = Lefts(s) /\ Rights(s2) = Rights(s) /\ Parents(s2) = Parents(s)
      /\ Colors(s2) = Colors(s)
  BY <1>6, <1>7 DEF Lefts, Rights, Parents, Colors
<1>9. Sound(N, s2, NULL, NULL, NULL, U, H)
  BY <1>2, <1>4, <1>5, <1>8 DEF Sound
<1>10. NamedBy(N, s2, NULL, NULL)
  BY <1>3, <1>6 DEF NamedBy
<1>11. Base(N, s2, NULL, NULL, NULL)
  BY <1>3, <1>4, <1>5, <1>8, <1>10 DEF Base
<1>12. Steady(s2)
  BY <1>7, <1>9, <1>11 DEF Steady
<1>13. \A x \in Keys : ContentIn(s2)[x] = IF x = k THEN w ELSE ContentIn(s)[x]
  <2> TAKE x \in Keys
  <2>1. /\ x \in N => ContentIn(s)[x] = s.node[x].value
        /\ x \notin N => ContentIn(s)[x] = None
    BY SteadyFound
  <2>2. /\ x \in N => ContentIn(s2)[x] = s2.node[x].value
        /\ x \notin N => ContentIn(s2)[x] = None
    BY <1>7, <1>12, SteadyFound
  <2> QED
    BY <1>6, <2>1, <2>2
<1>14. ContentIn(s2) = [ContentIn(s) EXCEPT ![k] = w]
  <2>1. /\ ContentIn(s2) = [x \in Keys |-> ContentIn(s2)[x]]
        /\ ContentIn(s) = [x \in Keys |-> ContentIn(s)[x]]
    BY DEF ContentIn
  <2> QED
    BY <1>13, <2>1
<1>15. Returning(s2, q)
  BY <1>12, <1>13 DEF Returning
<1> QED
  BY <1>7, <1>14, <1>15
-----------------------------------------------------------------------------
(* The steps of the program. *)
LEMMA Framed ==
  ASSUME NEW N, NEW f \in Frames(N), NEW x \in N \cup {NULL}, NEW f2, f2 = [f EXCEPT !.n = x]
  PROVE  /\ f2 \in Frames(N) /\ f2.n = x /\ f2.victim = f.victim /\ f2.child = f.child
         /\ x = f.n => f2 = f
<1>1. f = [n |-> f.n, victim |-> f.victim, child |-> f.child]
  BY DEF Frames
<1>2. f.n \in N \cup {NULL} /\ f.victim \in N \cup {NULL} /\ f.child \in N \cup {NULL}
  BY DEF Frames
<1>3. f2 = [n |-> x, victim |-> f.victim, child |-> f.child]
  BY <1>1
<1> QED
  BY <1>1, <1>2, <1>3 DEF Frames

(* A step that arrives at a case whose invariant holds of the new tree keeps*)
(* Inv.                                                                     *)
LEMMA Arrives ==
  ASSUME NEW s, NEW f \in Frames(DOMAIN s.node), NEW q, NEW p
  PROVE  /\ Returning(s, q) => InvOf("return", s, f, q)
         /\ FinishInv(s, f, q) => InvOf("delete_finish", s, f, q)
         /\ p \in InsertCases /\ InsertInv(p, s, f.n, q) => InvOf(p, s, f, q)
         /\ p \in DeleteCases /\ DeleteInv(p, s, f, q) => InvOf(p, s, f, q)
BY DEF InvOf

LEMMA Departs ==
  ASSUME NEW s, NEW f, NEW q, NEW p, InvOf(p, s, f, q)
  PROVE  /\ f \in Frames(DOMAIN s.node)
         /\ p = "idle" => f = NoFrame /\ q = NoRequest /\ Steady(s)
         /\ p = "return" => Returning(s, q)
         /\ p = "delete_finish" => FinishInv(s, f, q)
         /\ p \in InsertCases => InsertInv(p, s, f.n, q)
         /\ p \in DeleteCases => DeleteInv(p, s, f, q)
BY DEF InvOf, InsertCases, DeleteCases

(* A step inside a call leaves content and call as they are. *)
Kept == Inv' /\ ContentIn(t') = ContentIn(t) /\ req' = req

LEMMA InsertReady ==
  ASSUME Inv, NEW p \in InsertCases, pc = p
  PROVE  /\ InsertInv(p, t, frame.n, req) /\ frame \in Frames(Nodes)
         /\ t \in Tree(Nodes) /\ frame.n \in Nodes /\ NULL \notin Nodes
         /\ Parents(t)[frame.n] \in Nodes \cup {NULL}
<1>1. InvOf(p, t, frame, req)
  BY DEF Inv
<1>2. InsertInv(p, t, frame.n, req) /\ frame \in Frames(Nodes)
  BY <1>1, Departs DEF Nodes
<1>3. PICK N : N = DOMAIN t.node
  OBVIOUS
<1>4. t \in Tree(N) /\ frame.n \in N /\ NULL \notin N /\ Parents(t)[frame.n] \in N \cup {NULL}
  BY <1>2, <1>3, InsertAt
<1> QED
  BY <1>2, <1>3, <1>4 DEF Nodes

LEMMA InsertArrives ==
  ASSUME frame \in Frames(Nodes), NEW x \in Nodes, NEW p, pc' = p,
         frame' = [frame EXCEPT !.n = x], req' = req, DOMAIN t'.node = DOMAIN t.node,
         ContentIn(t') = ContentIn(t),
         \/ p = "return" /\ Returning(t', req)
         \/ p \in InsertCases /\ InsertInv(p, t', x, req)
  PROVE  Kept
<1>1. PICK f2 : f2 = frame'
  OBVIOUS
<1>2. f2 \in Frames(Nodes) /\ f2.n = x
  BY <1>1, Framed
<1>3. frame' \in Frames(DOMAIN t'.node) /\ frame'.n = x
  BY <1>1, <1>2 DEF Nodes
<1>4. InvOf(p, t', frame', req)
  BY <1>3, Arrives
<1> QED
  BY <1>4 DEF Kept, Inv

(* Each action keeps Inv, and changes the content as a call may: the cases  *)
(* of the insertion.                                                        *)
LEMMA StepInsert1 ==
  ASSUME Inv, insert_case1
  PROVE  Kept
<1>1. pc = "insert_case1" /\ "insert_case1" \in InsertCases
  BY DEF insert_case1, At, InsertCases
<1>2. /\ InsertInv("insert_case1", t, frame.n, req) /\ frame \in Frames(Nodes)
      /\ t \in Tree(Nodes) /\ frame.n \in Nodes
  BY <1>1, InsertReady
<1>3. parent(n) = Parents(t)[frame.n] /\ n = frame.n
  BY <1>2, Reads DEF n
<1>4. CASE Parents(t)[frame.n] = NULL
  <2>1. t' = SetColor(t, frame.n, "BLACK") /\ Goto("return", frame.n)
    BY <1>3, <1>4 DEF insert_case1
  <2>2. /\ Returning(t', req) /\ ContentIn(t') = ContentIn(t)
        /\ DOMAIN t'.node = DOMAIN t.node
    BY <1>2, <1>4, <2>1, Insert1Root
  <2> QED
    BY <1>2, <2>1, <2>2, InsertArrives DEF Goto
<1>5. CASE Parents(t)[frame.n] # NULL
  <2>1. t' = t /\ Goto("insert_case2", frame.n)
    BY <1>3, <1>5 DEF insert_case1
  <2>2. InsertInv("insert_case2", t', frame.n, req)
    BY <1>2, <1>5, <2>1, Insert1Up
  <2> QED
    BY <1>2, <2>1, <2>2, InsertArrives DEF Goto, InsertCases
<1> QED
  BY <1>4, <1>5

LEMMA StepInsert2 ==
  ASSUME Inv, insert_case2
  PROVE  Kept
<1>1. pc = "insert_case2" /\ "insert_case2" \in InsertCases /\ t' = t
  BY DEF insert_case2, At, InsertCases
<1>2. /\ InsertInv("insert_case2", t, frame.n, req) /\ frame \in Frames(Nodes)
      /\ t \in Tree(Nodes) /\ frame.n \in Nodes /\ NULL \notin Nodes
      /\ Parents(t)[frame.n] \in Nodes
  BY <1>1, InsertReady DEF InsertInv
<1>3. node_color(parent(n)) = Colors(t)[Parents(t)[frame.n]] /\ n = frame.n
  BY <1>2, Reads DEF n, Col, Pointer
<1>4. CASE Colors(t)[Parents(t)[frame.n]] = "BLACK"
  <2>1. Goto("return", frame.n)
    BY <1>3, <1>4 DEF insert_case2
  <2>2. Returning(t', req)
    BY <1>1, <1>2, <1>4, Insert2Return
  <2> QED
    BY <1>1, <1>2, <2>1, <2>2, InsertArrives DEF Goto
<1>5. CASE Colors(t)[Parents(t)[frame.n]] = "RED"
  <2>1. Goto("insert_case3", frame.n)
    BY <1>3, <1>5 DEF insert_case2
  <2>2. InsertInv("insert_case3", t', frame.n, req)
    BY <1>1, <1>2, <1>5, Insert2Up
  <2> QED
    BY <1>1, <1>2, <2>1, <2>2, InsertArrives DEF Goto, InsertCases
<1>6. Colors(t)[Parents(t)[frame.n]] \in Color
  BY <1>2, TreeFields
<1> QED
  BY <1>4, <1>5, <1>6 DEF Color

LEMMA Turns ==
  ASSUME NEW N, NEW s, NEW s1, Recoloured(N, s, s1), NEW x
  PROVE  /\ Turned(s1, Lefts(s), Rights(s), Less, x, rotate_left(s1, x))
         /\ Turned(s1, Rights(s), Lefts(s), Greater, x, rotate_right(s1, x))
BY DEF Recoloured, SameLinks, Turned

LEMMA SiblingReads ==
  ASSUME t \in Tree(Nodes), NEW x \in Nodes, Parents(t)[x] \in Nodes
  PROVE  sibling(x) = Sibling(t, x) /\ Sibling(t, x) \in Pointer
<1>1. PICK p \in Nodes : p = Parents(t)[x]
  OBVIOUS
<1>2. parent(x) = p /\ left(p) = Lefts(t)[p] /\ right(p) = Rights(t)[p]
  BY <1>1, Reads
<1>3. Lefts(t)[p] \in Pointer /\ Rights(t)[p] \in Pointer
  BY TreeFields DEF Pointer
<1> QED
  BY <1>1, <1>2, <1>3 DEF sibling, Sibling

(* The parent y and the grandparent g of the node that was inserted. *)
LEMMA InsertKin ==
  ASSUME Inv, NEW p \in {"insert_case3", "insert_case4", "insert_case5"}, pc = p
  PROVE  /\ InsertInv(p, t, frame.n, req) /\ frame \in Frames(Nodes)
         /\ t \in Tree(Nodes) /\ n = frame.n /\ frame.n \in Nodes /\ NULL \notin Nodes
         /\ \E y, g \in Nodes :
              /\ y = Parents(t)[frame.n] /\ g = Parents(t)[y]
              /\ parent(n) = y /\ grandparent(n) = g
              /\ uncle(n) = Sibling(t, y) /\ Sibling(t, y) \in Pointer
<1>1. p \in InsertCases
  BY DEF InsertCases
<1>2. /\ InsertInv(p, t, frame.n, req) /\ frame \in Frames(Nodes)
      /\ t \in Tree(Nodes) /\ frame.n \in Nodes /\ NULL \notin Nodes
  BY <1>1, InsertReady
<1>3. PICK N : N = DOMAIN t.node
  OBVIOUS
<1>4. Parents(t)[frame.n] \in N /\ Parents(t)[Parents(t)[frame.n]] \in N
  BY <1>2, <1>3, RedHasParent
<1>5. PICK y, g \in Nodes : y = Parents(t)[frame.n] /\ g = Parents(t)[y]
  BY <1>3, <1>4 DEF Nodes
<1>6. parent(n) = y /\ grandparent(n) = g /\ n = frame.n
  BY <1>2, <1>5, Reads DEF n, grandparent
<1>7. uncle(n) = Sibling(t, y) /\ Sibling(t, y) \in Pointer
  BY <1>2, <1>5, <1>6, SiblingReads DEF uncle
<1> QED
  BY <1>2, <1>5, <1>6, <1>7

LEMMA StepInsert3 ==
  ASSUME Inv, insert_case3
  PROVE  Kept
<1>1. pc = "insert_case3"
  BY DEF insert_case3, At
<1>2. /\ InsertInv("insert_case3", t, frame.n, req) /\ frame \in Frames(Nodes)
      /\ t \in Tree(Nodes) /\ n = frame.n /\ frame.n \in Nodes
  BY <1>1, InsertKin
<1>3. PICK y, g \in Nodes :
         /\ y = Parents(t)[frame.n] /\ g = Parents(t)[y]
         /\ parent(n) = y /\ grandparent(n) = g
         /\ uncle(n) = Sibling(t, y) /\ Sibling(t, y) \in Pointer
  BY <1>1, InsertKin
<1>4. PICK u : u = Sibling(t, y)
  OBVIOUS
<1>5. node_color(uncle(n)) = Col(Colors(t), u)
  BY <1>2, <1>3, <1>4, Reads
<1>6. CASE Col(Colors(t), u) = "RED"
  <2>1. /\ t' = SetColor(SetColor(SetColor(t, y, "BLACK"), u, "BLACK"), g, "RED")
        /\ Goto("insert_case1", g)
    BY <1>3, <1>4, <1>5, <1>6 DEF insert_case3
  <2>2. PICK s2 : s2 = t'
    OBVIOUS
  <2>3. /\ InsertInv("insert_case1", s2, g, req) /\ ContentIn(s2) = ContentIn(t)
        /\ DOMAIN s2.node = DOMAIN t.node
    BY <1>2, <1>3, <1>4, <1>6, <2>1, <2>2, Insert3Up
  <2> QED
    BY <1>2, <2>1, <2>2, <2>3, InsertArrives DEF Goto, InsertCases
<1>7. CASE Col(Colors(t), u) # "RED"
  <2>1. Col(Colors(t), u) = "BLACK"
    BY <1>2, <1>3, <1>4, <1>7, TreeFields DEF Col, Pointer, Color
  <2>2. t' = t /\ Goto("insert_case4", frame.n)
    BY <1>2, <1>5, <1>7 DEF insert_case3
  <2>3. InsertInv("insert_case4", t', frame.n, req)
    BY <1>2, <1>3, <1>4, <2>1, <2>2, Insert3Down
  <2> QED
    BY <1>2, <2>2, <2>3, InsertArrives DEF Goto, InsertCases
<1> QED
  BY <1>6, <1>7

LEMMA StepInsert4 ==
  ASSUME Inv, insert_case4
  PROVE  Kept
<1>1. pc = "insert_case4"
  BY DEF insert_case4, At
<1>2. /\ InsertInv("insert_case4", t, frame.n, req) /\ frame \in Frames(Nodes)
      /\ t \in Tree(Nodes) /\ n = frame.n /\ frame.n \in Nodes
  BY <1>1, InsertKin
<1>3. PICK y, g \in Nodes :
         /\ y = Parents(t)[frame.n] /\ g = Parents(t)[y]
         /\ parent(n) = y /\ grandparent(n) = g
         /\ uncle(n) = Sibling(t, y) /\ Sibling(t, y) \in Pointer
  BY <1>1, InsertKin
<1>4. /\ left(parent(n)) = Lefts(t)[y] /\ right(parent(n)) = Rights(t)[y]
      /\ left(grandparent(n)) = Lefts(t)[g] /\ right(grandparent(n)) = Rights(t)[g]
  BY <1>2, <1>3, Reads
<1>5. PICK x : x = frame.n
  OBVIOUS
<1>6. Recoloured(Nodes, t, t)
  BY <1>2 DEF Recoloured, SameLinks, SameContent
<1>7. PICK s2 : s2 = t'
  OBVIOUS
<1>8. CASE x = Rights(t)[y] /\ y = Lefts(t)[g]
  <2>1. t' = rotate_left(t, y) /\ Goto("insert_case5", t'.node[x].left)
    BY <1>2, <1>3, <1>4, <1>5, <1>8 DEF insert_case4
  <2>2. Turned(t, Lefts(t), Rights(t), Less, y, s2) /\ Faced(t, Lefts(t), Rights(t), Less)
    BY <1>6, <1>7, <2>1, Turns DEF Faced
  <2>3. Ancestors(t, Rights(t), Lefts(t), x, y, g)
    BY <1>3, <1>5, <1>8 DEF Ancestors
  <2>4. /\ InsertInv("insert_case5", s2, y, req) /\ s2.node[x].left = y
        /\ ContentIn(s2) = ContentIn(t) /\ DOMAIN s2.node = DOMAIN t.node
    BY <1>2, <1>5, <2>2, <2>3, Insert4Turn
  <2> QED
    BY <1>2, <1>7, <2>1, <2>4, InsertArrives DEF Goto, InsertCases
<1>9. CASE ~(x = Rights(t)[y] /\ y = Lefts(t)[g]) /\ x = Lefts(t)[y] /\ y = Rights(t)[g]
  <2>1. t' = rotate_right(t, y) /\ Goto("insert_case5", t'.node[x].right)
    BY <1>2, <1>3, <1>4, <1>5, <1>9 DEF insert_case4
  <2>2. Turned(t, Rights(t), Lefts(t), Greater, y, s2) /\ Faced(t, Rights(t), Lefts(t), Greater)
    BY <1>6, <1>7, <2>1, Turns DEF Faced
  <2>3. Ancestors(t, Lefts(t), Rights(t), x, y, g)
    BY <1>3, <1>5, <1>9 DEF Ancestors
  <2>4. /\ InsertInv("insert_case5", s2, y, req) /\ s2.node[x].right = y
        /\ ContentIn(s2) = ContentIn(t) /\ DOMAIN s2.node = DOMAIN t.node
    BY <1>2, <1>5, <2>2, <2>3, Insert4Turn
  <2> QED
    BY <1>2, <1>7, <2>1, <2>4, InsertArrives DEF Goto, InsertCases
<1>10. CASE /\ ~(x = Rights(t)[y] /\ y = Lefts(t)[g])
            /\ ~(x = Lefts(t)[y] /\ y = Rights(t)[g])
  <2>1. t' = t /\ Goto("insert_case5", x)
    BY <1>2, <1>3, <1>4, <1>5, <1>10 DEF insert_case4
  <2>2. InsertInv("insert_case5", t', x, req)
    BY <1>2, <1>3, <1>5, <1>10, <2>1, Insert4Down
  <2> QED
    BY <1>2, <1>5, <2>1, <2>2, InsertArrives DEF Goto, InsertCases
<1> QED
  BY <1>8, <1>9, <1>10

LEMMA StepInsert5 ==
  ASSUME Inv, insert_case5
  PROVE  Kept
<1>1. pc = "insert_case5"
  BY DEF insert_case5, At
<1>2. /\ InsertInv("insert_case5", t, frame.n, req) /\ frame \in Frames(Nodes)
      /\ t \in Tree(Nodes) /\ n = frame.n /\ frame.n \in Nodes
  BY <1>1, InsertKin
<1>3. PICK y, g \in Nodes :
         /\ y = Parents(t)[frame.n] /\ g = Parents(t)[y]
         /\ parent(n) = y /\ grandparent(n) = g
         /\ uncle(n) = Sibling(t, y) /\ Sibling(t, y) \in Pointer
  BY <1>1, InsertKin
<1>4. left(parent(n)) = Lefts(t)[y] /\ left(grandparent(n)) = Lefts(t)[g]
  BY <1>2, <1>3, Reads
<1>5. PICK x : x = frame.n
  OBVIOUS
<1>6. PICK s1, s2 : s1 = SetColor(SetColor(t, y, "BLACK"), g, "RED") /\ s2 = t'
  OBVIOUS
<1>7. Recoloured(Nodes, t, s1)
  <2>1. "BLACK" \in Color /\ "RED" \in Color
    BY DEF Color
  <2> QED
    BY <1>2, <1>6, <2>1, RecolouredTwice
<1>8. ASSUME NEW A, NEW B, NEW E, Faced(t, A, B, E), Ancestors(t, B, B, x, y, g),
             Turned(s1, A, B, E, g, s2)
      PROVE  Returning(s2, req) /\ ContentIn(s2) = ContentIn(t) /\ DOMAIN s2.node = DOMAIN t.node
  BY <1>2, <1>5, <1>6, <1>8, Insert5Turn
<1>9. Returning(s2, req) /\ ContentIn(s2) = ContentIn(t) /\ DOMAIN s2.node = DOMAIN t.node
  <2>1. CASE x = Lefts(t)[y] /\ y = Lefts(t)[g]
    <3>1. s2 = rotate_right(s1, g)
      BY <1>2, <1>3, <1>4, <1>5, <1>6, <2>1 DEF insert_case5
    <3>2. Turned(s1, Rights(t), Lefts(t), Greater, g, s2) /\ Faced(t, Rights(t), Lefts(t), Greater)
      BY <1>7, <3>1, Turns DEF Faced
    <3>3. Ancestors(t, Lefts(t), Lefts(t), x, y, g)
      BY <1>3, <1>5, <2>1 DEF Ancestors
    <3> QED
      BY <1>8, <3>2, <3>3
  <2>2. CASE ~(x = Lefts(t)[y] /\ y = Lefts(t)[g])
    <3>1. s2 = rotate_left(s1, g)
      BY <1>2, <1>3, <1>4, <1>5, <1>6, <2>2 DEF insert_case5
    <3>2. Turned(s1, Lefts(t), Rights(t), Less, g, s2) /\ Faced(t, Lefts(t), Rights(t), Less)
      BY <1>7, <3>1, Turns DEF Faced
    <3>3. x = Rights(t)[y] /\ y = Rights(t)[g]
      BY <1>2, <1>3, <1>5, <2>2 DEF InsertInv
    <3>4. Ancestors(t, Rights(t), Rights(t), x, y, g)
      BY <1>3, <1>5, <3>3 DEF Ancestors
    <3> QED
      BY <1>8, <3>2, <3>4
  <2> QED
    BY <2>1, <2>2
<1>10. Goto("return", frame.n)
  BY <1>2 DEF insert_case5
<1> QED
  BY <1>2, <1>6, <1>9, <1>10, InsertArrives DEF Goto

LEMMA DeleteReady ==
  ASSUME Inv, NEW p \in DeleteCases, pc = p
  PROVE  /\ DeleteInv(p, t, frame, req) /\ frame \in Frames(Nodes)
         /\ t \in Tree(Nodes) /\ n = frame.n /\ frame.n \in Nodes /\ NULL \notin Nodes
         /\ Parents(t)[frame.n] \in Pointer /\ parent(n) = Parents(t)[frame.n]
<1>1. InvOf(p, t, frame, req)
  BY DEF Inv
<1>2. DeleteInv(p, t, frame, req) /\ frame \in Frames(Nodes)
  BY <1>1, Departs DEF Nodes
<1>3. PICK N : N = DOMAIN t.node
  OBVIOUS
<1>4. DeleteKnown(N, t, frame, req)
  BY <1>2, <1>3, DeleteAt
<1>5. t \in Tree(N) /\ frame.n \in N /\ NULL \notin N /\ Parents(t)[frame.n] \in N \cup {NULL}
  BY <1>4 DEF DeleteKnown
<1>6. t \in Tree(Nodes) /\ frame.n \in Nodes /\ n = frame.n
  BY <1>3, <1>5 DEF Nodes, n
<1>7. parent(n) = Parents(t)[frame.n]
  BY <1>6, Reads
<1> QED
  BY <1>2, <1>3, <1>5, <1>6, <1>7 DEF Nodes, Pointer

LEMMA DeleteArrives ==
  ASSUME frame \in Frames(Nodes), NEW x \in Nodes, NEW p, pc' = p,
         frame' = [frame EXCEPT !.n = x], req' = req,
         NEW f2, f2 = frame', NEW s2, s2 = t',
         \/ p \in DeleteCases /\ DeleteNext(p, t, s2, f2, req)
         \/ p = "delete_finish" /\ DeleteEnds(t, s2, f2, req)
  PROVE  Kept
<1>1. f2 \in Frames(Nodes)
  BY Framed
<1>2. f2 \in Frames(DOMAIN s2.node) /\ ContentIn(s2) = ContentIn(t)
  BY <1>1 DEF Nodes, DeleteNext, DeleteEnds
<1>3. /\ p = "delete_finish" => FinishInv(s2, f2, req)
      /\ p # "delete_finish" => p \in DeleteCases /\ DeleteInv(p, s2, f2, req)
  BY DEF DeleteNext, DeleteEnds, DeleteCases
<1>4. InvOf(p, s2, f2, req)
  BY <1>2, <1>3, Arrives
<1> QED
  BY <1>2, <1>4 DEF Kept, Inv

(* A case that ends where it began. *)
LEMMA FrameStays ==
  ASSUME frame \in Frames(Nodes), frame.n \in Nodes
  PROVE  [frame EXCEPT !.n = frame.n] = frame
<1>1. PICK f2 : f2 = [frame EXCEPT !.n = frame.n]
  OBVIOUS
<1>2. frame.n \in Nodes \cup {NULL}
  OBVIOUS
<1> QED
  BY <1>1, <1>2, Framed

(* The cases of the deletion. *)
LEMMA StepDelete1 ==
  ASSUME Inv, delete_case1
  PROVE  Kept
<1>1. pc = "delete_case1" /\ "delete_case1" \in DeleteCases /\ t' = t
  BY DEF delete_case1, At, DeleteCases
<1>2. /\ DeleteInv("delete_case1", t, frame, req) /\ frame \in Frames(Nodes)
      /\ frame.n \in Nodes /\ n = frame.n /\ parent(n) = Parents(t)[frame.n]
  BY <1>1, DeleteReady
<1>3. [frame EXCEPT !.n = frame.n] = frame
  BY <1>2, FrameStays
<1>4. CASE Parents(t)[frame.n] = NULL
  <2>1. Goto("delete_finish", frame.n)
    BY <1>2, <1>4 DEF delete_case1
  <2>2. DeleteEnds(t, t', frame', req)
    BY <1>1, <1>2, <1>3, <1>4, <2>1, Delete1End DEF DeleteEnds, Goto
  <2> QED
    BY <1>2, <2>1, <2>2, DeleteArrives DEF Goto
<1>5. CASE Parents(t)[frame.n] # NULL
  <2>1. Goto("delete_case2", frame.n)
    BY <1>2, <1>5 DEF delete_case1
  <2>2. DeleteNext("delete_case2", t, t', frame', req)
    BY <1>1, <1>2, <1>3, <1>5, <2>1, Delete1Up DEF DeleteNext, Goto
  <2> QED
    BY <1>2, <2>1, <2>2, DeleteArrives DEF Goto, DeleteCases
<1> QED
  BY <1>4, <1>5

(* The parent a and the sibling y of the node that lacks a black node. *)
Siblings(A, B, E, a, y) ==
  /\ a \in Nodes /\ y \in Nodes /\ A[y] \in Pointer /\ B[y] \in Pointer
  /\ parent(n) = a /\ sibling(n) = y
  /\ y = Sibling(t, frame.n) /\ A[y] = Near(t, frame.n) /\ B[y] = Far(t, frame.n)
  /\ \/ n = left(parent(n)) /\ A[y] = left(y) /\ B[y] = right(y)
        /\ A = Lefts(t) /\ B = Rights(t) /\ E = Less
     \/ n # left(parent(n)) /\ n = right(parent(n)) /\ A[y] = right(y) /\ B[y] = left(y)
        /\ A = Rights(t) /\ B = Lefts(t) /\ E = Greater

LEMMA DeleteKin ==
  ASSUME Inv, NEW p \in DeleteCases, p # "delete_case1", pc = p
  PROVE  \E U, H, A, B, E, a, y :
           Facing(Nodes, t, frame, U, H, A, B, E, a, y) /\ Siblings(A, B, E, a, y)
<1>1. /\ DeleteInv(p, t, frame, req) /\ frame \in Frames(Nodes)
      /\ t \in Tree(Nodes) /\ n = frame.n /\ frame.n \in Nodes /\ NULL \notin Nodes
      /\ parent(n) = Parents(t)[frame.n]
  BY DeleteReady
<1>2. PICK U, H, A, B, E, a, y : Facing(Nodes, t, frame, U, H, A, B, E, a, y)
  BY <1>1, DeleteFacing DEF Nodes
<1>3. /\ Lacking(Nodes, t, frame.victim, frame.n, U, H, A, B, E, a, y)
      /\ Apart(Nodes, t, frame.victim, frame.n, U, A, B, a, y)
      /\ a = Parents(t)[frame.n] /\ y = Sibling(t, frame.n)
      /\ A[y] = Near(t, frame.n) /\ B[y] = Far(t, frame.n)
      /\ \/ frame.n = Lefts(t)[a] /\ A = Lefts(t) /\ B = Rights(t) /\ E = Less
         \/ /\ frame.n # Lefts(t)[a] /\ frame.n = Rights(t)[a]
            /\ A = Rights(t) /\ B = Lefts(t) /\ E = Greater
  BY <1>2 DEF Facing
<1>4. a \in Nodes /\ y \in Nodes /\ A[y] \in Pointer /\ B[y] \in Pointer
  BY <1>3 DEF Lacking, Apart, Pointer
<1>5. sibling(n) = y
  BY <1>1, <1>3, <1>4, SiblingReads
<1>6. /\ left(a) = Lefts(t)[a] /\ right(a) = Rights(t)[a]
      /\ left(y) = Lefts(t)[y] /\ right(y) = Rights(t)[y]
  BY <1>1, <1>4, Reads
<1>7. Siblings(A, B, E, a, y)
  BY <1>1, <1>3, <1>4, <1>5, <1>6 DEF Siblings
<1> QED
  BY <1>2, <1>7

LEMMA SiblingColors ==
  ASSUME t \in Tree(Nodes), NULL \notin Nodes, NEW A, NEW B, NEW E, NEW a, NEW y,
         Siblings(A, B, E, a, y)
  PROVE  /\ node_color(parent(n)) = Colors(t)[a] /\ node_color(sibling(n)) = Col(Colors(t), y)
         /\ node_color(A[y]) = Col(Colors(t), A[y]) /\ node_color(B[y]) = Col(Colors(t), B[y])
         /\ Colors(t)[a] \in Color /\ Colors(t)[y] \in Color
         /\ Col(Colors(t), y) = Colors(t)[y]
         /\ BlackSibling <=> BlackFamily(t, frame.n)
<1>1. /\ a \in Nodes /\ y \in Nodes /\ A[y] \in Pointer /\ B[y] \in Pointer
      /\ parent(n) = a /\ sibling(n) = y
      /\ y = Sibling(t, frame.n) /\ A[y] = Near(t, frame.n) /\ B[y] = Far(t, frame.n)
      /\ \/ A[y] = left(y) /\ B[y] = right(y)
         \/ A[y] = right(y) /\ B[y] = left(y)
  BY DEF Siblings
<1>2. /\ node_color(a) = Col(Colors(t), a) /\ node_color(y) = Col(Colors(t), y)
      /\ node_color(A[y]) = Col(Colors(t), A[y]) /\ node_color(B[y]) = Col(Colors(t), B[y])
  BY <1>1, Reads DEF Pointer
<1>3. Colors(t)[a] \in Color /\ Colors(t)[y] \in Color
  BY <1>1, TreeFields
<1>4. BlackSibling <=> BlackFamily(t, frame.n)
  BY <1>1, <1>2 DEF BlackSibling, BlackFamily
<1> QED
  BY <1>1, <1>2, <1>3, <1>4 DEF Col

LEMMA StepDelete2 ==
  ASSUME Inv, delete_case2
  PROVE  Kept
<1>1. pc = "delete_case2" /\ "delete_case2" \in DeleteCases /\ Goto("delete_case3", n)
  BY DEF delete_case2, At, DeleteCases
<1>2. /\ DeleteInv("delete_case2", t, frame, req) /\ frame \in Frames(Nodes)
      /\ t \in Tree(Nodes) /\ n = frame.n /\ frame.n \in Nodes /\ NULL \notin Nodes
  BY <1>1, DeleteReady
<1>3. PICK U, H, A, B, E, a, y :
        Facing(Nodes, t, frame, U, H, A, B, E, a, y) /\ Siblings(A, B, E, a, y)
  BY <1>1, DeleteKin
<1>4. node_color(sibling(n)) = Col(Colors(t), y)
  BY <1>2, <1>3, SiblingColors
<1>5. /\ a \in Nodes /\ y \in Nodes /\ parent(n) = a /\ sibling(n) = y
      /\ y = Sibling(t, frame.n)
      /\ \/ n = left(parent(n)) /\ A = Lefts(t) /\ B = Rights(t) /\ E = Less
         \/ n # left(parent(n)) /\ A = Rights(t) /\ B = Lefts(t) /\ E = Greater
  BY <1>3 DEF Siblings
<1>6. PICK s2 : s2 = t'
  OBVIOUS
<1>7. [frame EXCEPT !.n = frame.n] = frame
  BY <1>2, FrameStays
<1>8. DeleteNext("delete_case3", t, s2, frame, req)
  <2>1. CASE Col(Colors(t), y) = "RED"
    <3>1. PICK s1 : s1 = SetColor(SetColor(t, a, "RED"), y, "BLACK")
      OBVIOUS
    <3>2. "BLACK" \in Color /\ "RED" \in Color
      BY DEF Color
    <3>3. Recoloured(Nodes, t, s1)
      BY <1>2, <1>5, <3>1, <3>2, RecolouredTwice
    <3>4. s2 = IF n = left(parent(n)) THEN rotate_left(s1, a) ELSE rotate_right(s1, a)
      BY <1>4, <1>5, <1>6, <2>1, <3>1 DEF delete_case2
    <3>5. Turned(s1, A, B, E, a, s2)
      BY <1>5, <3>3, <3>4, Turns
    <3> QED
      BY <1>2, <1>3, <2>1, <3>1, <3>5, Delete2Red DEF Nodes
  <2>2. CASE Col(Colors(t), y) # "RED"
    <3>1. Col(Colors(t), y) = "BLACK"
      BY <1>2, <1>3, <2>2, SiblingColors DEF Color
    <3>2. s2 = t
      BY <1>4, <1>6, <2>2 DEF delete_case2
    <3> QED
      BY <1>2, <1>5, <3>1, <3>2, Delete2Black DEF DeleteNext
  <2> QED
    BY <2>1, <2>2
<1> QED
  BY <1>1, <1>2, <1>6, <1>7, <1>8, DeleteArrives DEF Goto, DeleteCases

LEMMA StepDelete3 ==
  ASSUME Inv, delete_case3
  PROVE  Kept
<1>1. pc = "delete_case3" /\ "delete_case3" \in DeleteCases
  BY DEF delete_case3, At, DeleteCases
<1>2. /\ DeleteInv("delete_case3", t, frame, req) /\ frame \in Frames(Nodes)
      /\ t \in Tree(Nodes) /\ n = frame.n /\ frame.n \in Nodes /\ NULL \notin Nodes
      /\ parent(n) = Parents(t)[frame.n]
  BY <1>1, DeleteReady
<1>3. PICK U, H, A, B, E, a, y :
        Facing(Nodes, t, frame, U, H, A, B, E, a, y) /\ Siblings(A, B, E, a, y)
  BY <1>1, DeleteKin
<1>4. node_color(parent(n)) = Colors(t)[a] /\ (BlackSibling <=> BlackFamily(t, frame.n))
  BY <1>2, <1>3, SiblingColors
<1>5. /\ a \in Nodes /\ y \in Nodes /\ parent(n) = a /\ a = Parents(t)[frame.n]
      /\ sibling(n) = y /\ y = Sibling(t, frame.n)
  BY <1>2, <1>3 DEF Siblings
<1>6. PICK s2, f2 : s2 = t' /\ f2 = frame'
  OBVIOUS
<1>7. CASE Colors(t)[a] = "BLACK" /\ BlackFamily(t, frame.n)
  <2>1. s2 = SetColor(t, y, "RED") /\ Goto("delete_case1", a)
    BY <1>4, <1>5, <1>6, <1>7 DEF delete_case3
  <2>2. f2.n = a /\ f2.victim = frame.victim /\ f2.child = frame.child
    BY <1>2, <1>5, <1>6, <2>1, Framed DEF Goto
  <2>3. DeleteNext("delete_case1", t, s2, f2, req)
    BY <1>2, <1>5, <1>7, <2>1, <2>2, Delete3Up
  <2> QED
    BY <1>2, <1>5, <1>6, <2>1, <2>3, DeleteArrives DEF Goto, DeleteCases
<1>8. CASE ~(Colors(t)[a] = "BLACK" /\ BlackFamily(t, frame.n))
  <2>1. s2 = t /\ Goto("delete_case4", frame.n)
    BY <1>2, <1>4, <1>5, <1>6, <1>8 DEF delete_case3
  <2>2. DeleteInv("delete_case4", t, frame, req)
    BY <1>2, <1>5, <1>8, Delete3Down
  <2>3. f2 = frame
    BY <1>2, <1>6, <2>1, FrameStays DEF Goto
  <2>4. DeleteNext("delete_case4", t, s2, f2, req)
    BY <2>1, <2>2, <2>3 DEF DeleteNext
  <2> QED
    BY <1>2, <1>6, <2>1, <2>4, DeleteArrives DEF Goto, DeleteCases
<1> QED
  BY <1>7, <1>8

LEMMA StepDelete4 ==
  ASSUME Inv, delete_case4
  PROVE  Kept
<1>1. pc = "delete_case4" /\ "delete_case4" \in DeleteCases
  BY DEF delete_case4, At, DeleteCases
<1>2. /\ DeleteInv("delete_case4", t, frame, req) /\ frame \in Frames(Nodes)
      /\ t \in Tree(Nodes) /\ n = frame.n /\ frame.n \in Nodes /\ NULL \notin Nodes
      /\ parent(n) = Parents(t)[frame.n]
  BY <1>1, DeleteReady
<1>3. PICK U, H, A, B, E, a, y :
        Facing(Nodes, t, frame, U, H, A, B, E, a, y) /\ Siblings(A, B, E, a, y)
  BY <1>1, DeleteKin
<1>4. node_color(parent(n)) = Colors(t)[a] /\ (BlackSibling <=> BlackFamily(t, frame.n))
  BY <1>2, <1>3, SiblingColors
<1>5. /\ a \in Nodes /\ y \in Nodes /\ parent(n) = a /\ a = Parents(t)[frame.n]
      /\ sibling(n) = y /\ y = Sibling(t, frame.n)
  BY <1>2, <1>3 DEF Siblings
<1>6. PICK s2, f2 : s2 = t' /\ f2 = frame'
  OBVIOUS
<1>7. CASE Colors(t)[a] = "RED" /\ BlackFamily(t, frame.n)
  <2>1. /\ s2 = SetColor(SetColor(t, y, "RED"), a, "BLACK")
        /\ Goto("delete_finish", frame.n)
    BY <1>2, <1>4, <1>5, <1>6, <1>7 DEF delete_case4
  <2>2. DeleteEnds(t, s2, frame, req)
    BY <1>2, <1>5, <1>7, <2>1, Delete4End
  <2>3. f2 = frame
    BY <1>2, <1>6, <2>1, FrameStays DEF Goto
  <2> QED
    BY <1>2, <1>6, <2>1, <2>2, <2>3, DeleteArrives DEF Goto
<1>8. CASE ~(Colors(t)[a] = "RED" /\ BlackFamily(t, frame.n))
  <2>1. s2 = t /\ Goto("delete_case5", frame.n)
    BY <1>2, <1>4, <1>5, <1>6, <1>8 DEF delete_case4
  <2>2. DeleteInv("delete_case5", t, frame, req)
    BY <1>2, <1>5, <1>8, Delete4Down
  <2>3. f2 = frame
    BY <1>2, <1>6, <2>1, FrameStays DEF Goto
  <2>4. DeleteNext("delete_case5", t, s2, f2, req)
    BY <2>1, <2>2, <2>3 DEF DeleteNext
  <2> QED
    BY <1>2, <1>6, <2>1, <2>4, DeleteArrives DEF Goto, DeleteCases
<1> QED
  BY <1>7, <1>8

LEMMA StepDelete5 ==
  ASSUME Inv, delete_case5
  PROVE  Kept
<1>1. pc = "delete_case5" /\ "delete_case5" \in DeleteCases /\ Goto("delete_case6", n)
  BY DEF delete_case5, At, DeleteCases
<1>2. /\ DeleteInv("delete_case5", t, frame, req) /\ frame \in Frames(Nodes)
      /\ t \in Tree(Nodes) /\ n = frame.n /\ frame.n \in Nodes /\ NULL \notin Nodes
  BY <1>1, DeleteReady
<1>3. PICK U, H, A, B, E, a, y :
        Facing(Nodes, t, frame, U, H, A, B, E, a, y) /\ Siblings(A, B, E, a, y)
  BY <1>1, DeleteKin
<1>4. PICK w : w = A[y]
  OBVIOUS
<1>5. /\ node_color(y) = Col(Colors(t), y) /\ node_color(w) = Col(Colors(t), w)
      /\ node_color(B[y]) = Col(Colors(t), B[y])
  BY <1>2, <1>3, <1>4, SiblingColors DEF Siblings
<1>6. /\ a \in Nodes /\ y \in Nodes /\ w \in Pointer /\ parent(n) = a /\ sibling(n) = y
      /\ y = Sibling(t, frame.n) /\ w = Near(t, frame.n) /\ B[y] = Far(t, frame.n)
      /\ \/ n = left(parent(n)) /\ w = left(y) /\ B[y] = right(y)
            /\ A = Lefts(t) /\ B = Rights(t)
         \/ n # left(parent(n)) /\ n = right(parent(n)) /\ w = right(y) /\ B[y] = left(y)
            /\ A = Rights(t) /\ B = Lefts(t)
  BY <1>3, <1>4 DEF Siblings
<1>7. PICK s2 : s2 = t'
  OBVIOUS
<1>8. [frame EXCEPT !.n = frame.n] = frame
  BY <1>2, FrameStays
<1>9. DeleteNext("delete_case6", t, s2, frame, req)
  <2> DEFINE Reds == /\ Col(Colors(t), y) = "BLACK"
                     /\ Col(Colors(t), w) = "RED" /\ Col(Colors(t), B[y]) = "BLACK"
  <2>1. CASE Reds
    <3>1. PICK s1 : s1 = SetColor(SetColor(t, y, "RED"), w, "BLACK")
      OBVIOUS
    <3>2. "BLACK" \in Color /\ "RED" \in Color /\ "BLACK" # "RED"
      BY DEF Color
    <3>3. w \in Nodes
      BY <1>6, <2>1, <3>2 DEF Col, Pointer
    <3>4. Recoloured(Nodes, t, s1)
      BY <1>2, <1>6, <3>1, <3>2, <3>3, RecolouredTwice
    <3>5. s2 = IF n = left(parent(n)) THEN rotate_right(s1, y) ELSE rotate_left(s1, y)
      <4>1. CASE n = left(parent(n))
        <5>1. /\ node_color(sibling(n)) = "BLACK" /\ node_color(left(sibling(n))) = "RED"
              /\ node_color(right(sibling(n))) = "BLACK" /\ left(sibling(n)) = w
          BY <1>5, <1>6, <2>1, <4>1
        <5> QED
          BY <1>6, <1>7, <3>1, <4>1, <5>1 DEF delete_case5
      <4>2. CASE n # left(parent(n))
        <5>1. /\ node_color(sibling(n)) = "BLACK" /\ node_color(right(sibling(n))) = "RED"
              /\ node_color(left(sibling(n))) = "BLACK" /\ right(sibling(n)) = w
              /\ n = right(parent(n))
          BY <1>5, <1>6, <2>1, <4>2
        <5> QED
          BY <1>6, <1>7, <3>1, <4>2, <5>1 DEF delete_case5
      <4> QED
        BY <4>1, <4>2
    <3>6. PICK F : F = IF n = left(parent(n)) THEN Greater ELSE Less
      OBVIOUS
    <3>7. Turned(s1, B, A, F, y, s2) /\ Faced(t, B, A, F)
      BY <1>6, <3>4, <3>5, <3>6, Turns DEF Faced
    <3> QED
      BY <1>2, <1>3, <1>4, <2>1, <3>1, <3>7, Delete5Turn DEF Nodes
  <2>2. CASE ~Reds
    <3>1. s2 = t
      <4>1. CASE n = left(parent(n))
        <5>1. ~(/\ node_color(sibling(n)) = "BLACK" /\ node_color(left(sibling(n))) = "RED"
                /\ node_color(right(sibling(n))) = "BLACK")
          BY <1>5, <1>6, <2>2, <4>1
        <5>2. n # right(parent(n))
          BY <1>2, <1>3, <1>6, <4>1 DEF sibling, Facing, Apart
        <5> QED
          BY <1>7, <4>1, <5>1, <5>2 DEF delete_case5
      <4>2. CASE n # left(parent(n))
        <5>1. ~(/\ node_color(sibling(n)) = "BLACK" /\ node_color(right(sibling(n))) = "RED"
                /\ node_color(left(sibling(n))) = "BLACK")
          BY <1>5, <1>6, <2>2, <4>2
        <5> QED
          BY <1>7, <4>2, <5>1 DEF delete_case5
      <4> QED
        BY <4>1, <4>2
    <3>2. DeleteInv("delete_case6", t, frame, req)
      BY <1>2, <1>6, <2>2, Delete5Stay
    <3> QED
      BY <3>1, <3>2 DEF DeleteNext
  <2> QED
    BY <2>1, <2>2
<1> QED
  BY <1>1, <1>2, <1>7, <1>8, <1>9, DeleteArrives DEF Goto, DeleteCases

LEMMA StepDelete6 ==
  ASSUME Inv, delete_case6
  PROVE  Kept
<1>1. pc = "delete_case6" /\ "delete_case6" \in DeleteCases /\ Goto("delete_finish", n)
  BY DEF delete_case6, At, DeleteCases
<1>2. /\ DeleteInv("delete_case6", t, frame, req) /\ frame \in Frames(Nodes)
      /\ t \in Tree(Nodes) /\ n = frame.n /\ frame.n \in Nodes /\ NULL \notin Nodes
  BY <1>1, DeleteReady
<1>3. PICK U, H, A, B, E, a, y :
        Facing(Nodes, t, frame, U, H, A, B, E, a, y) /\ Siblings(A, B, E, a, y)
  BY <1>1, DeleteKin
<1>4. PICK w : w = B[y]
  OBVIOUS
<1>5. node_color(parent(n)) = Colors(t)[a] /\ Colors(t)[a] \in Color
  BY <1>2, <1>3, SiblingColors
<1>6. /\ a \in Nodes /\ y \in Nodes /\ w \in Pointer /\ parent(n) = a /\ sibling(n) = y
      /\ w = Far(t, frame.n)
      /\ \/ n = left(parent(n)) /\ w = right(y) /\ A = Lefts(t) /\ B = Rights(t) /\ E = Less
         \/ /\ n # left(parent(n)) /\ w = left(y)
            /\ A = Rights(t) /\ B = Lefts(t) /\ E = Greater
  BY <1>3, <1>4 DEF Siblings
<1>7. PICK s2, s1 : s2 = t' /\ s1 = Raised(t, a, y, w)
  OBVIOUS
<1>8. [frame EXCEPT !.n = frame.n] = frame
  BY <1>2, FrameStays
<1>9. w \in Nodes
  <2>1. Col(Colors(t), w) = "RED"
    BY <1>2, <1>6 DEF DeleteInv
  <2> QED
    BY <1>6, <2>1 DEF Col, Pointer
<1>10. Recoloured(Nodes, t, s1)
  <2>1. "BLACK" \in Color
    BY DEF Color
  <2> QED
    BY <1>2, <1>5, <1>6, <1>7, <1>9, <2>1, RecolouredThrice DEF Raised, Painted
<1>11. s2 = IF n = left(parent(n)) THEN rotate_left(s1, a) ELSE rotate_right(s1, a)
  BY <1>5, <1>6, <1>7 DEF delete_case6, Raised
<1>12. Turned(s1, A, B, E, a, s2)
  BY <1>6, <1>10, <1>11, Turns
<1>13. DeleteEnds(t, s2, frame, req)
  BY <1>2, <1>3, <1>4, <1>7, <1>12, Delete6Turn DEF Nodes
<1> QED
  BY <1>1, <1>2, <1>7, <1>8, <1>13, DeleteArrives DEF Goto
-----------------------------------------------------------------------------
(* The last step of rbtree_delete: the key is out of the map. *)
LEMMA StepFinish ==
  ASSUME Inv, delete_finish
  PROVE  /\ Inv' /\ req' = req /\ req.op = "delete" /\ req.key \in Keys
         /\ ContentIn(t') = [ContentIn(t) EXCEPT ![req.key] = None]
<1>1. pc = "delete_finish" /\ pc' = "return" /\ frame' = NoFrame /\ req' = req
  BY DEF delete_finish, At
<1>2. InvOf("delete_finish", t, frame, req)
  BY <1>1 DEF Inv
<1>3. FinishInv(t, frame, req)
  BY <1>2, Departs
<1>4. PICK N : N = DOMAIN t.node
  OBVIOUS
<1>5. FinishKnown(N, t, frame, req)
  BY <1>3, <1>4, FinishAt
<1>6. /\ req.op = "delete" /\ req.key \in N /\ N \in SUBSET Keys
      /\ t \in Tree(N) /\ frame.victim \in N
  BY <1>5 DEF FinishKnown
<1>7. t \in Tree(Nodes) /\ frame.victim \in Nodes
  BY <1>4, <1>6 DEF Nodes
<1>8. parent(frame.victim) = Parents(t)[frame.victim]
  BY <1>7, Reads
<1>9. t' = Freed(Detached(t, frame.victim, frame.child), frame.victim)
  BY <1>8 DEF delete_finish, Detached
<1>10. Deleted(t, t', req)
  BY <1>3, <1>9, Finish
<1>11. PICK s2 : s2 = t'
  OBVIOUS
<1>12. Steady(s2) /\ ContentIn(s2) = [ContentIn(t) EXCEPT ![req.key] = None]
  BY <1>10, <1>11 DEF Deleted
<1>13. ContentIn(t) \in [Keys -> {ContentIn(t)[k] : k \in Keys}]
  BY DEF ContentIn
<1>14. ContentIn(s2)[req.key] = None
  BY <1>6, <1>12, <1>13
<1>15. Returning(s2, req)
  BY <1>6, <1>12, <1>14 DEF Returning
<1>16. NoFrame \in Frames(DOMAIN s2.node)
  BY DEF NoFrame, Frames
<1>17. InvOf("return", s2, NoFrame, req)
  BY <1>15, <1>16, Arrives
<1>18. Inv'
  BY <1>1, <1>11, <1>17 DEF Inv
<1> QED
  BY <1>1, <1>6, <1>11, <1>12, <1>18

(* A call returns. *)
LEMMA StepReturn ==
  ASSUME Inv, Return
  PROVE  /\ Inv' /\ t' = t /\ req' = NoRequest /\ req # NoRequest
         /\ ContentIn(t)[req.key] = IF req.op = "delete" THEN None ELSE req.value
<1>1. pc = "return" /\ pc' = "idle" /\ frame' = NoFrame /\ req' = NoRequest /\ t' = t
  BY DEF Return, At
<1>2. InvOf("return", t, frame, req)
  BY <1>1 DEF Inv
<1>3. Returning(t, req)
  BY <1>2, Departs
<1>4. NoFrame \in Frames(DOMAIN t.node)
  BY DEF NoFrame, Frames
<1>5. InvOf("idle", t, NoFrame, NoRequest)
  BY <1>3, <1>4 DEF Returning, InvOf
<1>6. Inv'
  BY <1>1, <1>5 DEF Inv
<1>7. req # NoRequest
  BY <1>3 DEF Returning, NoRequest
<1> QED
  BY <1>1, <1>3, <1>6, <1>7 DEF Returning

(* The calls begin. *)
LEMMA Idle ==
  ASSUME Inv, pc = "idle"
  PROVE  /\ frame = NoFrame /\ req = NoRequest /\ Steady(t) /\ frame \in Frames(Nodes)
         /\ SteadyKnown(Nodes, t) /\ t \in Tree(Nodes)
         /\ \A k : lookup_node(k) = FoundIn(t, k)
<1>1. InvOf("idle", t, frame, req)
  BY DEF Inv
<1>2. frame = NoFrame /\ req = NoRequest /\ Steady(t) /\ frame \in Frames(DOMAIN t.node)
  BY <1>1, Departs
<1>3. SteadyKnown(Nodes, t)
  BY <1>2, SteadyAt DEF Nodes
<1>4. \A k : lookup_node(k) = FoundIn(t, k)
  <2> TAKE k
  <2>1. Visited(k) = VisitedIn(t, k)
    BY VisitedThere
  <2> QED
    BY <2>1 DEF lookup_node, FoundIn
<1> QED
  BY <1>2, <1>3, <1>4 DEF SteadyKnown, Nodes

(* The start of a call that leaves the content as it is, or changes it. *)
Begins(op, k, w, e) ==
  /\ req = NoRequest /\ req' = [op |-> op, key |-> k, value |-> w]
  /\ ContentIn(t') = e

LEMMA StepLookup ==
  ASSUME Inv, NEW k \in Keys, rbtree_lookup(k)
  PROVE  Inv' /\ Begins("lookup", k, ContentIn(t)[k], ContentIn(t))
<1>1. pc = "idle" /\ pc' = "return" /\ t' = t /\ frame' = frame
  BY DEF rbtree_lookup, At
<1>2. /\ req = NoRequest /\ Steady(t) /\ frame \in Frames(Nodes)
      /\ lookup_node(k) = FoundIn(t, k)
  BY <1>1, Idle
<1>3. ContentIn(t)[k] = IF lookup_node(k) = NULL THEN None ELSE t.node[lookup_node(k)].value
  BY <1>2 DEF ContentIn
<1>4. PICK q : q = [op |-> "lookup", key |-> k, value |-> ContentIn(t)[k]]
  OBVIOUS
<1>5. req' = q
  BY <1>3, <1>4 DEF rbtree_lookup, Answer
<1>6. Returning(t, q)
  BY <1>2, <1>4 DEF Returning
<1>7. InvOf("return", t, frame, q)
  BY <1>2, <1>6, Arrives DEF Nodes
<1> QED
  BY <1>1, <1>2, <1>4, <1>5, <1>7 DEF Inv, Begins

LEMMA StepInsertExisting ==
  ASSUME Inv, NEW k \in Keys, NEW w \in Values, InsertExisting(k, w)
  PROVE  Inv' /\ Begins("insert", k, w, [ContentIn(t) EXCEPT ![k] = w])
<1>1. pc = "idle" /\ pc' = "return" /\ frame' = frame /\ lookup_node(k) # NULL
  BY DEF InsertExisting, At
<1>2. /\ req = NoRequest /\ Steady(t) /\ frame \in Frames(Nodes)
      /\ lookup_node(k) = FoundIn(t, k)
  BY <1>1, Idle
<1>3. PICK N : N = DOMAIN t.node
  OBVIOUS
<1>4. k \in N /\ lookup_node(k) = k
  BY <1>1, <1>2, <1>3, SteadyFound
<1>5. PICK q, s2 : q = [op |-> "insert", key |-> k, value |-> w] /\ s2 = t'
  OBVIOUS
<1>6. req' = q /\ s2 = [t EXCEPT !.node[k].value = w]
  BY <1>4, <1>5 DEF InsertExisting, Answer
<1>7. q.op = "insert" /\ q.key = k /\ q.value = w
  BY <1>5
<1>8. /\ Returning(s2, q) /\ DOMAIN s2.node = N
      /\ ContentIn(s2) = [ContentIn(t) EXCEPT ![k] = w]
  BY <1>2, <1>3, <1>4, <1>6, <1>7, InsertOver
<1>9. InvOf("return", s2, frame, q)
  BY <1>2, <1>3, <1>8, Arrives DEF Nodes
<1> QED
  BY <1>1, <1>2, <1>5, <1>6, <1>8, <1>9 DEF Inv, Begins

LEMMA StepInsertNew ==
  ASSUME Inv, NEW k \in Keys, NEW w \in Values, InsertNew(k, w)
  PROVE  Inv' /\ Begins("insert", k, w, [ContentIn(t) EXCEPT ![k] = w])
<1>1. /\ pc = "idle" /\ pc' = "insert_case1" /\ frame' = [frame EXCEPT !.n = k]
      /\ lookup_node(k) = NULL
  BY DEF InsertNew, At
<1>2. /\ frame = NoFrame /\ req = NoRequest /\ Steady(t) /\ SteadyKnown(Nodes, t)
      /\ lookup_node(k) = FoundIn(t, k)
  BY <1>1, Idle
<1>3. PICK N : N = DOMAIN t.node
  OBVIOUS
<1>4. k \notin N
  <2>1. NULL \notin N
    BY <1>2, <1>3 DEF SteadyKnown, Nodes
  <2> QED
    BY <1>1, <1>2, <1>3, <2>1, SteadyFound
<1>5. PICK p : p = IF t.root = NULL THEN NULL ELSE AttachIn(t, k)
  OBVIOUS
<1>6. AttachPoint(k) = AttachIn(t, k)
  BY VisitedThere DEF AttachPoint, AttachIn, left, right
<1>7. PICK q, s2 : q = [op |-> "insert", key |-> k, value |-> w] /\ s2 = t'
  OBVIOUS
<1>8. req' = q /\ s2 = Grown(t, p, k, w)
  BY <1>5, <1>6, <1>7 DEF InsertNew, Answer, Grown, NewNode, Nodes
<1>9. q.op = "insert" /\ q.key = k /\ q.value = w
  BY <1>7
<1>10. /\ InsertInv("insert_case1", s2, k, q) /\ DOMAIN s2.node = N \cup {k}
       /\ ContentIn(s2) = [ContentIn(t) EXCEPT ![k] = w]
  BY <1>2, <1>3, <1>4, <1>5, <1>8, <1>9, InsertFresh, SMTT(30)
<1>11. PICK f2 : f2 = frame'
  OBVIOUS
<1>12. f2 \in Frames(DOMAIN s2.node) /\ f2.n = k
  <2>1. f2 = [n |-> k, victim |-> NULL, child |-> NULL]
    BY <1>1, <1>2, <1>11 DEF NoFrame
  <2> QED
    BY <1>10, <2>1 DEF Frames
<1>13. InvOf("insert_case1", s2, f2, q)
  BY <1>10, <1>12, Arrives DEF InsertCases
<1> QED
  BY <1>1, <1>2, <1>7, <1>8, <1>10, <1>11, <1>13 DEF Inv, Begins

LEMMA StepDeleteMissing ==
  ASSUME Inv, NEW k \in Keys, DeleteMissing(k)
  PROVE  Inv' /\ Begins("delete", k, None, ContentIn(t))
<1>1. pc = "idle" /\ pc' = "return" /\ t' = t /\ frame' = frame /\ lookup_node(k) = NULL
  BY DEF DeleteMissing, At
<1>2. /\ req = NoRequest /\ Steady(t) /\ frame \in Frames(Nodes)
      /\ lookup_node(k) = FoundIn(t, k)
  BY <1>1, Idle
<1>3. ContentIn(t)[k] = None
  BY <1>1, <1>2 DEF ContentIn
<1>4. PICK q : q = [op |-> "delete", key |-> k, value |-> None]
  OBVIOUS
<1>5. req' = q
  BY <1>4 DEF DeleteMissing, Answer
<1>6. Returning(t, q)
  BY <1>2, <1>3, <1>4 DEF Returning
<1>7. InvOf("return", t, frame, q)
  BY <1>2, <1>6, Arrives DEF Nodes
<1> QED
  BY <1>1, <1>2, <1>4, <1>5, <1>7 DEF Inv, Begins

(* The victim v of a deletion of m, in the tree s where m has its content.  *)
Chosen(N, m, v, s) ==
  /\ Doomed(N, s, m, v) /\ s \in Tree(N) /\ SameLinks(N, t, s) /\ Colors(s) = Colors(t)
  /\ \/ ContentIn(s) = ContentIn(t)
     \/ ContentIn(s) = [ContentIn(t) EXCEPT ![m] = None]

(* The victim is the node of the key or the predecessor that takes its      *)
(* place.                                                                   *)
LEMMA VictimChosen ==
  ASSUME Inv, pc = "idle", NEW m \in Nodes, NEW inner \in BOOLEAN,
         inner = (left(m) # NULL /\ right(m) # NULL),
         NEW v, v = IF inner THEN maximum_node(left(m)) ELSE m,
         NEW s, s = IF inner THEN TakeOver(t, m, v) ELSE t
  PROVE  Chosen(Nodes, m, v, s)
<1>1. PICK N : N = Nodes
  OBVIOUS
<1>2. Steady(t) /\ t \in Tree(N) /\ m \in N /\ N = DOMAIN t.node
  BY <1>1, Idle DEF Nodes
<1>3. left(m) = Lefts(t)[m] /\ right(m) = Rights(t)[m]
  BY <1>1, <1>2, Reads
<1>4. CASE inner
  <2>1. /\ Lefts(t)[m] # NULL /\ v = MaximumIn(t, Lefts(t)[m]) /\ s = TakeOver(t, m, v)
    BY <1>3, <1>4, MaximumThere
  <2>2. /\ Doomed(N, s, m, v) /\ s \in Tree(N) /\ SameLinks(N, t, s) /\ Colors(s) = Colors(t)
        /\ ContentIn(s) = [ContentIn(t) EXCEPT ![m] = None]
    BY <1>2, <2>1, DoomedPredecessor
  <2> QED
    BY <1>1, <2>2 DEF Chosen
<1>5. CASE ~inner
  <2>1. (Lefts(t)[m] = NULL \/ Rights(t)[m] = NULL) /\ v = m /\ s = t
    BY <1>3, <1>5
  <2>2. Doomed(N, t, m, m)
    BY <1>2, <2>1, DoomedItself
  <2> QED
    BY <1>1, <1>2, <2>1, <2>2 DEF Chosen, SameLinks
<1> QED
  BY <1>4, <1>5

LEMMA StepDeleteFound ==
  ASSUME Inv, NEW k \in Keys, DeleteFound(k)
  PROVE  /\ Inv'
         /\ \/ Begins("delete", k, None, ContentIn(t))
            \/ Begins("delete", k, None, [ContentIn(t) EXCEPT ![k] = None])
<1>1. pc = "idle" /\ lookup_node(k) # NULL
  BY DEF DeleteFound, At
<1>2. /\ req = NoRequest /\ Steady(t) /\ t \in Tree(Nodes)
      /\ lookup_node(k) = FoundIn(t, k) /\ NULL \notin Nodes
  BY <1>1, Idle DEF SteadyKnown
<1>3. PICK N : N = DOMAIN t.node
  OBVIOUS
<1>4. k \in N /\ lookup_node(k) = k /\ N = Nodes
  BY <1>1, <1>2, <1>3, SteadyFound DEF Nodes
<1>5. PICK inner \in BOOLEAN : inner = (left(k) # NULL /\ right(k) # NULL)
  OBVIOUS
<1>6. PICK v : v = IF inner THEN maximum_node(left(k)) ELSE k
  OBVIOUS
<1>7. PICK s : s = IF inner THEN TakeOver(t, k, v) ELSE t
  OBVIOUS
<1>8. PICK c : c = IF right(v) = NULL THEN left(v) ELSE right(v)
  OBVIOUS
<1>9. PICK f, q, s2 : /\ f = [n |-> v, victim |-> v, child |-> c]
                      /\ q = [op |-> "delete", key |-> k, value |-> None] /\ s2 = t'
  OBVIOUS
<1>10. /\ frame' = f /\ req' = q
       /\ IF node_color(v) = "BLACK"
          THEN s2 = SetColor(s, v, node_color(c)) /\ pc' = "delete_case1"
          ELSE s2 = s /\ pc' = "delete_finish"
  BY <1>4, <1>5, <1>6, <1>7, <1>8, <1>9 DEF DeleteFound, Answer
<1>11. Chosen(N, k, v, s)
  BY <1>1, <1>4, <1>5, <1>6, <1>7, VictimChosen
<1>12. /\ Doomed(N, s, k, v) /\ s \in Tree(N) /\ SameLinks(N, t, s) /\ Colors(s) = Colors(t)
       /\ v \in N /\ DOMAIN s.node = N
  BY <1>11, TreeFields DEF Chosen, Doomed
<1>13. left(v) = Lefts(s)[v] /\ right(v) = Rights(s)[v]
  BY <1>2, <1>4, <1>12, Reads DEF SameLinks
<1>14. f = VictimFrame(s, v)
  BY <1>8, <1>9, <1>13 DEF VictimFrame
<1>15. q.op = "delete" /\ q.key = k
  BY <1>9
<1>16. f.child \in N \cup {NULL} /\ f.child = c /\ f \in Frames(N)
  BY <1>9, <1>12, <1>14, <1>15, DoomedKnown
<1>17. node_color(v) = Colors(s)[v] /\ node_color(c) = Col(Colors(s), f.child)
  BY <1>2, <1>4, <1>12, <1>16, Reads DEF Pointer, Col
<1>18. InvOf(pc', s2, f, q) /\ ContentIn(s2) = ContentIn(s)
  <2>1. CASE Colors(s)[v] = "BLACK"
    <3>1. s2 = SetColor(s, v, Col(Colors(s), f.child)) /\ pc' = "delete_case1"
      BY <1>10, <1>17, <2>1
    <3>2. DeleteNext("delete_case1", s, s2, f, q)
      BY <1>12, <1>14, <1>15, <2>1, <3>1, VictimBlack
    <3>3. /\ DeleteInv("delete_case1", s2, f, q) /\ ContentIn(s2) = ContentIn(s)
          /\ f \in Frames(DOMAIN s2.node)
      BY <1>12, <1>16, <3>2 DEF DeleteNext
    <3> QED
      BY <3>1, <3>3, Arrives DEF DeleteCases
  <2>2. CASE Colors(s)[v] # "BLACK"
    <3>1. s2 = s /\ pc' = "delete_finish"
      BY <1>10, <1>17, <2>2
    <3>2. Colors(s)[v] = "RED"
      BY <1>12, <2>2, TreeFields DEF Color
    <3>3. FinishInv(s2, f, q)
      BY <1>12, <1>14, <1>15, <3>1, <3>2, VictimRed
    <3> QED
      BY <1>12, <1>16, <3>1, <3>3, Arrives
  <2> QED
    BY <2>1, <2>2
<1>19. Inv'
  BY <1>9, <1>10, <1>18 DEF Inv
<1> QED
  BY <1>2, <1>9, <1>10, <1>11, <1>18, <1>19 DEF Begins, Chosen
-----------------------------------------------------------------------------
(* What the inductive invariant says. *)
LEMMA InvTree ==
  ASSUME Inv
  PROVE  /\ t \in Tree(Nodes) /\ frame \in Frames(Nodes)
         /\ \E U : Shape(Nodes, Lefts(t), Rights(t), Parents(t), t.root, U)
<1>1. PICK N : N = DOMAIN t.node
  OBVIOUS
<1>2. frame \in Frames(N) /\ InvOf(pc, t, frame, req)
  BY <1>1, Departs DEF Inv
<1>3. \E v, e, d, U, H : Sound(N, t, v, e, d, U, H)
  BY <1>1, <1>2 DEF InvOf, Returning, Steady, InsertInv, DeleteInv, FinishInv
<1>4. PICK v, e, d, U, H : Sound(N, t, v, e, d, U, H)
  BY <1>3
<1>5. t \in Tree(N) /\ Shape(N, Lefts(t), Rights(t), Parents(t), t.root, U)
  BY <1>4 DEF Sound
<1> QED
  BY <1>1, <1>2, <1>5 DEF Nodes

(* Each of PointersAgree, AssertionsHold and RedBlack follows from Inv. *)
LEMMA InvPointersAgree ==
  ASSUME Inv
  PROVE  PointersAgree
<1>1. t \in Tree(Nodes) /\ frame \in Frames(Nodes)
  BY InvTree
<1>2. PICK U : Shape(Nodes, Lefts(t), Rights(t), Parents(t), t.root, U)
  BY InvTree
<1>3. TypeOK
  BY <1>1 DEF TypeOK, Tree, Frames, Pointer
<1>4. /\ t.root # NULL => Parents(t)[t.root] = NULL
      /\ t.root \in Pointer
  BY <1>2 DEF Shape, Typed, Pointer
<1>5. t.root # NULL => parent(t.root) = NULL
  BY <1>1, <1>4, Reads DEF Pointer
<1>6. ASSUME NEW x \in Nodes
      PROVE  /\ left(x) # NULL => parent(left(x)) = x
             /\ right(x) # NULL => parent(right(x)) = x
             /\ parent(x) # NULL => x \in {left(parent(x)), right(parent(x))}
             /\ parent(x) = NULL => x = t.root
  <2>1. LinkedAt(Lefts(t), Rights(t), Parents(t), t.root, x)
    BY <1>2 DEF Shape
  <2>2. /\ Lefts(t)[x] \in Pointer /\ Rights(t)[x] \in Pointer /\ Parents(t)[x] \in Pointer
        /\ left(x) = Lefts(t)[x] /\ right(x) = Rights(t)[x] /\ parent(x) = Parents(t)[x]
    BY <1>1, Reads, TreeFields DEF Pointer
  <2> QED
    BY <1>1, <2>1, <2>2, Reads DEF LinkedAt, Pointer
<1> QED
  BY <1>3, <1>5, <1>6 DEF PointersAgree

LEMMA InvAssertionsHold ==
  ASSUME Inv
  PROVE  AssertionsHold
<1>1. t \in Tree(Nodes) /\ NULL \notin Nodes
  <2>1. PICK U : Shape(Nodes, Lefts(t), Rights(t), Parents(t), t.root, U)
    BY InvTree
  <2> QED
    BY <2>1, InvTree DEF Shape, Typed
<1>2. ASSUME pc \in {"insert_case3", "insert_case4", "insert_case5"}
      PROVE  parent(n) # NULL /\ grandparent(n) # NULL
  BY <1>1, <1>2, InsertKin
<1>3. ASSUME pc = "insert_case5"
      PROVE  \/ n = left(parent(n)) /\ parent(n) = left(grandparent(n))
             \/ n = right(parent(n)) /\ parent(n) = right(grandparent(n))
  <2>1. InsertInv("insert_case5", t, frame.n, req) /\ n = frame.n
    BY <1>3, InsertKin
  <2>2. PICK y, g \in Nodes : /\ y = Parents(t)[frame.n] /\ g = Parents(t)[y]
                              /\ parent(n) = y /\ grandparent(n) = g
    BY <1>3, InsertKin
  <2>3. \/ frame.n = Lefts(t)[y] /\ y = Lefts(t)[g]
        \/ frame.n = Rights(t)[y] /\ y = Rights(t)[g]
    BY <2>1, <2>2 DEF InsertInv
  <2>4. /\ left(y) = Lefts(t)[y] /\ right(y) = Rights(t)[y]
        /\ left(g) = Lefts(t)[g] /\ right(g) = Rights(t)[g]
    BY <1>1, Reads
  <2> QED
    BY <2>1, <2>2, <2>3, <2>4
<1>4. ASSUME pc \in {"delete_case2", "delete_case3", "delete_case4", "delete_case5",
                      "delete_case6"}
      PROVE  parent(n) # NULL /\ sibling(n) # NULL
  <2>1. PICK A, B, E, a, y : Siblings(A, B, E, a, y)
    BY <1>4, DeleteKin DEF DeleteCases
  <2> QED
    BY <1>1, <2>1 DEF Siblings
<1>5. ASSUME pc = "delete_case6"
      PROVE  node_color(IF n = left(parent(n)) THEN right(sibling(n))
                        ELSE left(sibling(n))) = "RED"
  <2>1. PICK A, B, E, a, y : Siblings(A, B, E, a, y)
    BY <1>5, DeleteKin DEF DeleteCases
  <2>2. DeleteInv("delete_case6", t, frame, req)
    BY <1>5, DeleteReady DEF DeleteCases
  <2>3. Col(Colors(t), Far(t, frame.n)) = "RED"
    BY <2>2 DEF DeleteInv
  <2>4. node_color(B[y]) = Col(Colors(t), B[y])
    BY <1>1, <2>1, SiblingColors
  <2> QED
    BY <2>1, <2>3, <2>4 DEF Siblings
<1>6. ASSUME pc \in {"delete_case1", "delete_finish"}
      PROVE  left(frame.victim) = NULL \/ right(frame.victim) = NULL
  <2>1. Request(Nodes, t, frame, req)
    <3>1. CASE pc = "delete_case1"
      <4>1. DeleteInv("delete_case1", t, frame, req)
        BY <3>1, DeleteReady DEF DeleteCases
      <4> QED
        BY <4>1 DEF DeleteInv, Nodes
    <3>2. CASE pc = "delete_finish"
      <4>1. InvOf("delete_finish", t, frame, req)
        BY <3>2 DEF Inv
      <4>2. FinishInv(t, frame, req)
        BY <4>1, Departs
      <4> QED
        BY <4>2 DEF FinishInv, Nodes
    <3> QED
      BY <1>6, <3>1, <3>2
  <2>2. frame.victim \in Nodes /\ OnlyChild(t, frame)
    BY <2>1 DEF Request
  <2>3. /\ left(frame.victim) = Lefts(t)[frame.victim]
        /\ right(frame.victim) = Rights(t)[frame.victim]
    BY <1>1, <2>2, Reads
  <2> QED
    BY <2>2, <2>3 DEF OnlyChild
<1> QED
  BY <1>2, <1>3, <1>4, <1>5, <1>6 DEF AssertionsHold, At

(* Every way down from a node meets the same number of black nodes. *)
Heights(H) == [x \in Pointer |-> IF x = NULL THEN {0} ELSE {H[x]}]

HeightsStep(f) ==
  [x \in Pointer |->
     IF x = NULL THEN {0}
     ELSE {h + (IF node_color(x) = "BLACK" THEN 1 ELSE 0) : h \in f[left(x)] \cup f[right(x)]}]

(* The black heights of the model are the heights of Balanced. *)
LEMMA OneHeight ==
  ASSUME t \in Tree(Nodes), IsFiniteSet(Nodes), NEW U, NEW H,
         Shape(Nodes, Lefts(t), Rights(t), Parents(t), t.root, U), HeightsTyped(Nodes, H),
         Balanced(Nodes, Lefts(t), Rights(t), Colors(t), NULL, NULL, NULL, H)
  PROVE  BlackHeights = Heights(H)
<1> DEFINE A == Lefts(t)
           B == Rights(t)
<1>1. NULL \notin Nodes
  BY DEF Shape, Typed
<1>2. ASSUME NEW x \in Nodes
      PROVE  /\ left(x) = A[x] /\ right(x) = B[x] /\ A[x] \in Pointer /\ B[x] \in Pointer
             /\ node_color(x) = Colors(t)[x]
  BY <1>1, <1>2, Reads, TreeFields DEF Pointer, Col
<1>3. ASSUME NEW x \in Nodes
      PROVE  /\ Heights(H)[A[x]] = {Ht(H, NULL, A[x])} /\ Heights(H)[B[x]] = {Ht(H, NULL, A[x])}
             /\ Heights(H)[x] = {Ht(H, NULL, A[x]) + (IF Colors(t)[x] = "BLACK" THEN 1 ELSE 0)}
  <2>1. /\ Ht(H, NULL, A[x]) = Ht(H, NULL, B[x])
        /\ H[x] = Ht(H, NULL, A[x]) + (IF Colors(t)[x] = "BLACK" THEN 1 ELSE 0)
    BY <1>1 DEF Balanced, BalancedAt
  <2>2. \A z \in Pointer : Heights(H)[z] = {Ht(H, NULL, z)}
    BY DEF Heights, Ht, Pointer, HeightsTyped
  <2>3. Heights(H)[x] = {H[x]}
    BY <1>1 DEF Heights, Pointer
  <2> QED
    BY <1>2, <2>1, <2>2, <2>3
<1>4. Heights(H) = HeightsStep(Heights(H))
  <2> DEFINE G == Heights(H)
  <2>1. ASSUME NEW x \in Nodes
        PROVE  G[x] = {h + (IF node_color(x) = "BLACK" THEN 1 ELSE 0)
                   : h \in G[left(x)] \cup G[right(x)]}
    BY <1>2, <1>3
  <2>2. G[NULL] = {0} /\ G = [x \in Pointer |-> G[x]]
    BY DEF Heights, Pointer
  <2> HIDE DEF G
  <2>3. HeightsStep(G) = [x \in Pointer |-> G[x]]
    BY <1>1, <2>1, <2>2 DEF HeightsStep, Pointer
  <2>4. G = HeightsStep(G)
    BY <2>2, <2>3
  <2> QED
    BY <2>4 DEF G
<1>5. ASSUME NEW f, f = HeightsStep(f) PROVE f = Heights(H)
  <2> DEFINE S == {x \in Nodes : f[x] = Heights(H)[x]}
  <2>1. f[NULL] = {0} /\ Heights(H)[NULL] = {0} /\ DOMAIN f = Pointer
    BY <1>5 DEF HeightsStep, Heights, Pointer
  <2>2. ASSUME NEW x \in Nodes
        PROVE  f[x] = {h + (IF node_color(x) = "BLACK" THEN 1 ELSE 0)
                   : h \in f[left(x)] \cup f[right(x)]}
    BY <1>1, <1>5 DEF HeightsStep, Pointer
  <2>3. ASSUME NEW x \in Nodes, A[x] \in S \cup {NULL}, B[x] \in S \cup {NULL}
        PROVE  x \in S
    <3>1. f[left(x)] = Heights(H)[left(x)] /\ f[right(x)] = Heights(H)[right(x)]
      BY <1>2, <2>1, <2>3
    <3>2. Heights(H)[x] = {h + (IF node_color(x) = "BLACK" THEN 1 ELSE 0) :
                             h \in Heights(H)[left(x)] \cup Heights(H)[right(x)]}
      BY <1>2, <1>3
    <3> QED
      BY <2>2, <3>1, <3>2
  <2>4. Nodes \subseteq S
    <3> HIDE DEF S
    <3>1. PICK N : N = Nodes
      OBVIOUS
    <3>2. Shape(N, A, B, Parents(t), t.root, U) /\ IsFiniteSet(N)
      BY <3>1
    <3>3. \A x \in N : (A[x] \in S \cup {NULL}) /\ (B[x] \in S \cup {NULL}) => x \in S
      BY <2>3, <3>1
    <3>4. N \subseteq S
      BY <3>2, <3>3, TreeInduction
    <3> QED
      BY <3>1, <3>4
  <2>5. \A x \in Pointer : f[x] = Heights(H)[x]
    BY <2>1, <2>4 DEF Pointer
  <2>6. f = [x \in Pointer |-> f[x]]
    BY <1>5 DEF HeightsStep
  <2>7. Heights(H) = [x \in Pointer |-> Heights(H)[x]]
    BY DEF Heights
  <2> HIDE DEF S
  <2> QED
    BY <2>5, <2>6, <2>7
<1>6. BlackHeights = CHOOSE f : f = HeightsStep(f)
  BY DEF BlackHeights, HeightsStep
<1> QED
  BY <1>4, <1>5, <1>6

LEMMA InvRedBlack ==
  ASSUME Inv
  PROVE  RedBlack
<1> SUFFICES ASSUME pc \in {"idle", "return"}
             PROVE  /\ node_color(t.root) = "BLACK"
                    /\ \A x \in Nodes : node_color(x) = "RED" =>
                         node_color(left(x)) = "BLACK" /\ node_color(right(x)) = "BLACK"
                    /\ Cardinality(BlackHeights[t.root]) = 1
  BY DEF RedBlack
<1>1. InvOf(pc, t, frame, req)
  BY DEF Inv
<1>2. Steady(t)
  BY <1>1, Departs DEF Returning
<1>3. SteadyKnown(Nodes, t)
  BY <1>2, SteadyAt DEF Nodes
<1>4. PICK U, H : Sound(Nodes, t, NULL, NULL, NULL, U, H)
  BY <1>2, SteadyAt DEF Nodes
<1>5. /\ t \in Tree(Nodes) /\ IsFiniteSet(Nodes) /\ NULL \notin Nodes /\ t.root \in Pointer
      /\ t.root # NULL => Colors(t)[t.root] = "BLACK"
  BY <1>3 DEF SteadyKnown, Pointer
<1>6. /\ Shape(Nodes, Lefts(t), Rights(t), Parents(t), t.root, U) /\ HeightsTyped(Nodes, H)
      /\ Balanced(Nodes, Lefts(t), Rights(t), Colors(t), NULL, NULL, NULL, H)
  BY <1>4 DEF Sound
<1>7. node_color(t.root) = "BLACK"
  BY <1>5, Reads DEF Col
<1>8. ASSUME NEW x \in Nodes, node_color(x) = "RED"
      PROVE  node_color(left(x)) = "BLACK" /\ node_color(right(x)) = "BLACK"
  <2>1. x # NULL /\ Colors(t)[x] = "RED"
    BY <1>5, <1>8, Reads DEF Pointer, Col
  <2>2. /\ left(x) = Lefts(t)[x] /\ right(x) = Rights(t)[x]
        /\ Lefts(t)[x] \in Pointer /\ Rights(t)[x] \in Pointer
    BY <1>5, Reads, TreeFields DEF Pointer
  <2>3. BalancedAt(Lefts(t), Rights(t), Colors(t), NULL, NULL, NULL, H, x)
    BY <1>6 DEF Balanced
  <2>4. Col(Colors(t), Lefts(t)[x]) = "BLACK" /\ Col(Colors(t), Rights(t)[x]) = "BLACK"
    BY <2>1, <2>3 DEF BalancedAt, Col
  <2> QED
    BY <1>5, <2>2, <2>4, Reads
<1>9. BlackHeights = Heights(H)
  BY <1>5, <1>6, OneHeight
<1>10. PICK h : BlackHeights[t.root] = {h}
  BY <1>5, <1>9 DEF Heights
<1>11. Cardinality(BlackHeights[t.root]) = 1
  BY <1>10, FS_Singleton
<1> QED
  BY <1>7, <1>8, <1>11
-----------------------------------------------------------------------------
(* Inv holds of the empty tree. *)
LEMMA InvInit == Init => Inv
<1> SUFFICES ASSUME Init PROVE Inv
  OBVIOUS
<1> DEFINE Empty == [x \in {} |-> NULL]
<1>1. /\ t = [root |-> NULL, node |-> Empty] /\ pc = "idle"
      /\ frame = NoFrame /\ req = NoRequest
  BY DEF Init
<1>2. t.root = NULL /\ t.node = Empty /\ DOMAIN t.node = {}
  BY <1>1
<1>3. t \in Tree({})
  BY <1>1 DEF Tree
<1>4. /\ Lefts(t) \in [{} -> {NULL}] /\ Rights(t) \in [{} -> {NULL}]
      /\ Parents(t) \in [{} -> {NULL}]
  BY <1>2 DEF Lefts, Rights, Parents
<1>5. Shape({}, Lefts(t), Rights(t), Parents(t), t.root, Empty)
  BY <1>2, <1>4 DEF Shape, Typed, Sub
<1>6. /\ Ordered({}, Lefts(t), Rights(t), Empty, Less) /\ HeightsTyped({}, Empty)
      /\ Balanced({}, Lefts(t), Rights(t), Colors(t), NULL, NULL, NULL, Empty)
  BY DEF Ordered, HeightsTyped, Balanced
<1> HIDE DEF Empty
<1>7. Sound({}, t, NULL, NULL, NULL, Empty, Empty)
  BY <1>3, <1>5, <1>6 DEF Sound
<1>8. Base({}, t, NULL, NULL, NULL)
  BY <1>2, <1>3, FS_EmptySet DEF Base, NamedBy
<1>9. Steady(t)
  BY <1>2, <1>7, <1>8 DEF Steady
<1>10. NoFrame \in Frames(DOMAIN t.node)
  BY DEF NoFrame, Frames
<1>11. InvOf("idle", t, NoFrame, NoRequest)
  BY <1>9, <1>10 DEF InvOf
<1> QED
  BY <1>1, <1>11 DEF Inv

(* A step inside a call. *)
Inside ==
  \/ insert_case1 \/ insert_case2 \/ insert_case3 \/ insert_case4 \/ insert_case5
  \/ delete_case1 \/ delete_case2 \/ delete_case3 \/ delete_case4 \/ delete_case5
  \/ delete_case6

(* A step inside a call keeps Inv and the content. *)
LEMMA StepInside ==
  ASSUME Inv, Inside
  PROVE  Kept
<1>1. CASE insert_case1
  BY <1>1, StepInsert1
<1>2. CASE insert_case2
  BY <1>2, StepInsert2
<1>3. CASE insert_case3
  BY <1>3, StepInsert3
<1>4. CASE insert_case4
  BY <1>4, StepInsert4
<1>5. CASE insert_case5
  BY <1>5, StepInsert5
<1>6. CASE delete_case1
  BY <1>6, StepDelete1
<1>7. CASE delete_case2
  BY <1>7, StepDelete2
<1>8. CASE delete_case3
  BY <1>8, StepDelete3
<1>9. CASE delete_case4
  BY <1>9, StepDelete4
<1>10. CASE delete_case5
  BY <1>10, StepDelete5
<1>11. CASE delete_case6
  BY <1>11, StepDelete6
<1> QED
  BY <1>1, <1>2, <1>3, <1>4, <1>5, <1>6, <1>7, <1>8, <1>9, <1>10, <1>11 DEF Inside

(* Each step keeps Inv. *)
LEMMA InvNext == Inv /\ [Next]_vars => Inv'
<1> SUFFICES ASSUME Inv, [Next]_vars PROVE Inv'
  OBVIOUS
<1>1. CASE Inside
  BY <1>1, StepInside DEF Kept
<1>2. CASE delete_finish
  BY <1>2, StepFinish
<1>3. CASE Return
  BY <1>3, StepReturn
<1>4. ASSUME NEW k \in Keys, rbtree_lookup(k) PROVE Inv'
  BY <1>4, StepLookup
<1>5. ASSUME NEW k \in Keys, DeleteMissing(k) PROVE Inv'
  BY <1>5, StepDeleteMissing
<1>6. ASSUME NEW k \in Keys, DeleteFound(k) PROVE Inv'
  BY <1>6, StepDeleteFound
<1>7. ASSUME NEW k \in Keys, NEW w \in Values, InsertExisting(k, w) PROVE Inv'
  BY <1>7, StepInsertExisting
<1>8. ASSUME NEW k \in Keys, NEW w \in Values, InsertNew(k, w) PROVE Inv'
  BY <1>8, StepInsertNew
<1>9. CASE UNCHANGED vars
  BY <1>9 DEF vars, Inv
<1> QED
  BY <1>1, <1>2, <1>3, <1>4, <1>5, <1>6, <1>7, <1>8, <1>9 DEF Next, Inside

(* Whatever is inserted, looked up and deleted, and in whatever order, every*)
(* step of hextype_rbtree.cc:180-292 and every case of lines 219-264 and    *)
(* 302-383 finds the tree as its position in the cascade needs it: between  *)
(* calls a red-black search tree; in the middle of an insertion one whose   *)
(* only fault may be that frame.n and its parent are red; in the middle of a*)
(* deletion one that lacks a black node on the ways through frame.n and     *)
(* nowhere else.                                                            *)
THEOREM TreeInvariant == Spec => []Inv
<1>1. Init => Inv
  BY InvInit
<1>2. Inv /\ [Next]_vars => Inv'
  BY InvNext
<1> QED
  BY <1>1, <1>2, PTL DEF Spec

(* For every set of keys and values: whenever a case of                     *)
(* hextype_rbtree.cc:219-264 or 302-383 begins and whenever a call has      *)
(* returned, the parent and the child pointers agree, none leads to a node  *)
(* that has been freed (hextype_rbtree.cc:289), and the root alone has no   *)
(* parent.                                                                  *)
THEOREM TreePointersAgree == Spec => []PointersAgree
<1>1. Inv => PointersAgree
  BY InvPointersAgree
<1> QED
  BY <1>1, TreeInvariant, PTL

(* For every set of keys and values: when a call has returned the tree has a*)
(* black root, no red node with a red child, and one number of black nodes  *)
(* on all ways down, so that look-ups stay logarithmic                      *)
(* (hextype_rbtree.cc:120-135).                                             *)
THEOREM TreeIsRedBlack == Spec => []RedBlack
<1>1. Inv => RedBlack
  BY InvRedBlack
<1> QED
  BY <1>1, TreeInvariant, PTL

(* For every set of keys and values no assertion of hextype_rbtree.cc (lines*)
(* 52-54, 59-60, 68-70, 261, 279, 373, 379) fails: a red parent has a       *)
(* parent, insert_case5 finds an outer grandchild, the node that lacks a    *)
(* black one has a parent and a sibling, the outer nephew of delete_case6 is*)
(* red, and the victim has at most one child.                               *)
THEOREM TreeAssertionsHold == Spec => []AssertionsHold
<1>1. Inv => AssertionsHold
  BY InvAssertionsHold
<1> QED
  BY <1>1, TreeInvariant, PTL
-----------------------------------------------------------------------------
(* The tree implements the dictionary. *)
LEMMA ContentThere == Content = ContentIn(t)
<1>1. \A k : lookup_node(k) = FoundIn(t, k)
  <2> TAKE k
  <2>1. Visited(k) = VisitedIn(t, k)
    BY VisitedThere
  <2> QED
    BY <2>1 DEF lookup_node, FoundIn
<1> QED
  BY <1>1 DEF Content, ContentIn

LEMMA VisitedNext == \A k : Visited(k)' = VisitedIn(t', k)
BY DEF Visited, VisitedIn, Pointer, Nodes, left, right

(* The content of the next tree. *)
LEMMA ContentNext == Content' = ContentIn(t')
<1>1. \A k : lookup_node(k)' = FoundIn(t', k)
  <2> TAKE k
  <2>1. Visited(k)' = VisitedIn(t', k)
    BY VisitedNext
  <2> QED
    BY <2>1 DEF lookup_node, FoundIn
<1> QED
  BY <1>1 DEF Content, ContentIn

(* The empty tree is the empty dictionary. *)
LEMMA RefinesInit == Init => Map!Init
<1> SUFFICES ASSUME Init PROVE Map!Init
  OBVIOUS
<1>1. pc = "idle" /\ req = NoRequest /\ t.node = [x \in {} |-> NULL]
  BY DEF Init
<1>2. Inv
  BY InvInit
<1>3. Steady(t)
  BY <1>1, <1>2, Idle
<1>4. PICK N : N = DOMAIN t.node /\ N = {}
  BY <1>1
<1>5. \A k \in Keys : ContentIn(t)[k] = None
  BY <1>3, <1>4, SteadyFound
<1>6. ContentIn(t) = [k \in Keys |-> ContentIn(t)[k]]
  BY DEF ContentIn
<1>7. Content = [k \in Keys |-> None]
  BY <1>5, <1>6, ContentThere
<1> QED
  BY <1>1, <1>7 DEF Map!Init, Map!NoRequest, NoRequest

(* The first step of a call is the call of the dictionary. *)
LEMMA RefinesBegin ==
  ASSUME NEW op, NEW k, NEW w, NEW e, Begins(op, k, w, e)
  PROVE  /\ e = ContentIn(t) => Map!Call(op, k, w)
         /\ e = [ContentIn(t) EXCEPT ![k] = w] => Map!CallWithEffect(op, k, w)
BY ContentThere, ContentNext
   DEF Begins, Map!Call, Map!CallWithEffect, Map!NoRequest, NoRequest

(* Each step of the program is a step of the dictionary, or leaves it as it *)
(* is.                                                                      *)
LEMMA RefinesNext == Inv /\ [Next]_vars => [Map!Next]_<<Content, req>>
<1> SUFFICES ASSUME Inv, [Next]_vars PROVE [Map!Next]_<<Content, req>>
  OBVIOUS
<1>1. CASE Inside
  <2>1. Kept
    BY <1>1, StepInside
  <2>2. Content' = Content /\ req' = req
    BY <2>1, ContentThere, ContentNext DEF Kept
  <2> QED
    BY <2>2
<1>2. CASE delete_finish
  <2>1. /\ req' = req /\ req.op = "delete"
        /\ ContentIn(t') = [ContentIn(t) EXCEPT ![req.key] = None]
    BY <1>2, StepFinish
  <2>2. Map!TakeEffect
    BY <2>1, ContentThere, ContentNext DEF Map!TakeEffect, Map!Effect
  <2> QED
    BY <2>2 DEF Map!Next
<1>3. CASE Return
  <2>1. /\ t' = t /\ req' = NoRequest /\ req # NoRequest
        /\ ContentIn(t)[req.key] = IF req.op = "delete" THEN None ELSE req.value
    BY <1>3, StepReturn
  <2>2. Content' = Content
    BY <2>1, ContentThere, ContentNext
  <2>3. Map!Return
    BY <2>1, <2>2, ContentThere DEF Map!Return, Map!Effect, Map!NoRequest, NoRequest
  <2> QED
    BY <2>3 DEF Map!Next
<1>4. ASSUME NEW k \in Keys, rbtree_lookup(k) PROVE Map!Next
  <2>1. Begins("lookup", k, ContentIn(t)[k], ContentIn(t))
    BY <1>4, StepLookup
  <2>2. Map!Call("lookup", k, ContentIn(t)[k])
    BY <2>1, RefinesBegin
  <2>3. Map!Lookup(k)
    BY <2>2, ContentThere DEF Map!Lookup
  <2> QED
    BY <2>3 DEF Map!Next
<1>5. ASSUME NEW k \in Keys, DeleteMissing(k) PROVE Map!Next
  <2>1. Begins("delete", k, None, ContentIn(t))
    BY <1>5, StepDeleteMissing
  <2>2. Map!Call("delete", k, None)
    BY <2>1, RefinesBegin
  <2> QED
    BY <2>2 DEF Map!Next
<1>6. ASSUME NEW k \in Keys, DeleteFound(k) PROVE Map!Next
  <2>1. \/ Begins("delete", k, None, ContentIn(t))
        \/ Begins("delete", k, None, [ContentIn(t) EXCEPT ![k] = None])
    BY <1>6, StepDeleteFound
  <2>2. Map!Call("delete", k, None) \/ Map!CallWithEffect("delete", k, None)
    BY <2>1, RefinesBegin
  <2> QED
    BY <2>2 DEF Map!Next
<1>7. ASSUME NEW k \in Keys, NEW w \in Values, InsertExisting(k, w) \/ InsertNew(k, w)
      PROVE  Map!Next
  <2>1. Begins("insert", k, w, [ContentIn(t) EXCEPT ![k] = w])
    BY <1>7, StepInsertExisting, StepInsertNew
  <2>2. Map!CallWithEffect("insert", k, w)
    BY <2>1, RefinesBegin
  <2> QED
    BY <2>2 DEF Map!Next
<1>8. CASE UNCHANGED vars
  <2>1. t' = t /\ req' = req
    BY <1>8 DEF vars
  <2> QED
    BY <2>1, ContentThere, ContentNext
<1> QED
  BY <1>1, <1>2, <1>3, <1>4, <1>5, <1>6, <1>7, <1>8 DEF Next, Inside

(* For every set of keys and values the tree is a dictionary: a call changes*)
(* the answer of rbtree_lookup for its own key alone, and all its later     *)
(* steps (rotations, recolouring, the predecessor that moves, the victim    *)
(* that is freed) change no answer at all.                                  *)
THEOREM TreeImplementsDictionary == Spec => ImplementsDictionary
<1>1. Init => Map!Init
  BY RefinesInit
<1>2. Inv /\ [Next]_vars => [Map!Next]_<<Content, req>>
  BY RefinesNext
<1> QED
  BY <1>1, <1>2, TreeInvariant, PTL DEF Spec, ImplementsDictionary, Map!Spec
===============================================================================
