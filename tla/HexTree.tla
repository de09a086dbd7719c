-------------------------------- MODULE HexTree --------------------------------
(***************************************************************************)
(* The red-black tree of hextype_rbtree.cc, node by node: the functions    *)
(* that rebalance are actions of their own, so that every intermediate     *)
(* shape is a state.  A key is what compare() makes of a pointer, an int.  *)
(* Nothing outside a call holds a node, so between calls a node is named   *)
(* by its key; inside rbtree_delete, which copies a key from one node to   *)
(* another, the name stays and the key changes until the victim is freed.  *)
(***************************************************************************)
EXTENDS Integers, FiniteSets

CONSTANTS Keys, Values, None

NULL == 0

ASSUME KeysAssumption == Keys \subseteq Int \ {NULL}

VARIABLES
  t,       \* the tree: its root, and its nodes by name
  pc,      \* the function to run next, or "idle"
  frame,   \* its argument n, and rbtree_delete's n and child
  req      \* the call in progress, as in Dictionary

vars == <<t, pc, frame, req>>

Color == {"RED", "BLACK"}
Nodes == DOMAIN t.node
Pointer == Nodes \cup {NULL}
NoFrame == [n |-> NULL, victim |-> NULL, child |-> NULL]
NoRequest == [op |-> "none", key |-> None, value |-> None]

Init ==
  /\ t = [root |-> NULL, node |-> [x \in {} |-> NULL]]
  /\ pc = "idle" /\ frame = NoFrame /\ req = NoRequest
-----------------------------------------------------------------------------
(* Reading the tree.  A field of NULL has no value: TLC stops there. *)

left(x) == t.node[x].left
right(x) == t.node[x].right
parent(x) == t.node[x].parent
node_color(x) == IF x = NULL THEN "BLACK" ELSE t.node[x].color
grandparent(x) == parent(parent(x))
sibling(x) == IF x = left(parent(x)) THEN right(parent(x)) ELSE left(parent(x))
uncle(x) == sibling(parent(x))

(* The nodes a search for key k visits. *)
Visited(k) ==
  LET from[x \in Pointer] ==
        IF x = NULL THEN {}
        ELSE {x} \cup IF k = t.node[x].key THEN {}
                      ELSE from[IF k < t.node[x].key THEN left(x) ELSE right(x)]
  IN  from[t.root]

lookup_node(k) ==
  LET hit == {x \in Visited(k) : t.node[x].key = k}
  IN  IF hit = {} THEN NULL ELSE CHOOSE x \in hit : TRUE

(* The node below which an absent key is attached: where the search ends. *)
AttachPoint(k) ==
  CHOOSE x \in Visited(k) :
    t.node[x].key # k /\ (IF k < t.node[x].key THEN left(x) ELSE right(x)) = NULL

maximum_node(x) ==
  LET from[y \in Nodes] == IF right(y) = NULL THEN y ELSE from[right(y)]
  IN  from[x]
-----------------------------------------------------------------------------
(* Changing a tree s. *)

SetColor(s, x, c) == [s EXCEPT !.node[x].color = c]
(* Mutant: a subtree keeps its former parent. *)
NoSetParent(s, x, p) == s

SetParent(s, x, p) == IF x = NULL THEN s ELSE [s EXCEPT !.node[x].parent = p]

replace_node(s, old, new) ==
  LET p == s.node[old].parent
      linked == IF p = NULL THEN [s EXCEPT !.root = new]
                ELSE IF s.node[p].left = old THEN [s EXCEPT !.node[p].left = new]
                ELSE [s EXCEPT !.node[p].right = new]
  IN  SetParent(linked, new, p)

rotate_left(s, x) ==
  LET r == s.node[x].right
      s1 == replace_node(s, x, r)
      s2 == SetParent([s1 EXCEPT !.node[x].right = s1.node[r].left], s1.node[r].left, x)
  IN  [s2 EXCEPT !.node[r].left = x, !.node[x].parent = r]

rotate_right(s, x) ==
  LET l == s.node[x].left
      s1 == replace_node(s, x, l)
      s2 == SetParent([s1 EXCEPT !.node[x].left = s1.node[l].right], s1.node[l].right, x)
  IN  [s2 EXCEPT !.node[l].right = x, !.node[x].parent = l]
-----------------------------------------------------------------------------
At(function) == pc = function
Goto(function, x) == pc' = function /\ frame' = [frame EXCEPT !.n = x] /\ UNCHANGED req
Answer(op, k, v) == req' = [op |-> op, key |-> k, value |-> v]
n == frame.n

rbtree_lookup(k) ==
  /\ At("idle")
  /\ LET x == lookup_node(k)
     IN  Answer("lookup", k, IF x = NULL THEN None ELSE t.node[x].value)
  /\ pc' = "return"
  /\ UNCHANGED <<t, frame>>

(* The node under the key, if there is one, keeps its place and its key;    *)
(* the node made for the call is then dropped without being freed.          *)
InsertExisting(k, v) ==
  /\ At("idle") /\ lookup_node(k) # NULL
  /\ t' = [t EXCEPT !.node[lookup_node(k)].value = v]
  /\ Answer("insert", k, v)
  /\ pc' = "return" /\ UNCHANGED frame

InsertNew(k, v) ==
  /\ At("idle") /\ lookup_node(k) = NULL
  /\ LET p == IF t.root = NULL THEN NULL ELSE AttachPoint(k)
         new == [key |-> k, value |-> v, color |-> "RED",
                 left |-> NULL, right |-> NULL, parent |-> p]
         s == [t EXCEPT !.node = [x \in Nodes \cup {k} |-> IF x = k THEN new ELSE @[x]]]
     IN  t' = IF p = NULL THEN [s EXCEPT !.root = k]
              ELSE IF k < t.node[p].key THEN [s EXCEPT !.node[p].left = k]
              ELSE [s EXCEPT !.node[p].right = k]
  /\ Answer("insert", k, v)
  /\ pc' = "insert_case1" /\ frame' = [frame EXCEPT !.n = k]

insert_case1 ==
  /\ At("insert_case1")
  /\ IF parent(n) = NULL
     THEN t' = SetColor(t, n, "BLACK") /\ Goto("return", n)
     ELSE UNCHANGED t /\ Goto("insert_case2", n)

insert_case2 ==
  /\ At("insert_case2")
  /\ Goto(IF node_color(parent(n)) = "BLACK" THEN "return" ELSE "insert_case3", n)
  /\ UNCHANGED t

insert_case3 ==
  /\ At("insert_case3")
  /\ IF node_color(uncle(n)) = "RED"
     THEN /\ t' = SetColor(SetColor(SetColor(t, parent(n), "BLACK"), uncle(n), "BLACK"),
                           grandparent(n), "RED")
          /\ Goto("insert_case1", grandparent(n))
     ELSE UNCHANGED t /\ Goto("insert_case4", n)

insert_case4 ==
  /\ At("insert_case4")
  /\ IF n = right(parent(n)) /\ parent(n) = left(grandparent(n))
     THEN t' = rotate_left(t, parent(n)) /\ Goto("insert_case5", t'.node[n].left)
     ELSE IF n = left(parent(n)) /\ parent(n) = right(grandparent(n))
     THEN t' = rotate_right(t, parent(n)) /\ Goto("insert_case5", t'.node[n].right)
     ELSE UNCHANGED t /\ Goto("insert_case5", n)

insert_case5 ==
  /\ At("insert_case5")
  /\ LET s == SetColor(SetColor(t, parent(n), "BLACK"), grandparent(n), "RED")
     IN  t' = IF n = left(parent(n)) /\ parent(n) = left(grandparent(n))
              THEN rotate_right(s, grandparent(n))
              ELSE rotate_left(s, grandparent(n))
  /\ Goto("return", n)
-----------------------------------------------------------------------------
(* rbtree_delete of an absent key. *)
DeleteMissing(k) ==
  /\ At("idle") /\ lookup_node(k) = NULL
  /\ Answer("delete", k, None)
  /\ pc' = "return" /\ UNCHANGED <<t, frame>>

(* Node m takes over key and value of the predecessor that is deleted. *)
TakeKeyOnly(s, m, victim) == [s EXCEPT !.node[m].key = s.node[victim].key]  \* mutant

TakeOver(s, m, victim) ==
  [s EXCEPT !.node[m].key = s.node[victim].key, !.node[m].value = s.node[victim].value]

(* A node with two children takes key and value of its predecessor, which   *)
(* is deleted in its place; a black victim is rebalanced around first.      *)
DeleteFound(k) ==
  /\ At("idle") /\ lookup_node(k) # NULL
  /\ LET m == lookup_node(k)
         inner == left(m) # NULL /\ right(m) # NULL
         victim == IF inner THEN maximum_node(left(m)) ELSE m
         child == IF right(victim) = NULL THEN left(victim) ELSE right(victim)
         s == IF inner THEN TakeOver(t, m, victim) ELSE t
     IN  /\ frame' = [n |-> victim, victim |-> victim, child |-> child]
         /\ IF node_color(victim) = "BLACK"
            THEN t' = SetColor(s, victim, node_color(child)) /\ pc' = "delete_case1"
            ELSE t' = s /\ pc' = "delete_finish"
  /\ Answer("delete", k, None)

delete_case1 ==
  /\ At("delete_case1")
  /\ Goto(IF parent(n) = NULL THEN "delete_finish" ELSE "delete_case2", n)
  /\ UNCHANGED t

delete_case2 ==
  /\ At("delete_case2")
  /\ t' = IF node_color(sibling(n)) = "RED"
          THEN LET s == SetColor(SetColor(t, parent(n), "RED"), sibling(n), "BLACK")
               IN  IF n = left(parent(n)) THEN rotate_left(s, parent(n))
                   ELSE rotate_right(s, parent(n))
          ELSE t
  /\ Goto("delete_case3", n)

(* The sibling of n and both its children are black. *)
BlackSibling ==
  \A x \in {sibling(n), left(sibling(n)), right(sibling(n))} : node_color(x) = "BLACK"

delete_case3 ==
  /\ At("delete_case3")
  /\ IF node_color(parent(n)) = "BLACK" /\ BlackSibling
     THEN t' = SetColor(t, sibling(n), "RED") /\ Goto("delete_case1", parent(n))
     ELSE UNCHANGED t /\ Goto("delete_case4", n)

(* Mutant: the parent stays red. *)
ParentStaysRed ==
  /\ At("delete_case4")
  /\ IF node_color(parent(n)) = "RED" /\ BlackSibling
     THEN t' = SetColor(t, sibling(n), "RED") /\ Goto("delete_finish", n)
     ELSE UNCHANGED t /\ Goto("delete_case5", n)

delete_case4 ==
  /\ At("delete_case4")
  /\ IF node_color(parent(n)) = "RED" /\ BlackSibling
     THEN /\ t' = SetColor(SetColor(t, sibling(n), "RED"), parent(n), "BLACK")
          /\ Goto("delete_finish", n)
     ELSE UNCHANGED t /\ Goto("delete_case5", n)

(* Mutant: the inner red child of the sibling is left inside. *)
NoInnerRotation == At("delete_case5") /\ Goto("delete_case6", n) /\ UNCHANGED t

delete_case5 ==
  /\ At("delete_case5")
  /\ LET s == sibling(n)
         reds(near, far) == /\ node_color(s) = "BLACK"
                            /\ node_color(near) = "RED" /\ node_color(far) = "BLACK"
         lifted(near) == SetColor(SetColor(t, s, "RED"), near, "BLACK")
     IN  t' = IF n = left(parent(n)) /\ reds(left(s), right(s))
              THEN rotate_right(lifted(left(s)), s)
              ELSE IF n = right(parent(n)) /\ reds(right(s), left(s))
              THEN rotate_left(lifted(right(s)), s)
              ELSE t
  /\ Goto("delete_case6", n)

delete_case6 ==
  /\ At("delete_case6")
  /\ LET s == SetColor(SetColor(t, sibling(n), node_color(parent(n))), parent(n), "BLACK")
     IN  t' = IF n = left(parent(n))
              THEN rotate_left(SetColor(s, right(sibling(n)), "BLACK"), parent(n))
              ELSE rotate_right(SetColor(s, left(sibling(n)), "BLACK"), parent(n))
  /\ Goto("delete_finish", n)

(* The tree s without node x, every other node named by its key. *)
Freed(s, x) ==
  LET live == DOMAIN s.node \ {x}
      name(y) == IF y = NULL THEN NULL ELSE s.node[y].key
      named(k) == CHOOSE y \in live : s.node[y].key = k
  IN  [root |-> name(s.root),
       node |-> [k \in {name(y) : y \in live} |->
                   [s.node[named(k)] EXCEPT !.left = name(@), !.right = name(@),
                                            !.parent = name(@)]]]

delete_finish ==
  /\ At("delete_finish")
  /\ LET child == frame.child
         s == replace_node(t, frame.victim, child)
         rooted == IF parent(frame.victim) = NULL /\ child # NULL
                   THEN SetColor(s, child, "BLACK") ELSE s
     IN  t' = Freed(rooted, frame.victim)
  /\ pc' = "return" /\ frame' = NoFrame /\ UNCHANGED req

Return ==
  /\ At("return")
  /\ pc' = "idle" /\ frame' = NoFrame /\ req' = NoRequest
  /\ UNCHANGED t

Next ==
  \/ \E k \in Keys :
       \/ rbtree_lookup(k)
       \/ DeleteMissing(k) \/ DeleteFound(k)
       \/ \E v \in Values : InsertExisting(k, v) \/ InsertNew(k, v)
  \/ insert_case1 \/ insert_case2 \/ insert_case3 \/ insert_case4 \/ insert_case5
  \/ delete_case1 \/ delete_case2 \/ delete_case3 \/ delete_case4 \/ delete_case5
  \/ delete_case6 \/ delete_finish
  \/ Return

Spec == Init /\ [][Next]_vars
-----------------------------------------------------------------------------
(* The shape of a node; every pointer leads to a node that is allocated. *)
TypeOK ==
  /\ t.root \in Pointer
  /\ t.node \in [Nodes -> [key : Keys, value : Values, color : Color,
                           left : Pointer, right : Pointer, parent : Pointer]]
  /\ frame \in [n : Pointer, victim : Pointer, child : Pointer]

(* No pointer dangles, parent and child pointers agree, and the root has no *)
(* parent, whenever a case hands over to the next.                          *)
PointersAgree ==
  /\ TypeOK
  /\ t.root # NULL => parent(t.root) = NULL
  /\ \A x \in Nodes :
       /\ left(x) # NULL => parent(left(x)) = x
       /\ right(x) # NULL => parent(right(x)) = x
       /\ parent(x) # NULL => x \in {left(parent(x)), right(parent(x))}
       /\ parent(x) = NULL => x = t.root

(* The numbers of black nodes on the ways down from x. *)
BlackHeights[x \in Pointer] ==
  IF x = NULL THEN {0}
  ELSE {h + (IF node_color(x) = "BLACK" THEN 1 ELSE 0) :
          h \in BlackHeights[left(x)] \cup BlackHeights[right(x)]}

(* Between calls the tree is a red-black tree: a black root, no red node    *)
(* with a red child, one black height.  Each rebalancing case only repairs  *)
(* its own level, so this is a property of whole cascades.                  *)
RedBlack ==
  pc \in {"idle", "return"} =>
    /\ node_color(t.root) = "BLACK"
    /\ \A x \in Nodes : node_color(x) = "RED" =>
         node_color(left(x)) = "BLACK" /\ node_color(right(x)) = "BLACK"
    /\ Cardinality(BlackHeights[t.root]) = 1

(* The assertions of hextype_rbtree.cc, which stay compiled in because      *)
(* assert.h is included before NDEBUG is defined (lines 2 and 6), and the   *)
(* siblings that are read without asking whether they exist.                *)
AssertionsHold ==
  /\ pc \in {"insert_case3", "insert_case4", "insert_case5"} =>
       parent(n) # NULL /\ grandparent(n) # NULL
  /\ At("insert_case5") =>
       \/ n = left(parent(n)) /\ parent(n) = left(grandparent(n))
       \/ n = right(parent(n)) /\ parent(n) = right(grandparent(n))
  /\ pc \in {"delete_case2", "delete_case3", "delete_case4", "delete_case5", "delete_case6"} =>
       parent(n) # NULL /\ sibling(n) # NULL
  /\ At("delete_case6") =>
       node_color(IF n = left(parent(n)) THEN right(sibling(n)) ELSE left(sibling(n))) = "RED"
  /\ pc \in {"delete_case1", "delete_finish"} =>
       left(frame.victim) = NULL \/ right(frame.victim) = NULL

(* Seen through rbtree_lookup the tree is a map, and each call changes it   *)
(* at its own key alone: rotations, and the predecessor that moves into a   *)
(* deleted node's place, are not observable.                                *)
Content == [k \in Keys |-> LET x == lookup_node(k)
                           IN  IF x = NULL THEN None ELSE t.node[x].value]

Map == INSTANCE Dictionary WITH dict <- Content

ImplementsDictionary == Map!Spec
===============================================================================
