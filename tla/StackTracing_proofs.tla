-------------------------- MODULE StackTracing_proofs --------------------------
(***************************************************************************)
(* For every program the assumptions of StackTracing admit: while an object *)
(* can be checked it is registered, and what a function is completely      *)
(* instrumented for is not left behind.                                    *)
(*                                                                         *)
(* The invariant is stated depth by depth (Good).  A frame whose object is *)
(* alive has it registered; a registration of a completely instrumented    *)
(* function belongs to the frame at its depth, with the object alive if    *)
(* there is a marker to end it; and while it is alive the frame is in the  *)
(* region its markers enclose, so that no return is reached but through    *)
(* the end.                                                                *)
(***************************************************************************)
EXTENDS StackTracing, FiniteSetTheorems, TLAPS

TracedSet == {f \in Functions : Traced(f)}

Region(f, S) ==
  /\ S \in SUBSET Block
  /\ f.starts \subseteq S
  /\ \A b \in S : f.pads[b] \subseteq S
  /\ \A b \in S \ f.ends : f.next[b] \subseteq S
  /\ f.returns \cap S \subseteq f.ends

(* One depth, with the frame's function, block and object if a frame is     *)
(* there, the registration r, and the depths H whose registration an        *)
(* exception left.                                                          *)
Good(T, d, top, f, at, object, r, H) ==
  /\ r # None => r \in T
  /\ d <= top /\ object = "alive" /\ f \in T /\ Cardinality(f.starts) <= 1 => r = f
  /\ d <= top /\ object = "alive" /\ f.starts # {}
       => \E S \in SUBSET Block : Region(f, S) /\ at \in S
  /\ r # None /\ d \notin H /\ Complete(r)
       => d <= top /\ f = r /\ (r.ends = {} \/ object = "alive")

GoodAt(d) == Good(TracedSet, d, depth, frame[d].f, frame[d].at, frame[d].object,
                  registered[d], thrown)

IInv == TypeOK /\ \A d \in Depth : GoodAt(d)
-----------------------------------------------------------------------------
(* Of at most one marker the first is that one.                             *)
LEMMA OneMarker ==
  ASSUME NEW M \in SUBSET Block, Cardinality(M) <= 1, NEW b \in M
  PROVE  First(M) = {b}
<1>1. IsFiniteSet(M)
  BY BlockAssumption, FS_Subset
<1>2. M = {b}
  <2>1. \A c \in M : c = b
    <3>. SUFFICES ASSUME NEW c \in M, c # b PROVE FALSE
      OBVIOUS
    <3>1. {b, c} \subseteq M /\ IsFiniteSet({b, c})
      BY <1>1, FS_Subset
    <3>2. Cardinality({b, c}) = 2
      <4>1. IsFiniteSet({b}) /\ Cardinality({b}) = 1
        BY FS_Singleton
      <4>2. Cardinality({b} \cup {c}) = Cardinality({b}) + 1
        BY <4>1, FS_AddElement
      <4>3. {b, c} = {b} \cup {c}
        OBVIOUS
      <4>. QED BY <4>1, <4>2, <4>3
    <3>3. Cardinality({b, c}) <= Cardinality(M)
      BY <1>1, <3>1, FS_Subset
    <3>4. Cardinality(M) \in Nat
      BY <1>1, FS_CardinalityType
    <3>. QED BY <3>2, <3>3, <3>4
  <2>. QED BY <2>1
<1>3. b \in Nat
  BY BlockAssumption
<1>. QED BY <1>2, <1>3 DEF First

LEMMA FunctionType ==
  ASSUME NEW f \in Functions
  PROVE  /\ f.next \in [Block -> SUBSET Block] /\ f.pads \in [Block -> SUBSET Block]
         /\ f.calls \subseteq Block /\ f.returns \subseteq Block /\ f.resumes \subseteq Block
         /\ f.alloca \in Block /\ f.starts \subseteq Block /\ f.ends \subseteq Block
         /\ (f.starts = {} <=> f.ends = {})
         /\ \E S \in SUBSET Block : Region(f, S)
<1>1. f \in Function /\ WellFormed(f)
  BY FunctionsAssumption
<1>2. \E S \in SUBSET Block : Region(f, S)
  BY <1>1 DEF WellFormed, Matched, Region
<1>. QED BY <1>1, <1>2 DEF Function, WellFormed

LEMMA AddsType ==
  ASSUME NEW f \in Functions, NEW b \in Adds(f)
  PROVE  /\ f \in TracedSet /\ Begins(f, b)
<1>1. Traced(f)
  BY DEF Adds
<1>. QED BY <1>1 DEF Adds, Begins, TracedSet, First
-----------------------------------------------------------------------------
(* A block is entered: what begins there is registered there.               *)
LEMMA ArriveGood ==
  ASSUME NEW f \in Functions, NEW b \in Block, NEW object \in {"alive", "dead"},
         NEW d, NEW top, d <= top, NEW H, NEW r \in Functions \cup {None},
         Good(TracedSet, d, top, f, b, object, r, H)
  PROVE  Good(TracedSet, d, top, f, b, IF Begins(f, b) THEN "alive" ELSE object,
              IF b \in Adds(f) THEN f ELSE r, IF b \in Adds(f) THEN H \ {d} ELSE H)
<1>. DEFINE nr == IF b \in Adds(f) THEN f ELSE r
            nh == IF b \in Adds(f) THEN H \ {d} ELSE H
            no == IF Begins(f, b) THEN "alive" ELSE object
<1>1. nr # None => nr \in TracedSet
  BY AddsType DEF Good
<1>2. ASSUME no = "alive", f \in TracedSet, Cardinality(f.starts) <= 1
      PROVE  nr = f
  <2>1. CASE Begins(f, b)
    <3>1. CASE f.starts = {}
      BY <1>2, <2>1, <3>1 DEF Begins, Adds, TracedSet
    <3>2. CASE f.starts # {}
      <4>1. b \in f.starts
        BY <2>1, <3>2 DEF Begins
      <4>2. First(f.starts) = {b}
        BY <1>2, <4>1, OneMarker, FunctionType
      <4>. QED BY <1>2, <3>2, <4>2 DEF Adds, TracedSet
    <3>. QED BY <3>1, <3>2
  <2>2. CASE ~Begins(f, b)
    BY <1>2, <2>2, AddsType DEF Good
  <2>. QED BY <2>1, <2>2
<1>3. ASSUME no = "alive", f.starts # {}
      PROVE  \E S \in SUBSET Block : Region(f, S) /\ b \in S
  <2>1. CASE object = "alive"
    BY <1>3, <2>1 DEF Good
  <2>2. CASE Begins(f, b)
    <3>1. b \in f.starts
      BY <1>3, <2>2 DEF Begins
    <3>2. PICK S \in SUBSET Block : Region(f, S)
      BY FunctionType
    <3>. QED BY <3>1, <3>2 DEF Region
  <2>. QED BY <1>3, <2>1, <2>2
<1>4. ASSUME nr # None, d \notin nh, Complete(nr)
      PROVE  f = nr /\ (nr.ends = {} \/ no = "alive")
  <2>1. CASE b \in Adds(f)
    BY <2>1, AddsType
  <2>2. CASE b \notin Adds(f)
    BY <1>4, <2>2 DEF Good
  <2>. QED BY <2>1, <2>2
<1>. HIDE DEF nr, nh, no
<1>5. Good(TracedSet, d, top, f, b, no, nr, nh)
  BY <1>1, <1>2, <1>3, <1>4 DEF Good
<1>. QED BY <1>5 DEF nr, nh, no

(* A block is left for a successor: what ends there is removed there.       *)
LEMMA LeaveGood ==
  ASSUME NEW f \in Functions, NEW at \in Block, NEW b \in f.next[at],
         NEW object \in {"alive", "dead"}, NEW d, NEW top, d <= top, NEW H,
         NEW r \in Functions \cup {None}, Good(TracedSet, d, top, f, at, object, r, H)
  PROVE  Good(TracedSet, d, top, f, b, IF at \in f.ends THEN "dead" ELSE object,
              IF at \in DeletesAtEnd(f) THEN None ELSE r, H)
<1>. DEFINE nr == IF at \in DeletesAtEnd(f) THEN None ELSE r
            no == IF at \in f.ends THEN "dead" ELSE object
<1>1. at \in DeletesAtEnd(f) => at \in f.ends
  BY DEF DeletesAtEnd, First
<1>2. nr # None => nr \in TracedSet
  BY DEF Good
<1>3. ASSUME no = "alive", f \in TracedSet, Cardinality(f.starts) <= 1
      PROVE  nr = f
  BY <1>1, <1>3 DEF Good
<1>4. ASSUME no = "alive", f.starts # {}
      PROVE  \E S \in SUBSET Block : Region(f, S) /\ b \in S
  <2>1. PICK S \in SUBSET Block : Region(f, S) /\ at \in S
    BY <1>4 DEF Good
  <2>. QED BY <1>4, <2>1 DEF Region
<1>5. ASSUME nr # None, d \notin H, Complete(nr)
      PROVE  f = nr /\ (nr.ends = {} \/ no = "alive")
  <2>1. nr = r /\ f = r /\ (r.ends = {} \/ object = "alive") /\ at \notin DeletesAtEnd(f)
    BY <1>5 DEF Good
  <2>2. ASSUME r.ends # {}, at \in f.ends PROVE FALSE
    <3>1. Cardinality(f.ends) <= 1 /\ ~ReturnsIt(f) /\ Traced(f)
      BY <1>2, <1>5, <2>1 DEF Complete, ReturnsIt, TracedSet
    <3>2. First(f.ends) = {at}
      BY <2>2, <3>1, OneMarker, FunctionType
    <3>. QED BY <2>1, <2>2, <3>1, <3>2 DEF DeletesAtEnd, Marked
  <2>. QED BY <2>1, <2>2
<1>. HIDE DEF nr, no
<1>6. Good(TracedSet, d, top, f, b, no, nr, H)
  BY <1>2, <1>3, <1>4, <1>5 DEF Good
<1>. QED BY <1>6 DEF nr, no

LEMMA LandGood ==
  ASSUME NEW f \in Functions, NEW at \in Block, NEW b \in f.pads[at],
         NEW object \in {"alive", "dead"}, NEW d, NEW top, NEW H,
         NEW r \in Functions \cup {None}, Good(TracedSet, d, top, f, at, object, r, H)
  PROVE  Good(TracedSet, d, top, f, b, object, r, H)
<1>1. ASSUME d <= top, object = "alive", f.starts # {}
      PROVE  \E S \in SUBSET Block : Region(f, S) /\ b \in S
  <2>1. PICK S \in SUBSET Block : Region(f, S) /\ at \in S
    BY <1>1 DEF Good
  <2>. QED BY <2>1 DEF Region
<1>. QED BY <1>1 DEF Good

(* The function returns: what is complete is removed, at its end or here.   *)
LEMMA ReturnGood ==
  ASSUME NEW f \in Functions, NEW at \in f.returns, NEW object \in {"alive", "dead"},
         NEW d, NEW top, d <= top, NEW H,
         NEW r \in Functions \cup {None}, Good(TracedSet, d, top, f, at, object, r, H),
         r # None, d \notin H, Complete(r)
  PROVE  at \in DeletesAtEnd(f) \cup DeletesAtReturn(f)
<1>1. f = r /\ (r.ends = {} \/ object = "alive")
  BY DEF Good
<1>2. Traced(f) /\ ~ReturnsIt(f) /\ Cardinality(f.ends) <= 1
  BY <1>1 DEF Good, Complete, ReturnsIt, TracedSet
<1>3. CASE f.ends = {}
  BY <1>1, <1>2, <1>3 DEF Complete, DeletesAtReturn
<1>4. CASE f.ends # {}
  <2>1. f.starts # {}
    BY <1>4, FunctionType
  <2>2. PICK S \in SUBSET Block : Region(f, S) /\ at \in S
    BY <1>1, <1>4, <2>1 DEF Good
  <2>3. at \in f.ends
    BY <2>2 DEF Region
  <2>4. First(f.ends) = {at}
    BY <1>2, <2>3, OneMarker, FunctionType
  <2>. QED BY <1>2, <1>4, <2>4 DEF DeletesAtEnd, Marked
<1>. QED BY <1>3, <1>4
-----------------------------------------------------------------------------
LEMMA OptKept == UNCHANGED opt => TracedSet' = TracedSet
BY DEF TracedSet, Traced, IsSafeStackAlloca

LEMMA TopType ==
  ASSUME TypeOK, NEW d \in Depth, d <= depth
  PROVE  frame[d] \in Frame
BY NoneAssumption DEF TypeOK

(* What a step does not touch stays good.                                   *)
LEMMA OthersGood ==
  ASSUME NEW e \in Depth, GoodAt(e), UNCHANGED opt,
         registered'[e] = registered[e], e \in thrown' <=> e \in thrown,
         e <= depth' <=> e <= depth,
         e <= depth => /\ frame'[e].f = frame[e].f /\ frame'[e].at = frame[e].at
                       /\ frame'[e].object = frame[e].object
  PROVE  GoodAt(e)'
<1>1. TracedSet' = TracedSet
  BY OptKept
<1>2. CASE e <= depth
  <2>1. Good(TracedSet, e, depth', frame'[e].f, frame'[e].at, frame'[e].object,
             registered'[e], thrown')
    BY <1>2 DEF GoodAt, Good
  <2>. QED BY <1>1, <2>1, Zenon DEF GoodAt
<1>3. CASE ~(e <= depth)
  <2>1. Good(TracedSet, e, depth', frame'[e].f, frame'[e].at, frame'[e].object,
             registered'[e], thrown')
    BY <1>3 DEF GoodAt, Good
  <2>. QED BY <1>1, <2>1, Zenon DEF GoodAt
<1>. QED BY <1>2, <1>3

(* Entering a block keeps the invariant when the frame is good before it.   *)
LEMMA ArriveKeeps ==
  ASSUME IInv, UNCHANGED <<opt, link, table, globals>>, pending' \subseteq pending,
         NEW d \in Depth,
         NEW f \in Functions, NEW b \in Block, NEW object \in {"alive", "dead"},
         NEW r \in Functions \cup {None},
         Good(TracedSet, d, depth', f, b, object, r, thrown),
         Arrive(d, f, b, object, [registered EXCEPT ![d] = r]),
         depth' \in Depth, d <= depth',
         \A e \in Depth : e # d => (e <= depth' <=> e <= depth)
  PROVE  IInv'
<1>. DEFINE new == [f |-> f, at |-> b, throwing |-> FALSE,
                    object |-> IF Begins(f, b) THEN "alive" ELSE object]
<1>1. /\ registered \in [Depth -> Functions \cup {None}] /\ thrown \subseteq Depth
      /\ frame \in [Depth -> Frame \cup {None}]
  BY DEF IInv, TypeOK
<1>2. /\ frame' = [frame EXCEPT ![d] = new]
      /\ registered' \in [Depth -> Functions \cup {None}]
      /\ registered'[d] = IF b \in Adds(f) THEN f ELSE r
      /\ \A e \in Depth : e # d => registered'[e] = registered[e]
      /\ thrown' = IF b \in Adds(f) THEN thrown \ {d} ELSE thrown
  <2>. DEFINE reg == [registered EXCEPT ![d] = r]
  <2>1. reg \in [Depth -> Functions \cup {None}] /\ reg[d] = r
        /\ \A e \in Depth : e # d => reg[e] = registered[e]
    BY <1>1
  <2>. HIDE DEF reg
  <2>2. registered' = [reg EXCEPT ![d] = IF b \in Adds(f) THEN f ELSE @]
        /\ frame' = [frame EXCEPT ![d] = new]
        /\ thrown' = IF b \in Adds(f) THEN thrown \ {d} ELSE thrown
    BY DEF Arrive, reg
  <2>3. (IF b \in Adds(f) THEN f ELSE r) \in Functions \cup {None}
    OBVIOUS
  <2>4. registered' = [reg EXCEPT ![d] = IF b \in Adds(f) THEN f ELSE r]
    BY <2>1, <2>2
  <2>5. /\ registered' \in [Depth -> Functions \cup {None}]
        /\ registered'[d] = IF b \in Adds(f) THEN f ELSE r
        /\ \A e \in Depth : e # d => registered'[e] = registered[e]
    BY <2>1, <2>3, <2>4
  <2>. QED BY <2>2, <2>5
<1>3. new \in Frame /\ new # None
  <2>1. (IF Begins(f, b) THEN "alive" ELSE object) \in {"alive", "dead"}
    OBVIOUS
  <2>2. new \in Frame
    BY <2>1 DEF Frame
  <2>. QED BY <2>2, NoneAssumption
<1>4. TypeOK'
  <2>1. frame' \in [Depth -> Frame \cup {None}] /\ registered' \in [Depth -> Functions \cup {None}]
        /\ thrown' \subseteq Depth
    BY <1>1, <1>2, <1>3
  <2>2. \A e \in Depth : frame'[e] # None <=> e <= depth'
    BY <1>1, <1>2, <1>3 DEF IInv, TypeOK
  <2>. QED BY <2>1, <2>2 DEF IInv, TypeOK, Depth
<1>5. ASSUME NEW e \in Depth PROVE GoodAt(e)'
  <2>1. CASE e # d
    <3>1. frame'[e] = frame[e] /\ registered'[e] = registered[e]
          /\ (e \in thrown' <=> e \in thrown) /\ (e <= depth' <=> e <= depth)
      BY <1>1, <1>2, <2>1
    <3>2. GoodAt(e)
      BY DEF IInv
    <3>. QED BY <3>1, <3>2, OthersGood
  <2>2. CASE e = d
    <3>1. /\ frame'[e].f = f /\ frame'[e].at = b
          /\ frame'[e].object = IF Begins(f, b) THEN "alive" ELSE object
      BY <1>1, <1>2, <2>2
    <3>2. Good(TracedSet, d, depth', f, b, IF Begins(f, b) THEN "alive" ELSE object,
               IF b \in Adds(f) THEN f ELSE r, IF b \in Adds(f) THEN thrown \ {d} ELSE thrown)
      BY ArriveGood
    <3>. QED BY <1>2, <2>2, <3>1, <3>2, OptKept, Zenon DEF GoodAt
  <2>. QED BY <2>1, <2>2
<1>. QED BY <1>4, <1>5 DEF IInv

LEMMA EnterKeeps ==
  ASSUME IInv, UNCHANGED <<opt, link, table, globals>>, pending' \subseteq pending,
         NEW d \in Depth, d = depth + 1,
         NEW f \in Functions, Enter(d, f)
  PROVE  IInv'
<1>1. /\ registered \in [Depth -> Functions \cup {None}] /\ depth \in 0 .. MaxDepth
      /\ depth' = d
  BY DEF IInv, TypeOK, Enter
<1>2. registered = [registered EXCEPT ![d] = registered[d]] /\ registered[d] \in Functions \cup {None}
  BY <1>1
<1>3. Arrive(d, f, Entry, "dead", [registered EXCEPT ![d] = registered[d]])
  BY <1>2 DEF Enter
<1>4. Good(TracedSet, d, depth', f, Entry, "dead", registered[d], thrown)
  <2>1. GoodAt(d) /\ ~(d <= depth)
    BY <1>1 DEF IInv
  <2>. QED BY <2>1 DEF GoodAt, Good
<1>5. d <= depth' /\ \A e \in Depth : e # d => (e <= depth' <=> e <= depth)
  BY <1>1, DepthAssumption DEF Depth
<1>6. Entry \in Block
  BY BlockAssumption
<1>. QED BY <1>1, <1>2, <1>3, <1>4, <1>5, <1>6, ArriveKeeps

LEMMA BranchKeeps ==
  ASSUME IInv, NEW b \in Block, Branch(b)
  PROVE  IInv'
<1>. DEFINE f == Top.f
            at == Top.at
<1>1. /\ depth \in Depth /\ depth' = depth /\ UNCHANGED <<opt, link, table, globals>> /\ pending' \subseteq pending
      /\ registered \in [Depth -> Functions \cup {None}]
  BY DepthAssumption DEF Branch, IInv, TypeOK, startup, Depth
<1>2. /\ depth <= depth /\ depth <= depth' /\ depth' \in Depth
      /\ \A e \in Depth : e # depth => (e <= depth' <=> e <= depth)
  BY <1>1, DepthAssumption DEF Depth
<1>3. f \in Functions /\ at \in Block /\ Top.object \in {"alive", "dead"}
  <2>1. Top \in Frame
    BY <1>1, <1>2, TopType DEF Top, IInv
  <2>. QED BY <2>1 DEF Frame
<1>4. Good(TracedSet, depth, depth', f, at, Top.object, registered[depth], thrown)
  BY <1>1 DEF IInv, GoodAt, Top
<1>. HIDE DEF f, at
<1>5. CASE Top.throwing
  <2>. DEFINE r == registered[depth]
  <2>1. b \in f.pads[at] /\ Arrive(depth, f, b, Top.object, registered)
    BY <1>5 DEF Branch, f, at
  <2>2. registered = [registered EXCEPT ![depth] = r] /\ r \in Functions \cup {None}
    BY <1>1
  <2>3. Good(TracedSet, depth, depth', f, b, Top.object, r, thrown)
    BY <1>3, <1>4, <2>1, <2>2, LandGood
  <2>4. Arrive(depth, f, b, Top.object, [registered EXCEPT ![depth] = r])
    BY <2>1, <2>2
  <2>. HIDE DEF r
  <2>. QED BY <1>1, <1>2, <1>3, <2>2, <2>3, <2>4, ArriveKeeps
<1>6. CASE ~Top.throwing
  <2>. DEFINE r == IF at \in DeletesAtEnd(f) THEN None ELSE registered[depth]
              o == IF at \in f.ends THEN "dead" ELSE Top.object
  <2>1. b \in f.next[at] /\ Arrive(depth, f, b, o, AtEnd(DeletesAtEnd(f)))
    BY <1>6 DEF Branch, f, at
  <2>2. AtEnd(DeletesAtEnd(f)) = [registered EXCEPT ![depth] = r]
        /\ r \in Functions \cup {None} /\ registered[depth] \in Functions \cup {None}
    BY <1>1 DEF AtEnd, at
  <2>3. Good(TracedSet, depth, depth', f, b, o, r, thrown)
    BY <1>2, <1>3, <1>4, <2>1, <2>2, LeaveGood
  <2>4. Arrive(depth, f, b, o, [registered EXCEPT ![depth] = r])
    BY <2>1, <2>2
  <2>5. o \in {"alive", "dead"}
    BY <1>3
  <2>. HIDE DEF r, o
  <2>. QED BY <1>1, <1>2, <1>3, <2>2, <2>3, <2>4, <2>5, ArriveKeeps
<1>. QED BY <1>5, <1>6

LEMMA CallsKeep ==
  ASSUME IInv, NEW f \in Functions, Start(f) \/ Call(f)
  PROVE  IInv'
<1>1. depth \in 0 .. MaxDepth /\ UNCHANGED <<opt, link, table, globals>> /\ pending' \subseteq pending
  BY DEF IInv, TypeOK, Start, Call, startup
<1>2. CASE Start(f)
  BY <1>1, <1>2, EnterKeeps, DepthAssumption DEF Start, Depth
<1>3. CASE Call(f)
  <2>1. depth + 1 \in Depth /\ Enter(depth + 1, f)
    BY <1>1, <1>3, DepthAssumption DEF Call, Depth
  <2>. QED BY <1>1, <2>1, EnterKeeps
<1>. QED BY <1>2, <1>3

(* What both ways of leaving a frame have in common.                        *)
LEMMA PopKeeps ==
  ASSUME IInv, UNCHANGED <<opt, link, table, globals>>, pending' \subseteq pending,
         NEW d \in Depth, d = depth, depth' = depth - 1,
         frame' \in [Depth -> Frame \cup {None}],
         frame'[d] = None,
         \A e \in Depth : e # d =>
           /\ frame'[e] # None <=> frame[e] # None
           /\ e <= depth => /\ frame'[e].f = frame[e].f /\ frame'[e].at = frame[e].at
                            /\ frame'[e].object = frame[e].object
           /\ registered'[e] = registered[e]
           /\ e \in thrown' <=> e \in thrown,
         registered' \in [Depth -> Functions \cup {None}], thrown' \in SUBSET Depth,
         GoodAt(d)'
  PROVE  IInv'
<1>1. depth \in 1 .. MaxDepth /\ MaxDepth \in Nat
  BY DepthAssumption DEF Depth
<1>2. TypeOK'
  <2>1. \A e \in Depth : frame'[e] # None <=> e <= depth'
    BY <1>1 DEF IInv, TypeOK, Depth
  <2>. QED BY <1>1, <2>1 DEF IInv, TypeOK, Depth
<1>3. ASSUME NEW e \in Depth PROVE GoodAt(e)'
  <2>1. CASE e = d
    BY <2>1
  <2>2. CASE e # d
    <3>1. /\ GoodAt(e) /\ (e <= depth' <=> e <= depth) /\ (e <= depth => e < d)
      BY <1>1, <2>2 DEF IInv, Depth
    <3>. QED BY <2>2, <3>1, OthersGood
  <2>. QED BY <2>1, <2>2
<1>. QED BY <1>2, <1>3 DEF IInv

LEMMA ReturnKeeps ==
  ASSUME IInv, Return
  PROVE  IInv'
<1>1. /\ depth \in Depth /\ depth' = depth - 1 /\ UNCHANGED <<opt, link, pending, table, globals, thrown>>
      /\ depth <= depth /\ ~(depth <= depth')
      /\ registered \in [Depth -> Functions \cup {None}] /\ thrown \subseteq Depth
      /\ frame \in [Depth -> Frame \cup {None}]
  BY DepthAssumption DEF Return, Pop, IInv, TypeOK, startup, Depth
<1>2. Top \in Frame /\ Top.at \in Top.f.returns
  BY <1>1, TopType DEF Top, IInv, Return
<1>3. Top.f \in Functions /\ Top.object \in {"alive", "dead"}
  BY <1>2 DEF Frame
<1>4. PICK d \in Depth : d = depth
  BY <1>1
<1>. DEFINE r == IF Top.at \in DeletesAtEnd(Top.f) \cup DeletesAtReturn(Top.f)
                 THEN None ELSE registered[d]
<1>5. Good(TracedSet, d, depth, Top.f, Top.at, Top.object, registered[d], thrown)
  BY <1>4 DEF IInv, GoodAt, Top
<1>6. /\ registered' = [registered EXCEPT ![d] = r]
      /\ frame' = [frame EXCEPT ![d] = None]
  BY <1>1, <1>4 DEF Return, AtEnd
<1>7. /\ frame' \in [Depth -> Frame \cup {None}] /\ frame'[d] = None
      /\ registered' \in [Depth -> Functions \cup {None}] /\ registered'[d] = r
      /\ \A e \in Depth : e # d => frame'[e] = frame[e] /\ registered'[e] = registered[e]
      /\ registered[d] \in Functions \cup {None}
  BY <1>1, <1>6
<1>8. Good(TracedSet, d, depth', frame'[d].f, frame'[d].at, frame'[d].object, r, thrown)
  <2>1. d <= depth /\ ~(d <= depth')
    BY <1>1, <1>4
  <2>2. registered[d] \in Functions \cup {None}
    BY <1>7
  <2>3. r # None => r = registered[d] /\ registered[d] \in TracedSet
    BY <1>5 DEF Good
  <2>4. ASSUME r # None, d \notin thrown, Complete(r) PROVE FALSE
    <3>1. PICK f, at, object, x :
            f = Top.f /\ at = Top.at /\ object = Top.object /\ x = registered[d]
      OBVIOUS
    <3>2. /\ f \in Functions /\ at \in f.returns /\ object \in {"alive", "dead"}
          /\ x \in Functions \cup {None} /\ Good(TracedSet, d, depth, f, at, object, x, thrown)
          /\ x # None /\ Complete(x) /\ at \notin DeletesAtEnd(f) \cup DeletesAtReturn(f)
      BY <1>2, <1>3, <1>5, <2>2, <2>3, <2>4, <3>1
    <3>. QED BY <2>1, <2>4, <3>2, ReturnGood
  <2>. HIDE DEF r
  <2>. QED BY <2>1, <2>3, <2>4 DEF Good
<1>. HIDE DEF r
<1>9. GoodAt(d)'
  BY <1>1, <1>7, <1>8, OptKept, Zenon DEF GoodAt
<1>10. thrown' \in SUBSET Depth /\ \A e \in Depth : e \in thrown' <=> e \in thrown
  BY <1>1
<1>. QED BY <1>1, <1>4, <1>7, <1>9, <1>10, PopKeeps

LEMMA UnwindKeeps ==
  ASSUME IInv, Unwind
  PROVE  IInv'
<1>1. /\ depth \in Depth /\ depth - 1 \in Depth /\ depth' = depth - 1 /\ depth <= depth
      /\ ~(depth <= depth') /\ UNCHANGED <<opt, link, table, globals>> /\ pending' \subseteq pending /\ depth - 1 # depth
      /\ depth - 1 <= depth
      /\ registered \in [Depth -> Functions \cup {None}] /\ thrown \subseteq Depth
      /\ frame \in [Depth -> Frame \cup {None}]
  BY DepthAssumption DEF Unwind, Pop, IInv, TypeOK, startup, Depth
<1>2. PICK d \in Depth, c \in Depth : d = depth /\ c = depth - 1
  BY <1>1
<1>3. frame[c] \in Frame
  BY <1>1, <1>2, TopType DEF IInv
<1>. DEFINE r == IF ~Top.throwing /\ Top.at \in DeletesAtEnd(Top.f) THEN None ELSE registered[d]
            h == IF r = None THEN thrown ELSE thrown \cup {d}
            fc == [frame[c] EXCEPT !.throwing = TRUE]
<1>4. r = None \/ r = registered[d]
  OBVIOUS
<1>5. GoodAt(d)
  BY DEF IInv
<1>6. /\ registered' = [registered EXCEPT ![d] = r]
      /\ registered' \in [Depth -> Functions \cup {None}] /\ registered'[d] = r
      /\ \A e \in Depth : e # d => registered'[e] = registered[e]
  <2>1. registered' = [registered EXCEPT ![d] = r]
    <3>1. registered = [registered EXCEPT ![d] = registered[d]]
      BY <1>1
    <3>. QED BY <1>2, <3>1 DEF Unwind, AtEnd
  <2>2. r \in Functions \cup {None}
    BY <1>1, <1>4
  <2>. HIDE DEF r
  <2>. QED BY <1>1, <2>1, <2>2
<1>7. thrown' = h
  BY <1>2, <1>6 DEF Unwind
<1>8. /\ fc \in Frame /\ fc # None /\ frame[c] # None
      /\ fc.f = frame[c].f /\ fc.at = frame[c].at /\ fc.object = frame[c].object
  BY <1>3, NoneAssumption DEF Frame
<1>9. frame' = [frame EXCEPT ![d] = None, ![c] = fc]
  BY <1>1, <1>2 DEF Unwind
<1>. HIDE DEF r, fc
<1>10. /\ frame' \in [Depth -> Frame \cup {None}] /\ frame'[d] = None /\ frame'[c] = fc
       /\ \A e \in Depth : e # d /\ e # c => frame'[e] = frame[e]
  BY <1>1, <1>2, <1>8, <1>9
<1>11. Good(TracedSet, d, depth', frame'[d].f, frame'[d].at, frame'[d].object, r, h)
  BY <1>1, <1>2, <1>4, <1>5 DEF GoodAt, Good
<1>12. h \in SUBSET Depth /\ \A e \in Depth : e # d => (e \in h <=> e \in thrown)
  BY <1>1
<1>. HIDE DEF h
<1>13. GoodAt(d)'
  BY <1>1, <1>6, <1>7, <1>11, OptKept, Zenon DEF GoodAt
<1>14. \A e \in Depth : e # d =>
         /\ frame'[e] # None <=> frame[e] # None
         /\ e <= depth => /\ frame'[e].f = frame[e].f /\ frame'[e].at = frame[e].at
                          /\ frame'[e].object = frame[e].object
  BY <1>8, <1>10
<1>. QED BY <1>1, <1>2, <1>6, <1>7, <1>10, <1>12, <1>13, <1>14, PopKeeps

LEMMA ThrowKeeps ==
  ASSUME IInv, Throw
  PROVE  IInv'
<1>1. /\ depth \in Depth /\ depth <= depth /\ UNCHANGED <<opt, link, pending, table, globals, depth, registered, thrown>>
      /\ frame \in [Depth -> Frame \cup {None}]
      /\ frame' = [frame EXCEPT ![depth].throwing = TRUE]
  BY DepthAssumption DEF Throw, IInv, TypeOK, startup, Depth
<1>2. PICK d \in Depth : d = depth
  BY <1>1
<1>3. frame[d] \in Frame
  BY <1>1, <1>2, TopType DEF IInv
<1>. DEFINE fd == [frame[d] EXCEPT !.throwing = TRUE]
<1>4. /\ fd \in Frame /\ fd # None /\ frame[d] # None
      /\ fd.f = frame[d].f /\ fd.at = frame[d].at /\ fd.object = frame[d].object
  BY <1>3, NoneAssumption DEF Frame
<1>5. frame' = [frame EXCEPT ![d] = fd]
  BY <1>1, <1>2
<1>. HIDE DEF fd
<1>6. /\ frame' \in [Depth -> Frame \cup {None}]
      /\ \A e \in Depth : /\ frame'[e] # None <=> frame[e] # None
                          /\ frame'[e].f = frame[e].f /\ frame'[e].at = frame[e].at
                          /\ frame'[e].object = frame[e].object
  BY <1>1, <1>4, <1>5
<1>7. TypeOK'
  BY <1>1, <1>6 DEF IInv, TypeOK, Depth
<1>8. ASSUME NEW e \in Depth PROVE GoodAt(e)'
  <2>1. GoodAt(e)
    BY DEF IInv
  <2>2. (e \in thrown' <=> e \in thrown) /\ (e <= depth' <=> e <= depth) /\ registered'[e] = registered[e]
    BY <1>1
  <2>. QED BY <1>1, <1>6, <2>1, <2>2, OthersGood
<1>. QED BY <1>7, <1>8 DEF IInv

LEMMA StartupKeeps ==
  ASSUME IInv, NEW m \in Module, InitTable(m) \/ InitGlobals(m)
  PROVE  IInv'
<1>1. /\ UNCHANGED <<opt, link, depth, frame, registered, thrown>>
      /\ table' \in BOOLEAN /\ globals' \subseteq Typed /\ pending' \subseteq pending
  BY DEF IInv, TypeOK, InitTable, InitGlobals
<1>2. TypeOK'
  BY <1>1 DEF IInv, TypeOK, Depth
<1>3. ASSUME NEW e \in Depth PROVE GoodAt(e)'
  <2>1. GoodAt(e)
    BY DEF IInv
  <2>2. (e \in thrown' <=> e \in thrown) /\ (e <= depth' <=> e <= depth) /\ registered'[e] = registered[e]
        /\ frame'[e] = frame[e]
    BY <1>1
  <2>. QED BY <1>1, <2>1, <2>2, OthersGood
<1>. QED BY <1>2, <1>3 DEF IInv
-----------------------------------------------------------------------------
LEMMA InvInit == Init => IInv
<1>. SUFFICES ASSUME Init PROVE IInv
  OBVIOUS
<1>1. TypeOK
  <2>1. \A d \in Depth : frame[d] = None /\ ~(d <= depth)
    BY DepthAssumption DEF Init, Depth
  <2>2. frame \in [Depth -> Frame \cup {None}] /\ registered \in [Depth -> Functions \cup {None}]
    BY DEF Init
  <2>3. depth \in 0 .. MaxDepth
    BY DepthAssumption DEF Init
  <2>. QED BY <2>1, <2>2, <2>3 DEF Init, TypeOK
<1>2. ASSUME NEW d \in Depth PROVE GoodAt(d)
  <2>1. registered[d] = None /\ ~(d <= depth)
    BY DepthAssumption DEF Init, Depth
  <2>. QED BY <2>1 DEF GoodAt, Good
<1>. QED BY <1>1, <1>2 DEF IInv

LEMMA InvStep == IInv /\ [Next]_vars => IInv'
<1>. SUFFICES ASSUME IInv, [Next]_vars PROVE IInv'
  OBVIOUS
<1>1. CASE \E m \in Module : InitTable(m) \/ InitGlobals(m)
  BY <1>1, StartupKeeps
<1>2. CASE \E f \in Functions : Start(f) \/ Call(f)
  BY <1>2, CallsKeep
<1>3. CASE \E b \in Block : Branch(b)
  BY <1>3, BranchKeeps
<1>4. CASE Return
  BY <1>4, ReturnKeeps
<1>5. CASE Throw
  BY <1>5, ThrowKeeps
<1>6. CASE Unwind
  BY <1>6, UnwindKeeps
<1>7. CASE UNCHANGED vars
  <2>1. TypeOK'
    BY <1>7 DEF IInv, TypeOK, vars, Depth
  <2>2. ASSUME NEW e \in Depth PROVE GoodAt(e)'
    <3>1. GoodAt(e)
      BY DEF IInv
    <3>2. /\ UNCHANGED opt /\ (e \in thrown' <=> e \in thrown) /\ (e <= depth' <=> e <= depth)
          /\ registered'[e] = registered[e] /\ frame'[e] = frame[e]
      BY <1>7 DEF vars
    <3>. QED BY <3>1, <3>2, OthersGood
  <2>. QED BY <2>1, <2>2 DEF IInv
<1>. QED BY <1>1, <1>2, <1>3, <1>4, <1>5, <1>6, <1>7 DEF Next

(* The invariant holds in every program.                                    *)
THEOREM Inductive == Spec => []IInv
BY InvInit, InvStep, PTL DEF Spec

(* The stack, the registrations and the options keep their types: a frame  *)
(* is there exactly at the depths the stack has.                            *)
THEOREM TypeCorrect == Spec => []TypeOK
<1>1. IInv => TypeOK
  BY DEF IInv
<1>. QED BY <1>1, Inductive, PTL

LEMMA InvLive == IInv => LiveKnown
<1>. SUFFICES ASSUME IInv, NEW d \in 1 .. depth,
                     frame[d].object = "alive", frame[d].at \in frame[d].f.calls,
                     frame[d].f.uses # {}, ~GivenUp(frame[d].f), frame[d].f.object # "late",
                     Cardinality(frame[d].f.starts) <= 1
              PROVE  registered[d] = frame[d].f
  BY DEF LiveKnown
<1>. DEFINE f == frame[d].f
<1>1. d \in Depth /\ d <= depth
  BY DepthAssumption DEF IInv, TypeOK, Depth
<1>2. frame[d] \in Frame
  BY <1>1, TopType DEF IInv
<1>3. f \in Functions
  BY <1>2 DEF Frame
<1>4. ~(opt.safe /\ IsSafeStackAlloca(f))
  BY DEF GivenUp, IsSafeStackAlloca
<1>5. f \in TracedSet
  BY <1>3, <1>4 DEF TracedSet, Traced
<1>. QED BY <1>1, <1>5 DEF IInv, GoodAt, Good

(* While a function calls, its object is registered if it is alive and can  *)
(* be reached by a check (HexTypePass.cpp:131-182, 316-348).                *)
THEOREM AliveIsKnown == Spec => []LiveKnown
BY InvLive, Inductive, PTL

LEMMA InvNoneLeft == IInv => NoneLeft
<1>. SUFFICES ASSUME IInv, NEW d \in Depth, d > depth, registered[d] # None, d \notin thrown
              PROVE  ~Complete(registered[d])
  BY DEF NoneLeft
<1>1. ~(d <= depth)
  BY DepthAssumption DEF IInv, TypeOK, Depth
<1>. QED BY <1>1 DEF IInv, GoodAt, Good

(* A function whose markers and returns are covered leaves no registration  *)
(* behind unless an exception unwinds it (HexTypePass.cpp:194-251).         *)
THEOREM NothingLeft == Spec => []NoneLeft
BY InvNoneLeft, Inductive, PTL
-----------------------------------------------------------------------------
(* The constructors: what has run of a module's, and that the program's own *)
(* code waits for all of HexType's.                                         *)
GlobalsOf(m) == Constructor("__init_global_object", m)
TableOf(m) == Constructor("__init", m)

Started ==
  /\ globals = {m \in Typed : GlobalsOf(m) \notin pending}
  /\ \A m \in Typed : GlobalsOf(m) \notin pending => TableOf(m) \notin pending
  /\ (\E m \in Typed : TableOf(m) \notin pending) => table
  /\ depth > 0 => \A c \in pending : c.what = "user"

(* The table's constructor precedes that of the same module's globals.      *)
LEMMA TableFirst ==
  ASSUME NEW m \in Typed
  PROVE  Precedes(TableOf(m), GlobalsOf(m))
<1>1. Appended(m) = <<TableOf(m), GlobalsOf(m)>>
  BY DEF Appended, TableOf, GlobalsOf
<1>2. 1 \in DOMAIN Appended(m) /\ 2 \in DOMAIN Appended(m)
      /\ Appended(m)[1] = TableOf(m) /\ Appended(m)[2] = GlobalsOf(m)
  BY <1>1
<1>3. GlobalsOf(m).module = m
  BY DEF GlobalsOf, Constructor
<1>. QED BY <1>2, <1>3 DEF Precedes

(* Those of HexType precede those of the program.                           *)
LEMMA ProgramLast ==
  ASSUME NEW c, NEW d, d.what = "user", ~Precedes(c, d)
  PROVE  c.what = "user"
BY DEF Precedes, Priority

LEMMA ConstructorNames ==
  \A m, k : /\ TableOf(m) # GlobalsOf(k)
            /\ (GlobalsOf(m) = GlobalsOf(k) => m = k)
            /\ TableOf(m).what # "user" /\ GlobalsOf(m).what # "user"
<1>. TAKE m, k
<1>1. /\ TableOf(m).what = "__init" /\ GlobalsOf(m).what = "__init_global_object"
      /\ GlobalsOf(k).what = "__init_global_object"
      /\ GlobalsOf(m).module = m /\ GlobalsOf(k).module = k
  BY DEF TableOf, GlobalsOf, Constructor
<1>. QED BY <1>1

LEMMA AllThere ==
  ASSUME NEW m \in Typed
  PROVE  TableOf(m) \in Constructors /\ GlobalsOf(m) \in Constructors
<1>1. m \in Module
  BY ModuleAssumption
<1>2. Appended(m) = <<TableOf(m), GlobalsOf(m)>>
  BY DEF Appended, TableOf, GlobalsOf
<1>3. 1 \in DOMAIN Appended(m) /\ 2 \in DOMAIN Appended(m)
      /\ Appended(m)[1] = TableOf(m) /\ Appended(m)[2] = GlobalsOf(m)
  BY <1>2
<1>. QED BY <1>1, <1>3 DEF Constructors

LEMMA StartedInit == Init => Started
<1>. SUFFICES ASSUME Init PROVE Started
  OBVIOUS
<1>. QED BY AllThere DEF Init, Started

LEMMA StartedStep ==
  ASSUME TypeOK, Started, [Next]_vars
  PROVE  Started'
<1>1. ASSUME NEW m \in Module, InitTable(m)
      PROVE  Started'
  <2>1. /\ pending' = pending \ {TableOf(m)} /\ table' /\ UNCHANGED <<globals, depth>>
        /\ depth = 0
    BY <1>1 DEF InitTable, Due, TableOf
  <2>2. \A k : GlobalsOf(k) \in pending' <=> GlobalsOf(k) \in pending
    BY <2>1, ConstructorNames
  <2>3. \A k : TableOf(k) \notin pending => TableOf(k) \notin pending'
    BY <2>1
  <2>. QED BY <2>1, <2>2, <2>3 DEF Started
<1>2. ASSUME NEW m \in Module, InitGlobals(m)
      PROVE  Started'
  <2>1. /\ pending' = pending \ {GlobalsOf(m)} /\ UNCHANGED <<table, depth>> /\ depth = 0
        /\ globals' = globals \cup ({m} \cap Typed)
        /\ \A d \in pending : ~Precedes(d, GlobalsOf(m))
    BY <1>2 DEF InitGlobals, Due, GlobalsOf
  <2>2. globals' = {k \in Typed : GlobalsOf(k) \notin pending'}
    BY <2>1, ConstructorNames DEF Started
  <2>3. m \in Typed => TableOf(m) \notin pending
    BY <2>1, TableFirst
  <2>4. ASSUME NEW k \in Typed, GlobalsOf(k) \notin pending' PROVE TableOf(k) \notin pending'
    BY <2>1, <2>3, <2>4, ConstructorNames DEF Started
  <2>5. \A k : TableOf(k) \in pending' <=> TableOf(k) \in pending
    BY <2>1, ConstructorNames
  <2>. QED BY <2>1, <2>2, <2>4, <2>5 DEF Started
<1>3. ASSUME NEW f \in Functions, Start(f)
      PROVE  Started'
  <2>1. UNCHANGED <<table, globals>>
    BY <1>3 DEF Start
  <2>2. /\ \A c \in pending' : c \in pending /\ c.what = "user"
        /\ \A c \in pending : c.what # "user" => c \in pending'
    <3>1. CASE pending = {}
      BY <1>3, <3>1 DEF Start
    <3>2. CASE pending # {}
      <4>1. PICK c \in pending : Due(c) /\ c.what = "user" /\ pending' = pending \ {c}
        BY <1>3, <3>2 DEF Start
      <4>. QED BY <4>1, ProgramLast DEF Due
    <3>. QED BY <3>1, <3>2
  <2>3. \A m : /\ TableOf(m) \in pending' <=> TableOf(m) \in pending
               /\ GlobalsOf(m) \in pending' <=> GlobalsOf(m) \in pending
    BY <2>2, ConstructorNames
  <2>. QED BY <2>1, <2>2, <2>3 DEF Started
<1>4. ASSUME UNCHANGED <<pending, table, globals>>, depth' > 0 => depth > 0
      PROVE  Started'
  BY <1>4 DEF Started
<1>5. ASSUME NEW f \in Functions, Call(f)
      PROVE  UNCHANGED <<pending, table, globals>> /\ depth > 0
  BY <1>5, DepthAssumption DEF Call, startup
<1>6. ASSUME NEW b \in Block, Branch(b)
      PROVE  UNCHANGED <<pending, table, globals>> /\ depth > 0
  BY <1>6 DEF Branch, startup
<1>7. ASSUME Return \/ Throw \/ Unwind
      PROVE  UNCHANGED <<pending, table, globals>> /\ depth > 0
  BY <1>7, DepthAssumption DEF Return, Throw, Unwind, Pop, startup, TypeOK
<1>8. CASE UNCHANGED vars
  BY <1>8 DEF vars, Started
<1>. QED BY <1>1, <1>2, <1>3, <1>4, <1>5, <1>6, <1>7, <1>8 DEF Next

LEMMA InvGlobals == Started => GlobalsKnown
<1>. SUFFICES ASSUME Started PROVE GlobalsKnown
  OBVIOUS
<1>1. globals # {} => table
  BY DEF Started
<1>2. depth > 0 => globals = Typed
  BY ConstructorNames DEF Started
<1>. QED BY <1>1, <1>2 DEF GlobalsKnown

(* Whatever the order modules are linked in, the table is there before the  *)
(* first global is registered, and all globals are before any code of the   *)
(* program, its constructors included, runs (HexTypePass.cpp:350-391).      *)
THEOREM GlobalsComeFirst == Spec => []GlobalsKnown
<1>1. TypeOK /\ Started /\ [Next]_vars => Started'
  BY StartedStep
<1>. QED BY <1>1, StartedInit, InvGlobals, TypeCorrect, PTL DEF Spec
===============================================================================
