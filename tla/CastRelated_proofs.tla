---------------------------- MODULE CastRelated_proofs ----------------------------
(***************************************************************************)
(* For any program: the list of cast-obj-opt is exact once a round of      *)
(* builds adds nothing, and modules compiled by it trace what they must.   *)
(***************************************************************************)
EXTENDS CastRelated, TLAPS

(* Needed is the least set that covers the casts. *)
LEMMA NeededCovers == TypeOK => Covers(Needed)
<1> SUFFICES ASSUME TypeOK PROVE Covers(Needed)
  OBVIOUS
<1>1. Premade \subseteq Needed
  BY PremadeAssumption DEF Needed, Covers
<1>2. ASSUME NEW m \in Module PROVE source[m] \subseteq Needed
  BY TypesAssumption DEF Needed, Covers, TypeOK
<1>3. ASSUME NEW m \in Module, NEW x \in Types[m], Parents[m][x] \cap Needed # {}
      PROVE  x \in Needed
  <2>1. x \in Type
    BY TypesAssumption
  <2>2. ASSUME NEW X \in SUBSET Type, Covers(X) PROVE x \in X
    <3>1. Needed \subseteq X
      BY <2>2 DEF Needed
    <3>2. Parents[m][x] \cap X # {}
      BY <1>3, <3>1
    <3> QED
      BY <2>2, <3>2 DEF Covers
  <2> QED
    BY <2>1, <2>2 DEF Needed
<1> QED
  BY <1>1, <1>2, <1>3 DEF Covers

LEMMA NeededLeast == ASSUME NEW X \in SUBSET Type, Covers(X) PROVE Needed \subseteq X
BY DEF Needed

(* What follows from a list that derives from what is needed does, too. *)
LEMMA ExtendedNeeded ==
  ASSUME TypeOK, listed \subseteq Needed, NEW m \in Module
  PROVE  Extended(m) \subseteq Needed
<1> SUFFICES ASSUME NEW x \in Extended(m) PROVE x \in Needed
  OBVIOUS
<1>1. x \in Types[m] /\ Parents[m][x] \cap Needed # {}
  BY DEF Extended
<1> QED
  BY <1>1, NeededCovers DEF Covers

(* What the builds since the last merge have contributed. *)
RoundDone ==
  \A m \in round : source[m] \subseteq recorded /\ Extended(m) \subseteq extended \cup listed

ByList ==
  \A m \in Module : object[m].byList =>
    object[m].stack = Types[m] \cap Needed /\ object[m].heap = Types[m] \cap Needed

Inv ==
  /\ TypeOK
  /\ recorded \cup extended \cup listed \subseteq Needed
  /\ Premade \subseteq listed
  /\ RoundDone
  /\ stable => Covers(listed) /\ recorded \cup extended \subseteq listed
  /\ ByList

LEMMA StableList == ASSUME Inv, stable PROVE listed = Needed
BY NeededLeast DEF Inv, TypeOK

LEMMA InvInit == Init => Inv
<1> SUFFICES ASSUME Init PROVE Inv
  OBVIOUS
<1>1. TypeOK
  BY PremadeAssumption DEF Init, TypeOK, Object, Missing
<1>2. listed \subseteq Needed
  BY <1>1, NeededCovers DEF Init, Covers
<1>3. RoundDone /\ ByList
  BY DEF Init, RoundDone, ByList, Missing
<1> QED
  BY <1>1, <1>2, <1>3 DEF Init, Inv

(* The program does not change, so neither does what it needs. *)
LEMMA SameProgram ==
  ASSUME UNCHANGED source
  PROVE  Needed' = Needed /\ \A X : Covers(X)' <=> Covers(X)
BY DEF Needed, Covers

LEMMA CompileStep ==
  ASSUME Inv, NEW m \in Module, NEW create \in BOOLEAN, NEW filter \in BOOLEAN,
         Compile(m, create, filter)
  PROVE  Inv'
<1> DEFINE extension == IF create THEN Extended(m) ELSE {}
<1>1. /\ UNCHANGED <<source, listed, stable>>
      /\ recorded' = IF create THEN recorded \cup source[m] ELSE recorded
      /\ extended' = extended \cup (extension \ listed)
      /\ round' = IF create THEN round \cup {m} ELSE round
  BY DEF Compile
<1>2. Extended(m) \subseteq Types[m] /\ Types[m] \subseteq Type
  BY TypesAssumption DEF Extended
<1>3. source[m] \subseteq Needed /\ Extended(m) \subseteq Needed
  BY NeededCovers, ExtendedNeeded DEF Inv, Covers
<1>4. Needed' = Needed /\ (Covers(listed)' <=> Covers(listed))
  BY <1>1, SameProgram DEF Covers
<1> DEFINE obj == [stack |-> IF filter THEN Kept(m, listed) ELSE Types[m],
                   heap |-> IF filter THEN Kept(m, listed \cup extension) ELSE Types[m],
                   byList |-> filter /\ stable]
<1>5. object' = [object EXCEPT ![m] = obj]
  BY DEF Compile
<1>6. obj \in Object
  BY <1>2 DEF Object, Kept, Inv, TypeOK
<1>7. obj.byList => obj.stack = Types[m] \cap Needed /\ obj.heap = Types[m] \cap Needed
  <2> SUFFICES ASSUME filter, stable
               PROVE  /\ Kept(m, listed) = Types[m] \cap Needed
                      /\ Kept(m, listed \cup extension) = Types[m] \cap Needed
    OBVIOUS
  <2>1. listed = Needed
    BY StableList
  <2> QED
    BY <1>3, <2>1 DEF Kept
<1> HIDE DEF obj
<1>8. TypeOK'
  BY <1>1, <1>2, <1>5, <1>6 DEF Inv, TypeOK
<1>9. (recorded \cup extended \cup listed \subseteq Needed)' /\ (Premade \subseteq listed)'
  BY <1>1, <1>3, <1>4 DEF Inv
<1>10. RoundDone'
  BY <1>1 DEF Inv, RoundDone, Extended
<1>11. stable' => Covers(listed)' /\ (recorded \cup extended \subseteq listed)'
  <2> SUFFICES ASSUME stable
               PROVE  Covers(listed) /\ recorded \cup extended \cup source[m] \cup extension \subseteq listed
    BY <1>1, <1>4
  <2>1. listed = Needed
    BY StableList
  <2> QED
    BY <1>3, <2>1 DEF Inv
<1>12. ByList'
  BY <1>4, <1>5, <1>7 DEF Inv, TypeOK, ByList
<1> QED
  BY <1>8, <1>9, <1>10, <1>11, <1>12 DEF Inv

LEMMA MergeStep == ASSUME Inv, Merge PROVE Inv'
<1>1. /\ UNCHANGED <<source, recorded, extended, object>> /\ round' = {}
      /\ listed' = listed \cup recorded \cup extended
      /\ stable' = (stable \/ (round = Module /\ listed' = listed))
  BY DEF Merge, Merged
<1>2. Needed' = Needed /\ \A X : Covers(X)' <=> Covers(X)
  BY <1>1, SameProgram
<1>3. stable' => listed' = listed /\ Covers(listed) /\ recorded \cup extended \subseteq listed
  <2>1. CASE stable
    BY <1>1, <2>1 DEF Inv
  <2>2. CASE round = Module /\ listed' = listed
    <3>1. recorded \cup extended \subseteq listed
      BY <1>1, <2>2
    <3>2. Premade \subseteq listed
      BY DEF Inv
    <3>3. ASSUME NEW m \in Module
          PROVE  /\ source[m] \subseteq listed
                 /\ \A x \in Types[m] : Parents[m][x] \cap listed # {} => x \in listed
      <4>1. source[m] \subseteq recorded /\ Extended(m) \subseteq extended \cup listed
        BY <2>2 DEF Inv, RoundDone
      <4> QED
        BY <3>1, <4>1 DEF Extended
    <3> QED
      BY <2>2, <3>1, <3>2, <3>3 DEF Covers
  <2> QED
    BY <1>1, <2>1, <2>2
<1>4. TypeOK'
  BY <1>1 DEF Inv, TypeOK
<1>5. ByList'
  BY <1>1, <1>2 DEF Inv, ByList
<1>6. stable' => Covers(listed)' /\ (recorded \cup extended \subseteq listed)'
  BY <1>1, <1>3 DEF Covers
<1> QED
  BY <1>1, <1>2, <1>4, <1>5, <1>6 DEF Inv, RoundDone

LEMMA InvAlways == Spec => []Inv
<1>1. Inv /\ UNCHANGED vars => Inv'
  BY DEF Inv, vars, TypeOK, RoundDone, ByList, Extended, Needed, Covers
<1>2. Inv /\ [Next]_vars => Inv'
  BY <1>1, CompileStep, MergeStep DEF Next
<1> QED
  BY <1>2, InvInit, PTL DEF Spec

(* However many types, modules and rounds: the list stays within what the   *)
(* casts need, and has all of it once a round adds nothing                  *)
(* (HexTypeUtil.cpp:451-493).                                               *)
THEOREM ListIsExact == Spec => []ListExact
<1>1. Inv => ListExact
  BY StableList DEF Inv, ListExact
<1> QED
  BY <1>1, InvAlways, PTL

(* No module compiled by such a list leaves out an object that a cast can   *)
(* be about (HexTypeUtil.cpp:668-690, 735-739).                             *)
THEOREM NothingLeftOut == Spec => []CastObjectsTraced
<1>1. Inv => CastObjectsTraced
  BY DEF Inv, ByList, CastObjectsTraced
<1> QED
  BY <1>1, InvAlways, PTL

(* Two such modules never disagree on a type both have. *)
THEOREM FiltersAgree == Spec => []FreedAsAllocated
<1>1. Inv => FreedAsAllocated
  <2> SUFFICES ASSUME Inv, NEW m \in Module, NEW n \in Module,
                      object[m].byList, object[n].byList
               PROVE  object[m].heap \cap Types[n] \subseteq object[n].heap
    BY DEF FreedAsAllocated
  <2> QED
    BY DEF Inv, ByList
<1> QED
  BY <1>1, InvAlways, PTL
====================================================================================
