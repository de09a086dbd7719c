-------------------------- MODULE PhantomInfo_proofs --------------------------
(***************************************************************************)
(* Merging shared sets loses nothing and invents nothing, for every number *)
(* of types and modules.                                                   *)
(***************************************************************************)
EXTENDS PhantomInfo, TLAPS

(* The set in hand is the set of the record's type. *)
InHand == pc = "inner" => set = SetFor(type)

(* A type and its set object are on the same side of every class, and a set *)
(* object named in a class holds members of it only.                        *)
Sorted(C) ==
  /\ \A h \in Hash : info[h] # None => (h \in C <=> info[h] \in C)
  /\ \A h \in Hash : h \in C => sets[h] \subseteq C
  /\ pc = "inner" => (type \in C <=> set \in C)

Merged ==
  /\ TypeOK
  /\ InHand
  /\ RecordsHonoured
  /\ \A C \in SUBSET Hash : Closed(C) => Sorted(C)

LEMMA NoHash == \A h \in Hash : h # None
BY HashAssumption

LEMMA NextRecord ==
  ASSUME TypeOK, records # <<>>
  PROVE  Head(records) \in Record /\ Tail(records) \in Seq(Record)
BY DEF TypeOK

LEMMA TypeInit == Init => TypeOK
BY LoadsAssumption DEF Init, TypeOK

LEMMA TypeStep == TypeOK /\ [Next]_vars => TypeOK'
<1> SUFFICES ASSUME TypeOK, [Next]_vars PROVE TypeOK'
  OBVIOUS
<1> USE DEF TypeOK
<1>1. ASSUME NEW m \in Modules, BeginLoad(m) PROVE TypeOK'
  BY <1>1, ModulesAssumption, LoadsAssumption DEF BeginLoad
<1>2. CASE BeginRecord
  <2>1. type' \in Hash /\ todo' \subseteq Hash /\ records' \in Seq(Record)
    BY <1>2, NextRecord DEF BeginRecord, Record
  <2>2. set' \in Hash
    BY <1>2, <2>1 DEF BeginRecord, SetFor
  <2> QED
    BY <1>2, <2>1, <2>2 DEF BeginRecord
<1>3. ASSUME NEW p \in Hash, Inner(p) PROVE TypeOK'
  <2>1. Gained(p) \subseteq Hash
    BY DEF Gained, Contents
  <2>2. sets' \in [Hash -> SUBSET Hash]
    BY <1>3, <2>1 DEF Inner
  <2>3. info' \in [Hash -> Hash \cup {None}]
    BY <1>3 DEF Inner, Share
  <2> QED
    BY <1>3, <2>2, <2>3 DEF Inner
<1>4. CASE EndRecord
  BY <1>4 DEF EndRecord
<1>5. CASE EndLoad
  BY <1>5 DEF EndLoad
<1>6. CASE UNCHANGED vars
  BY <1>6 DEF vars
<1> QED
  BY <1>1, <1>2, <1>3, <1>4, <1>5, <1>6 DEF Next

LEMMA MergedInit == Init => Merged
<1> SUFFICES ASSUME Init PROVE Merged
  OBVIOUS
<1>1. InHand /\ RecordsHonoured
  BY DEF Init, InHand, RecordsHonoured
<1>2. \A C \in SUBSET Hash : Sorted(C)
  BY DEF Init, Sorted
<1> QED
  BY <1>1, <1>2, TypeInit DEF Merged

(* What the current set gains, and what becomes of the other sets. *)
LEMMA InnerEffect ==
  ASSUME TypeOK, NEW p \in Hash, Inner(p)
  PROVE  /\ pc = "inner" /\ pc' = "inner" /\ type' = type /\ set' = set
         /\ type \in Hash /\ set \in Hash
         /\ sets'[set] = sets[set] \cup Gained(p)
         /\ \A s \in Hash : s # set => sets'[s] = sets[s]
         /\ \A s \in Hash : sets[s] \subseteq sets'[s]
         /\ \A h \in Hash : h # p => info'[h] = info[h]
         /\ info[p] = None => info'[p] = None
         /\ info[p] # None => info'[p] = set
<1>1. /\ pc = "inner" /\ pc' = "inner" /\ type' = type /\ set' = set
      /\ type \in Hash /\ set \in Hash
      /\ sets' = [sets EXCEPT ![set] = @ \cup Gained(p)] /\ info' = Share(p)
  BY DEF Inner, TypeOK
<1>2. /\ sets'[set] = sets[set] \cup Gained(p)
      /\ \A s \in Hash : s # set => sets'[s] = sets[s]
  BY <1>1 DEF TypeOK
<1>3. \A s \in Hash : sets[s] \subseteq sets'[s]
  BY <1>2
<1>4. /\ \A h \in Hash : h # p => info'[h] = info[h]
      /\ info[p] = None => info'[p] = None
      /\ info[p] # None => info'[p] = set
  BY <1>1 DEF Share, TypeOK
<1> QED
  BY <1>1, <1>2, <1>3, <1>4

(* No step takes a phantom type away from a type. *)
LEMMA ContentsGrow ==
  ASSUME TypeOK, [Next]_vars, NEW h \in Hash
  PROVE  Contents(h) \subseteq Contents(h)'
<1>1. ASSUME NEW p \in Hash, Inner(p) PROVE Contents(h) \subseteq Contents(h)'
  <2>1. CASE h = p /\ info[p] # None
    <3>1. info'[p] = set /\ sets'[set] = sets[set] \cup Gained(p) /\ set # None
      BY <1>1, <2>1, InnerEffect, NoHash
    <3> QED
      BY <2>1, <3>1 DEF Contents, Gained
  <2>2. CASE info'[h] = info[h]
    BY <1>1, <2>2, InnerEffect DEF Contents, TypeOK
  <2> QED
    BY <1>1, <2>1, <2>2, InnerEffect
<1>2. CASE EndRecord
  BY <1>2 DEF EndRecord, Contents, TypeOK
<1>3. CASE UNCHANGED <<info, sets>>
  BY <1>3 DEF Contents
<1> QED
  BY <1>1, <1>2, <1>3 DEF Next, BeginLoad, BeginRecord, EndLoad, vars

LEMMA InHandStep == TypeOK /\ InHand /\ [Next]_vars => InHand'
<1> SUFFICES ASSUME TypeOK, InHand, [Next]_vars PROVE InHand'
  OBVIOUS
<1>1. CASE BeginRecord
  BY <1>1 DEF BeginRecord, InHand, SetFor
<1>2. ASSUME NEW p \in Hash, Inner(p) PROVE InHand'
  <2>1. CASE info'[type] = info[type]
    BY <1>2, <2>1, InnerEffect DEF InHand, SetFor
  <2>2. CASE info'[type] # info[type]
    <3>1. info'[type] = set /\ set # None
      BY <1>2, <2>2, InnerEffect, NoHash
    <3> QED
      BY <1>2, <3>1, InnerEffect DEF InHand, SetFor
  <2> QED
    BY <2>1, <2>2
<1>3. CASE pc' # "inner"
  BY <1>3 DEF InHand
<1>4. CASE UNCHANGED vars
  BY <1>4 DEF vars, InHand, SetFor
<1> QED
  BY <1>1, <1>2, <1>3, <1>4 DEF Next, BeginLoad, EndRecord, EndLoad

(* What a type is checked against does not shrink while a record is read. *)
LEMMA PhantomsGrow ==
  ASSUME TypeOK, InHand, [Next]_vars, NEW h \in Hash
  PROVE  PhantomsOf(h) \subseteq PhantomsOf(h)'
<1>1. CASE pc = "inner" /\ h = type
  <2>1. PhantomsOf(h) = sets[set] /\ set = SetFor(h) /\ set \in Hash /\ set # None
    BY <1>1, NoHash DEF PhantomsOf, InHand, TypeOK
  <2>2. ASSUME NEW p \in Hash, Inner(p) PROVE sets[set] \subseteq PhantomsOf(h)'
    BY <1>1, <2>2, InnerEffect DEF PhantomsOf
  <2>3. CASE EndRecord
    <3>1. info'[h] = set /\ sets' = sets /\ pc' = "record"
      BY <1>1, <2>1, <2>3 DEF EndRecord, SetFor, TypeOK
    <3> QED
      BY <2>1, <3>1 DEF PhantomsOf, Contents
  <2>4. CASE UNCHANGED vars
    BY <2>1, <2>4 DEF vars, PhantomsOf, Contents
  <2> QED
    BY <1>1, <2>1, <2>2, <2>3, <2>4 DEF Next, BeginLoad, BeginRecord, EndLoad
<1>2. CASE ~(pc = "inner" /\ h = type)
  <2>1. PhantomsOf(h) \subseteq Contents(h)'
    BY <1>2, ContentsGrow DEF PhantomsOf
  <2>2. CASE pc' = "inner" /\ h = type'
    <3>1. CASE BeginRecord
      BY <1>2, <2>2, <3>1 DEF BeginRecord, PhantomsOf, Contents, SetFor
    <3> QED
      BY <1>2, <2>2, <3>1 DEF Next, BeginLoad, Inner, EndRecord, EndLoad, vars
  <2>3. CASE ~(pc' = "inner" /\ h = type')
    BY <2>1, <2>3 DEF PhantomsOf
  <2> QED
    BY <2>2, <2>3
<1> QED
  BY <1>1, <1>2

LEMMA HonouredStep == TypeOK /\ InHand /\ RecordsHonoured /\ [Next]_vars => RecordsHonoured'
<1> SUFFICES ASSUME TypeOK, InHand, RecordsHonoured, [Next]_vars, NEW k \in known'
             PROVE  (k[2] \in PhantomsOf(k[1]))'
  BY DEF RecordsHonoured
<1>1. CASE k \in known
  <2>1. k[1] \in Hash /\ k[2] \in PhantomsOf(k[1])
    BY <1>1 DEF RecordsHonoured, TypeOK
  <2> QED
    BY <2>1, PhantomsGrow
<1>2. CASE k \notin known
  <2>1. PICK p \in Hash : Inner(p) /\ k = <<type, p>>
    BY <1>2 DEF Next, BeginLoad, BeginRecord, Inner, EndRecord, EndLoad, vars
  <2>2. p \in sets'[set] /\ pc' = "inner" /\ type' = type /\ set' = set
    BY <2>1, InnerEffect DEF Gained
  <2> QED
    BY <2>1, <2>2 DEF PhantomsOf
<1> QED
  BY <1>1, <1>2

(* Pairs are only added, so a class that is closed after a step was closed. *)
LEMMA SortedStep ==
  ASSUME TypeOK, [Next]_vars, NEW C \in SUBSET Hash, Closed(C)', Closed(C) => Sorted(C)
  PROVE  Sorted(C)'
<1>1. known \subseteq known'
  BY DEF Next, BeginLoad, BeginRecord, Inner, EndRecord, EndLoad, vars
<1>2. Sorted(C)
  BY <1>1 DEF Closed
<1>3. CASE BeginRecord
  <2>1. set' = SetFor(type') /\ info' = info /\ sets' = sets /\ type' \in Hash
    BY <1>3, NextRecord DEF BeginRecord, Record
  <2> QED
    BY <1>2, <2>1 DEF Sorted, SetFor
<1>4. ASSUME NEW p \in Hash, Inner(p) PROVE Sorted(C)'
  <2>1. type \in C <=> p \in C
    <3>1. <<type, p>> \in known'
      BY <1>4 DEF Inner
    <3> QED
      BY <3>1 DEF Closed
  <2>2. type \in C <=> set \in C
    BY <1>2, <1>4, InnerEffect DEF Sorted
  <2>3. \A h \in Hash : info'[h] # None => (h \in C <=> info'[h] \in C)
    BY <1>2, <1>4, <2>1, <2>2, InnerEffect DEF Sorted
  <2>4. set \in C => Gained(p) \subseteq C
    BY <1>2, <2>1, <2>2 DEF Gained, Contents, Sorted, TypeOK
  <2>5. \A h \in Hash : h \in C => sets'[h] \subseteq C
    <3> SUFFICES ASSUME NEW h \in Hash, h \in C PROVE sets'[h] \subseteq C
      OBVIOUS
    <3>1. sets[h] \subseteq C
      BY <1>2 DEF Sorted
    <3>2. CASE h = set
      BY <1>4, <2>4, <3>1, <3>2, InnerEffect
    <3>3. CASE h # set
      BY <1>4, <3>1, <3>3, InnerEffect
    <3> QED
      BY <3>2, <3>3
  <2> QED
    BY <1>4, <2>2, <2>3, <2>5, InnerEffect DEF Sorted
<1>5. CASE EndRecord
  <2>1. \A h \in Hash : info'[h] = info[h] \/ (h = type /\ info'[h] = set)
    BY <1>5 DEF EndRecord, TypeOK
  <2>2. sets' = sets /\ pc = "inner" /\ pc' = "record"
    BY <1>5 DEF EndRecord
  <2> QED
    BY <1>2, <2>1, <2>2 DEF Sorted
<1>6. CASE pc' # "inner" /\ UNCHANGED <<info, sets>>
  BY <1>2, <1>6 DEF Sorted
<1>7. CASE UNCHANGED vars
  BY <1>2, <1>7 DEF Sorted, vars
<1> QED
  BY <1>3, <1>4, <1>5, <1>6, <1>7 DEF Next, BeginLoad, EndLoad

LEMMA MergedStep == Merged /\ [Next]_vars => Merged'
<1> SUFFICES ASSUME Merged, [Next]_vars PROVE Merged'
  OBVIOUS
<1>1. TypeOK' /\ InHand' /\ RecordsHonoured'
  BY TypeStep, InHandStep, HonouredStep DEF Merged
<1>2. ASSUME NEW C \in SUBSET Hash, Closed(C)' PROVE Sorted(C)'
  BY <1>2, SortedStep DEF Merged
<1> QED
  BY <1>1, <1>2 DEF Merged

LEMMA MergedAlways == Spec => []Merged
BY MergedInit, MergedStep, PTL DEF Spec

(* Every variable keeps its shape through any loads in any order; the set    *)
(* and the type in hand are known while a record is read.                   *)
THEOREM TypeCorrect == Spec => []TypeOK
BY TypeInit, TypeStep, PTL DEF Spec

(* A phantom type that one module names is never lost when other modules    *)
(* share, merge or move its set (hextype.cc:574-599).                       *)
THEOREM NoPhantomLost == Spec => []RecordsHonoured
<1>1. Merged => RecordsHonoured
  BY DEF Merged
<1> QED
  BY <1>1, MergedAlways, PTL

(* Sharing set objects never makes phantoms of two types that no chain of   *)
(* named pairs connects (hextype.cc:574-599).                               *)
THEOREM NoPhantomInvented == Spec => []PhantomsJustified
<1>1. Merged => PhantomsJustified
  <2> SUFFICES ASSUME Merged, NEW C \in SUBSET Hash, Closed(C), NEW h \in C
               PROVE  PhantomsOf(h) \subseteq C
    BY DEF PhantomsJustified
  <2>1. Sorted(C) /\ TypeOK /\ h \in Hash
    BY DEF Merged
  <2>2. CASE pc = "inner" /\ h = type
    BY <2>1, <2>2 DEF PhantomsOf, Sorted, TypeOK
  <2>3. CASE ~(pc = "inner" /\ h = type)
    BY <2>1, <2>3 DEF PhantomsOf, Contents, Sorted, TypeOK
  <2> QED
    BY <2>2, <2>3
<1> QED
  BY <1>1, MergedAlways, PTL

(* Loading modules only ever adds phantom types, so a verdict of the cast   *)
(* cache that lets a cast through stays right (hextype.cc:588-594).         *)
THEOREM LoadsOnlyAdd == Spec => PhantomsOnlyGrow
<1>1. Merged /\ [Next]_vars => [\A h \in Hash : Contents(h) \subseteq Contents(h)']_vars
  BY ContentsGrow DEF Merged
<1> QED
  BY <1>1, MergedAlways, PTL DEF Spec, PhantomsOnlyGrow
===============================================================================
