-------------------------- MODULE TypeRelation_proofs --------------------------
(***************************************************************************)
(* For every number of types and every module: the sets the compiler        *)
(* derives are what the module's names mean, and beyond that only what the *)
(* first type of the module leads to, which stands for every name that is  *)
(* not resolved; and the two arrays it emits for them are read back as     *)
(* they were written.                                                      *)
(***************************************************************************)
EXTENDS RuleTable, FiniteSetTheorems, SequenceTheorems, WellFoundedInduction, TLAPS

LEMMA ModuleParts ==
  ASSUME NEW m \in Modules
  PROVE  /\ m \in Module /\ m.elements \in [Types -> SUBSET Names]
         /\ m.size \in [Types -> Nat] /\ m.lines \in SUBSET Line
BY ModulesAssumption DEF Module

LEMMA TypesAre == 0 \in Types /\ \A t \in Types : t \in Int /\ 0 <= t /\ t < AllTypeNum
BY NumAssumption DEF Types

LEMMA Details ==
  /\ \A n \in Names : Unresolved(n) \in Detail
  /\ \A t \in Types : Resolved(t) \in Detail
BY TypesAre DEF Unresolved, Resolved, Detail, Names

LEMMA Fields ==
  /\ \A n : Unresolved(n).type = n /\ Unresolved(n).index = 0
  /\ \A t : Resolved(t).type = t /\ Resolved(t).index = t
BY DEF Unresolved, Resolved

LEMMA TypeInit == Init => TypeOK
<1> SUFFICES ASSUME Init PROVE TypeOK
  OBVIOUS
<1>1. module.elements \in [Types -> SUBSET Names] /\ module.lines \in SUBSET Line
  BY ModuleParts DEF Init
<1>2. parents \in [Types -> SUBSET Detail]
  BY <1>1, Details DEF Init
<1> QED
  BY <1>1, <1>2, NumAssumption DEF Init, TypeOK

LEMMA StartTypes ==
  ASSUME NEW routine \in {"parents", "phantoms"}, NEW t \in Types, Start(routine, t)
  PROVE  /\ i' \in 0 .. AllTypeNum /\ visited' \subseteq Types /\ calls' \subseteq Types
         /\ pc' \in {"parents", "phantoms"} /\ i' \in Types
BY TypesAre, NumAssumption DEF Start

LEMMA TypeStep == TypeOK /\ [Next]_vars => TypeOK'
<1> SUFFICES ASSUME TypeOK, [Next]_vars PROVE TypeOK'
  OBVIOUS
<1> USE DEF TypeOK
<1>1. ASSUME NEW l \in Line, ReadLine(l) PROVE TypeOK'
  <2>1. ASSUME NEW kind, NEW entries \in [Types -> SUBSET Detail]
        PROVE  Adding(l, kind, entries) \in [Types -> SUBSET Detail]
    BY Details DEF Adding, Line
  <2> QED
    BY <1>1, <2>1 DEF ReadLine
<1>2. CASE ReadEnd
  BY <1>2 DEF ReadEnd, direct
<1>3. CASE Resolve
  <2>1. i \in Types /\ i + 1 \in 0 .. AllTypeNum
    BY <1>3, NumAssumption DEF Resolve, Types
  <2>2. parents' \in [Types -> SUBSET Detail]
    BY <1>3, <2>1, Details DEF Resolve, NamedBy
  <2>3. \A u \in Types : NewPhantoms(u) \subseteq Detail
    BY <2>1, Details DEF NewPhantoms, SameSize, NamedBy
  <2>4. phantoms' \in [Types -> SUBSET Detail]
    BY <1>3, <2>3 DEF Resolve
  <2> QED
    BY <1>3, <2>1, <2>2, <2>4 DEF Resolve
<1>4. CASE ResolveEnd
  BY <1>4, StartTypes, TypesAre DEF ResolveEnd, direct
<1>5. ASSUME NEW c \in Types, ExtendParentSet(c) PROVE TypeOK'
  <2>1. ParentCalls(c) \subseteq Types
    BY DEF ParentCalls, Detail
  <2> QED
    BY <1>5, <2>1 DEF ExtendParentSet, Visit, direct
<1>6. ASSUME NEW c \in Types, ExtendPhantomSet(c) PROVE TypeOK'
  <2>1. PhantomCalls(c) \subseteq Types
    BY DEF PhantomCalls, Detail
  <2> QED
    BY <1>6, <2>1 DEF ExtendPhantomSet, Visit, direct
<1>7. ASSUME NEW c \in Types, AlreadyVisited(c) PROVE TypeOK'
  BY <1>7 DEF AlreadyVisited, direct
<1>8. CASE ParentsEnd
  BY <1>8, StartTypes DEF ParentsEnd, direct
<1>9. CASE PhantomsEnd
  <2>1. CASE i + 1 < AllTypeNum /\ Start("parents", i + 1)
    <3>1. i + 1 \in Types
      BY <2>1, NumAssumption DEF Types
    <3> QED
      BY <1>9, <2>1, <3>1, StartTypes DEF PhantomsEnd, direct
  <2>2. CASE pc' = "done" /\ UNCHANGED <<i, visited, calls>>
    BY <1>9, <2>2 DEF PhantomsEnd, direct
  <2> QED
    BY <1>9, <2>1, <2>2 DEF PhantomsEnd
<1>10. CASE UNCHANGED vars
  BY <1>10 DEF vars, direct
<1> QED
  BY <1>1, <1>2, <1>3, <1>4, <1>5, <1>6, <1>7, <1>8, <1>9, <1>10 DEF Next
-----------------------------------------------------------------------------
(* Reading: the entries of a type and the lines still unread name what the  *)
(* module names, and where a phantom line has been read there is an entry.  *)
NamesParent(t, n) ==
  (\E p \in parents[t] : p.type = n) \/ [kind |-> 1, from |-> t, to |-> n] \in unread
AwaitsPhantom(t) == \E n \in Names : [kind |-> 2, from |-> t, to |-> n] \in unread

Naming ==
  /\ unread \subseteq module.lines
  /\ \A t \in Types, n \in Names : n \in Named(module, t) <=> NamesParent(t, n)

ReadPhantoms == \A t \in Types :
  /\ \A p \in phantoms[t] : p.index = 0
  /\ HasPhantomLine(module, t) <=> phantoms[t] # {} \/ AwaitsPhantom(t)

(* Resolving: types before i have found the places of the types they name;  *)
(* everything else is left with place 0.  Two types are phantoms once the   *)
(* one that declares the other has been resolved.                           *)
Place(t, n) == IF t < i /\ n \in Types \ {t} THEN n ELSE 0
ParentsPlaced == \A t \in Types : \A p \in parents[t] : p.index = Place(t, p.type)
FoundTwins(u, t) ==
  /\ module.size[u] = module.size[t]
  /\ (u < i /\ t \in Declared(module, u)) \/ (t < i /\ u \in Declared(module, t))
PhantomsPlaced == \A u, t \in Types :
  (\E p \in phantoms[u] : p.index = t) <=> FoundTwins(u, t) \/ t \in MisreadPhantom(module, u)

(* Extending: the calls lead where the module's names lead. *)
CallsMatch == \A t \in Types :
  ParentCalls(t) = Upward(module)[t] /\ PhantomCalls(t) = Sideways(module)[t]

(* The routine in progress: what it visited and what it has still to call   *)
(* contains type i, leads nowhere else and is in every set that could be    *)
(* the answer.                                                              *)
Explored(R, succ, t, seen, pending) ==
  /\ R = seen
  /\ t \in seen \cup pending
  /\ \A u \in seen : succ[u] \subseteq seen \cup pending
  /\ \A S \in SUBSET Types : t \in S /\ Under(S, succ) => seen \cup pending \subseteq S
Exploring(R, succ) == Explored(R, succ, i, visited, calls)

Finished(t) ==
  /\ pc = "done" \/ (pc \in {"parents", "phantoms"} /\ t < i)
       => /\ Reached(allParents[t], t, Upward(module))
          /\ Reached(allPhantoms[t], t, Sideways(module))
  /\ pc = "phantoms" /\ t = i => Reached(allParents[t], t, Upward(module))

Untouched(t) ==
  /\ pc \in {"read", "resolve"} \/ t > i => allParents[t] = {} /\ allPhantoms[t] = {}
  /\ pc = "parents" /\ t = i => allPhantoms[t] = {}

Derived ==
  /\ TypeOK
  /\ pc = "read" => i = 0 /\ ReadPhantoms
  /\ pc \in {"read", "resolve"} => Naming /\ ParentsPlaced
  /\ pc = "resolve" => unread = {} /\ PhantomsPlaced
  /\ pc \notin {"read", "resolve"} => CallsMatch
  /\ pc = "parents" => Exploring(allParents[i], Upward(module))
  /\ pc = "phantoms" => Exploring(allPhantoms[i], Sideways(module))
  /\ pc # "done" => \A t \in Types : Untouched(t)
  /\ \A t \in Types : Finished(t)
-----------------------------------------------------------------------------
LEMMA DerivedInit == Init => Derived
<1> SUFFICES ASSUME Init PROVE Derived
  OBVIOUS
<1>1. TypeOK
  BY TypeInit
<1>2. module.elements \in [Types -> SUBSET Names]
  BY ModuleParts DEF Init
<1>3. Naming
  <2>1. \A t \in Types, n \in Names : n \in module.elements[t] <=> \E p \in parents[t] : p.type = n
    BY <1>2, Fields DEF Init
  <2> QED
    BY <2>1 DEF Naming, Named, NamesParent, Init
<1>4. ReadPhantoms
  BY DEF ReadPhantoms, HasPhantomLine, AwaitsPhantom, Init
<1>5. ParentsPlaced
  <2>1. \A t \in Types : \A p \in parents[t] : p.index = 0
    BY Fields DEF Init
  <2>2. \A t \in Types : ~(t < i)
    BY TypesAre DEF Init
  <2> QED
    BY <2>1, <2>2 DEF ParentsPlaced, Place
<1>6. \A t \in Types : Untouched(t) /\ Finished(t)
  BY DEF Untouched, Finished, Init
<1> QED
  BY <1>1, <1>3, <1>4, <1>5, <1>6 DEF Derived, Init

LEMMA ReadStep ==
  ASSUME Derived, NEW l \in Line, ReadLine(l)
  PROVE  Derived'
<1>1. TypeOK'
  BY TypeStep DEF Derived, Next
<1>2. /\ l = [kind |-> l.kind, from |-> l.from, to |-> l.to] /\ l.kind \in {1, 2} /\ l.to \in Names
      /\ l \in unread /\ unread' = unread \ {l} /\ module' = module /\ i' = i /\ i = 0
      /\ Naming /\ ReadPhantoms /\ ParentsPlaced
  BY DEF ReadLine, Line, Derived
<1>3. \A t \in Types :
        /\ parents'[t] = IF l.kind = 1 /\ t = l.from THEN parents[t] \cup {Unresolved(l.to)}
                         ELSE parents[t]
        /\ phantoms'[t] = IF l.kind = 2 /\ t = l.from THEN phantoms[t] \cup {Unresolved(l.to)}
                          ELSE phantoms[t]
  BY DEF ReadLine, Adding, Derived, TypeOK
<1>4. Naming'
  <2>1. unread' \subseteq module'.lines
    BY <1>2 DEF Naming
  <2>2. ASSUME NEW t \in Types, NEW n \in Names
        PROVE  NamesParent(t, n)' <=> NamesParent(t, n)
    <3>1. CASE l.kind = 1 /\ l.from = t /\ l.to = n
      <4>1. Unresolved(n) \in parents'[t] /\ Unresolved(n).type = n
        BY <1>3, <3>1, Fields
      <4>2. [kind |-> 1, from |-> t, to |-> n] \in unread
        BY <1>2, <3>1
      <4> QED
        BY <4>1, <4>2 DEF NamesParent
    <3>2. CASE ~(l.kind = 1 /\ l.from = t /\ l.to = n)
      <4>1. [kind |-> 1, from |-> t, to |-> n] # l
        BY <3>2
      <4>2. (\E p \in parents'[t] : p.type = n) <=> (\E p \in parents[t] : p.type = n)
        <5>1. CASE l.kind = 1 /\ t = l.from
          <6>1. parents'[t] = parents[t] \cup {Unresolved(l.to)}
            BY <1>3, <5>1
          <6>2. Unresolved(l.to).type # n
            BY <3>2, <5>1, Fields
          <6> QED
            BY <6>1, <6>2
        <5>2. CASE ~(l.kind = 1 /\ t = l.from)
          BY <1>3, <5>2
        <5> QED
          BY <5>1, <5>2
      <4> QED
        BY <1>2, <4>1, <4>2 DEF NamesParent
    <3> QED
      BY <3>1, <3>2
  <2> QED
    BY <1>2, <2>1, <2>2 DEF Naming, Named
<1>5. ReadPhantoms'
  <2> SUFFICES ASSUME NEW t \in Types
               PROVE  /\ \A p \in phantoms'[t] : p.index = 0
                      /\ HasPhantomLine(module, t) <=> phantoms'[t] # {} \/ AwaitsPhantom(t)'
    BY <1>2 DEF ReadPhantoms, HasPhantomLine
  <2>1. /\ \A p \in phantoms[t] : p.index = 0
        /\ HasPhantomLine(module, t) <=> phantoms[t] # {} \/ AwaitsPhantom(t)
    BY <1>2 DEF ReadPhantoms
  <2>2. CASE l.kind = 2 /\ t = l.from
    <3>1. phantoms'[t] = phantoms[t] \cup {Unresolved(l.to)} /\ Unresolved(l.to).index = 0
      BY <1>3, <2>2, Fields
    <3>2. AwaitsPhantom(t)
      BY <1>2, <2>2 DEF AwaitsPhantom
    <3> QED
      BY <2>1, <3>1, <3>2
  <2>3. CASE ~(l.kind = 2 /\ t = l.from)
    <3>1. \A n \in Names : [kind |-> 2, from |-> t, to |-> n] # l
      BY <2>3
    <3>2. AwaitsPhantom(t)' <=> AwaitsPhantom(t)
      BY <1>2, <3>1 DEF AwaitsPhantom
    <3> QED
      BY <1>3, <2>1, <2>3, <3>2
  <2> QED
    BY <2>2, <2>3
<1>6. ParentsPlaced'
  <2>1. \A t \in Types : ~(t < i) /\ ~(t < i')
    BY <1>2, TypesAre
  <2> QED
    <3>1. ASSUME NEW t \in Types, NEW p \in parents'[t] PROVE p.index = 0
      <4>1. CASE p \in parents[t]
        BY <1>2, <2>1, <4>1 DEF ParentsPlaced, Place
      <4>2. CASE p = Unresolved(l.to)
        BY <4>2, Fields
      <4> QED
        BY <1>3, <4>1, <4>2
    <3> QED
      BY <2>1, <3>1 DEF ParentsPlaced, Place
<1>7. \A t \in Types : Untouched(t)' /\ Finished(t)'
  BY DEF Derived, Untouched, Finished, ReadLine
<1> QED
  BY <1>1, <1>2, <1>4, <1>5, <1>6, <1>7 DEF Derived, ReadLine

LEMMA ReadEndStep ==
  ASSUME Derived, ReadEnd
  PROVE  Derived'
<1>1. TypeOK'
  BY TypeStep DEF Derived, Next
<1>2. /\ Naming /\ ParentsPlaced /\ ReadPhantoms /\ i = 0 /\ unread = {}
      /\ UNCHANGED <<module, unread, parents, phantoms, allParents, allPhantoms, i>>
  BY DEF Derived, ReadEnd, direct
<1>3. Naming' /\ ParentsPlaced'
  BY <1>2 DEF Naming, NamesParent, Named, ParentsPlaced, Place
<1>4. PhantomsPlaced
  <2>1. \A t \in Types : ~(t < i) /\ ~AwaitsPhantom(t)
    BY <1>2, TypesAre DEF AwaitsPhantom
  <2>2. \A u, t \in Types : (\E p \in phantoms[u] : p.index = t) <=> t = 0 /\ phantoms[u] # {}
    BY <1>2 DEF ReadPhantoms
  <2>3. \A u \in Types : HasPhantomLine(module, u) <=> phantoms[u] # {}
    BY <1>2, <2>1 DEF ReadPhantoms
  <2> QED
    BY <2>1, <2>2, <2>3 DEF PhantomsPlaced, FoundTwins, MisreadPhantom
<1>5. PhantomsPlaced'
  BY <1>2, <1>4 DEF PhantomsPlaced, FoundTwins, MisreadPhantom, HasPhantomLine, Declared, Named
<1>6. \A t \in Types : Untouched(t)' /\ Finished(t)'
  BY DEF Derived, Untouched, Finished, ReadEnd
<1> QED
  BY <1>1, <1>2, <1>3, <1>5, <1>6 DEF Derived, ReadEnd

LEMMA ResolveStep ==
  ASSUME Derived, Resolve
  PROVE  Derived'
<1>1. TypeOK'
  BY TypeStep DEF Derived, Next
<1>2. /\ Naming /\ ParentsPlaced /\ PhantomsPlaced /\ unread = {} /\ i \in Types /\ i' = i + 1
      /\ module' = module /\ unread' = unread
      /\ parents \in [Types -> SUBSET Detail]
  BY NumAssumption DEF Derived, TypeOK, Resolve, Types
<1>3. NamedBy = Declared(module, i)
  BY <1>2 DEF NamedBy, Naming, NamesParent, Declared, Names
<1>4. /\ \A t \in Types : t # i => parents'[t] = parents[t]
      /\ parents'[i] =
           {IF p.type \in NamedBy THEN Resolved(p.type) ELSE p : p \in parents[i]}
  BY <1>2 DEF Resolve
<1>5. /\ \A p \in parents[i] : p.type \in NamedBy <=> p.type \in Types \ {i}
      /\ \A p \in parents[i] : p.index = 0
  BY <1>2, TypesAre DEF NamedBy, ParentsPlaced, Place
<1>6. ASSUME NEW p \in parents[i]
      PROVE  \E q \in parents'[i] : q.type = p.type
  <2> DEFINE q == IF p.type \in NamedBy THEN Resolved(p.type) ELSE p
  <2>1. q \in parents'[i] /\ q.type = p.type
    BY <1>4, Fields
  <2> QED
    BY <2>1
<1>7. ASSUME NEW q \in parents'[i]
      PROVE  /\ \E p \in parents[i] : p.type = q.type
             /\ q.index = IF q.type \in Types \ {i} THEN q.type ELSE 0
  <2>1. PICK p \in parents[i] : q = IF p.type \in NamedBy THEN Resolved(p.type) ELSE p
    BY <1>4
  <2>2. CASE p.type \in NamedBy
    BY <1>5, <2>1, <2>2, Fields
  <2>3. CASE p.type \notin NamedBy
    BY <1>5, <2>1, <2>3
  <2> QED
    BY <2>2, <2>3
<1>8. Naming'
  <2>1. \A t \in Types, n \in Names : NamesParent(t, n)' <=> NamesParent(t, n)
    <3> TAKE t \in Types, n \in Names
    <3>1. CASE t = i
      BY <1>2, <1>6, <1>7, <3>1 DEF NamesParent
    <3>2. CASE t # i
      BY <1>2, <1>4, <3>2 DEF NamesParent
    <3> QED
      BY <3>1, <3>2
  <2> QED
    BY <1>2, <2>1 DEF Naming, Named
<1>9. ParentsPlaced'
  <2> SUFFICES ASSUME NEW t \in Types, NEW p \in parents'[t]
               PROVE  p.index = IF t < i + 1 /\ p.type \in Types \ {t} THEN p.type ELSE 0
    BY <1>2 DEF ParentsPlaced, Place
  <2>1. t < i + 1 <=> t < i \/ t = i
    BY <1>2, TypesAre
  <2>2. CASE t = i
    BY <1>7, <2>1, <2>2
  <2>3. CASE t # i
    BY <1>2, <1>4, <2>1, <2>3 DEF ParentsPlaced, Place
  <2> QED
    BY <2>2, <2>3
<1>10. ASSUME NEW u \in Types, NEW t \in Types
      PROVE  (\E p \in phantoms'[u] : p.index = t) <=>
               FoundTwins(u, t)' \/ t \in MisreadPhantom(module, u)
  <2> DEFINE Old == \E p \in phantoms[u] : p.index = t
             New == \E p \in NewPhantoms(u) : p.index = t
  <2>1. (\E p \in phantoms'[u] : p.index = t) <=> Old \/ New
    BY DEF Resolve
  <2>2. SameSize = {n \in Declared(module, i) : module.size[n] = module.size[i]}
    BY <1>3 DEF SameSize
  <2>3. i \notin SameSize
    BY DEF SameSize, NamedBy
  <2>4. New <=> (u = i /\ t \in SameSize) \/ (t = i /\ u \in SameSize)
    <3>1. CASE u = i
      <4>1. NewPhantoms(u) = {Resolved(n) : n \in SameSize}
        BY <3>1 DEF NewPhantoms
      <4>2. New <=> t \in SameSize
        BY <4>1, Fields
      <4> QED
        BY <2>3, <3>1, <4>2
    <3>2. CASE u # i
      <4>1. NewPhantoms(u) = IF u \in SameSize THEN {Resolved(i)} ELSE {}
        BY <3>2 DEF NewPhantoms
      <4> QED
        BY <3>2, <4>1, Fields
    <3> QED
      BY <3>1, <3>2
  <2>5. New <=> /\ module.size[u] = module.size[t]
                /\ \/ u = i /\ t \in Declared(module, u)
                   \/ t = i /\ u \in Declared(module, t)
    BY <2>2, <2>4
  <2>6. Old <=> FoundTwins(u, t) \/ t \in MisreadPhantom(module, u)
    BY <1>2 DEF PhantomsPlaced
  <2>7. (u < i + 1 <=> u < i \/ u = i) /\ (t < i + 1 <=> t < i \/ t = i)
    BY <1>2, TypesAre
  <2>8. FoundTwins(u, t)' <=> FoundTwins(u, t) \/ New
    BY <1>2, <2>5, <2>7 DEF FoundTwins, Declared, Named
  <2> HIDE DEF Old, New
  <2> QED
    BY <2>1, <2>6, <2>8
<1>11. PhantomsPlaced'
  BY <1>2, <1>10 DEF PhantomsPlaced, MisreadPhantom, HasPhantomLine
<1>12. \A t \in Types : Untouched(t)' /\ Finished(t)'
  BY DEF Derived, Untouched, Finished, Resolve
<1> QED
  BY <1>1, <1>2, <1>8, <1>9, <1>11, <1>12 DEF Derived, Resolve

LEMMA ResolveEndStep ==
  ASSUME Derived, ResolveEnd
  PROVE  Derived'
<1>1. TypeOK'
  BY TypeStep DEF Derived, Next
<1>2. /\ Naming /\ ParentsPlaced /\ PhantomsPlaced /\ unread = {} /\ i = AllTypeNum
      /\ parents \in [Types -> SUBSET Detail] /\ phantoms \in [Types -> SUBSET Detail]
  BY DEF Derived, TypeOK, ResolveEnd
<1>3. \A t \in Types : PhantomCalls(t) = Sideways(module)[t]
  <2> TAKE t \in Types
  <2>1. \A u \in Types : u \in Sideways(module)[t] <=> \E p \in phantoms[t] : p.index = u
    BY <1>2, TypesAre DEF PhantomsPlaced, FoundTwins, Twins, Sideways
  <2>2. PhantomCalls(t) \subseteq Types /\ Sideways(module)[t] \subseteq Types
    BY <1>2, TypesAre DEF PhantomCalls, Detail, Sideways, Twins, MisreadPhantom
  <2>3. PhantomCalls(t) = {p.index : p \in phantoms[t]}
    BY DEF PhantomCalls
  <2> HIDE DEF Sideways
  <2> QED
    BY <2>1, <2>2, <2>3
<1>4. \A t \in Types : ParentCalls(t) = Upward(module)[t]
  <2> TAKE t \in Types
  <2>1. \A p \in parents[t] :
          p.type \in Names /\ p.index = IF p.type \in Types \ {t} THEN p.type ELSE 0
    BY <1>2, TypesAre DEF ParentsPlaced, Place, Detail
  <2>2. \A n \in Names : n \in Named(module, t) <=> \E p \in parents[t] : p.type = n
    BY <1>2 DEF Naming, NamesParent
  <2>3. Named(module, t) \subseteq Names
    BY ModuleParts DEF Named, Derived, TypeOK
  <2>4. {p.index : p \in parents[t]} = Declared(module, t) \cup Misread(module, t)
    <3>1. ASSUME NEW p \in parents[t]
          PROVE  p.index \in Declared(module, t) \cup Misread(module, t)
      <4>1. p.type \in Named(module, t)
        BY <2>1, <2>2
      <4> QED
        BY <2>1, <4>1 DEF Declared, Misread
    <3>2. ASSUME NEW n \in Declared(module, t)
          PROVE  \E p \in parents[t] : p.index = n
      <4>1. n \in Names /\ n \in Named(module, t) /\ n \in Types \ {t}
        BY DEF Declared, Names
      <4> QED
        BY <2>1, <2>2, <4>1
    <3>3. ASSUME NEW n \in Misread(module, t)
          PROVE  \E p \in parents[t] : p.index = n
      <4>1. n = 0 /\ ~(Named(module, t) \subseteq Types \ {t})
        BY DEF Misread
      <4>2. PICK x \in Names : x \in Named(module, t) /\ x \notin Types \ {t}
        BY <2>3, <4>1
      <4> QED
        BY <2>1, <2>2, <4>1, <4>2
    <3> QED
      BY <3>1, <3>2, <3>3
  <2>5. ParentCalls(t) = {p.index : p \in parents[t]} \cup PhantomCalls(t)
    BY DEF ParentCalls, PhantomCalls
  <2> QED
    BY <1>3, <2>4, <2>5 DEF Upward
<1>5. CallsMatch'
  <2>1. \A t \in Types : ParentCalls(t)' = ParentCalls(t) /\ PhantomCalls(t)' = PhantomCalls(t)
    BY DEF ResolveEnd, direct, ParentCalls, PhantomCalls
  <2>2. Upward(module)' = Upward(module) /\ Sideways(module)' = Sideways(module)
    BY DEF ResolveEnd, Upward, Sideways, Twins, Declared, Named, Misread, MisreadPhantom,
           HasPhantomLine
  <2> QED
    BY <1>3, <1>4, <2>1, <2>2 DEF CallsMatch
<1>6. \A t \in Types : allParents[t] = {} /\ allPhantoms[t] = {}
  BY DEF Derived, Untouched, ResolveEnd
<1>7. Exploring(allParents[i], Upward(module))'
  BY <1>6, TypesAre DEF Exploring, Explored, ResolveEnd, Start
<1>8. \A t \in Types : Untouched(t)' /\ Finished(t)'
  BY <1>6, TypesAre DEF Untouched, Finished, ResolveEnd, Start
<1> QED
  BY <1>1, <1>5, <1>7, <1>8 DEF Derived, ResolveEnd, Start

(* One call of a routine leaves everything reachable and nothing else.      *)
LEMMA ExploreStep ==
  ASSUME NEW R, NEW succ, NEW t, NEW seen, NEW pending, NEW c \in pending \ seen,
         Explored(R, succ, t, seen, pending)
  PROVE  Explored(R \cup {c}, succ, t, seen \cup {c}, (pending \ {c}) \cup succ[c])
<1> DEFINE seen2 == seen \cup {c}
           all2 == seen2 \cup ((pending \ {c}) \cup succ[c])
<1>1. t \in all2 /\ \A u \in seen2 : succ[u] \subseteq all2
  BY DEF Explored
<1>2. ASSUME NEW S \in SUBSET Types, t \in S, Under(S, succ)
      PROVE  all2 \subseteq S
  <2>1. seen \cup pending \subseteq S
    BY <1>2 DEF Explored
  <2>2. succ[c] \subseteq S
    BY <1>2, <2>1 DEF Under
  <2> QED
    BY <2>1, <2>2
<1> QED
  BY <1>1, <1>2 DEF Explored

LEMMA ExploreEnd ==
  ASSUME NEW R, NEW succ, NEW t, NEW seen \in SUBSET Types, Explored(R, succ, t, seen, {})
  PROVE  Reached(R, t, succ)
BY DEF Explored, Reached, Under

LEMMA SameCalls == UNCHANGED <<module, direct>> /\ CallsMatch => CallsMatch'
BY DEF direct, CallsMatch, ParentCalls, PhantomCalls

LEMMA ExtendParentSetStep ==
  ASSUME Derived, NEW c \in Types, ExtendParentSet(c)
  PROVE  Derived'
<1>1. TypeOK'
  BY TypeStep DEF Derived, Next
<1>2. /\ CallsMatch' /\ i \in Types /\ i' = i /\ pc = "parents" /\ pc' = pc
      /\ module' = module /\ module \in Modules /\ allPhantoms' = allPhantoms
  BY SameCalls DEF Derived, ExtendParentSet, TypeOK
<1>3. allParents' = [allParents EXCEPT ![i] = @ \cup {c}] /\ allParents'[i] = allParents[i] \cup {c}
  BY <1>2 DEF ExtendParentSet, Derived, TypeOK
<1>4. Exploring(allParents[i], Upward(module))'
  <2>1. Visit(c, Upward(module)[c])
    BY DEF ExtendParentSet, Derived, CallsMatch
  <2>2. Explored(allParents[i] \cup {c}, Upward(module), i, visited \cup {c},
                 (calls \ {c}) \cup Upward(module)[c])
    BY <1>2, <2>1, ExploreStep DEF Derived, Exploring, Visit
  <2> QED
    BY <1>2, <1>3, <2>1, <2>2 DEF Exploring, Visit
<1>5. \A t \in Types : Untouched(t)' /\ Finished(t)'
  BY <1>2, <1>3, TypesAre DEF Derived, TypeOK, Untouched, Finished
<1> QED
  BY <1>1, <1>2, <1>4, <1>5 DEF Derived

LEMMA ExtendPhantomSetStep ==
  ASSUME Derived, NEW c \in Types, ExtendPhantomSet(c)
  PROVE  Derived'
<1>1. TypeOK'
  BY TypeStep DEF Derived, Next
<1>2. /\ CallsMatch' /\ i \in Types /\ i' = i /\ pc = "phantoms" /\ pc' = pc
      /\ module' = module /\ module \in Modules /\ allParents' = allParents
  BY SameCalls DEF Derived, ExtendPhantomSet, TypeOK
<1>3. /\ allPhantoms' = [allPhantoms EXCEPT ![i] = @ \cup {c}]
      /\ allPhantoms'[i] = allPhantoms[i] \cup {c}
  BY <1>2 DEF ExtendPhantomSet, Derived, TypeOK
<1>4. Exploring(allPhantoms[i], Sideways(module))'
  <2>1. Visit(c, Sideways(module)[c])
    BY DEF ExtendPhantomSet, Derived, CallsMatch
  <2>2. Explored(allPhantoms[i] \cup {c}, Sideways(module), i, visited \cup {c},
                 (calls \ {c}) \cup Sideways(module)[c])
    BY <1>2, <2>1, ExploreStep DEF Derived, Exploring, Visit
  <2> QED
    BY <1>2, <1>3, <2>1, <2>2 DEF Exploring, Visit
<1>5. \A t \in Types : Untouched(t)' /\ Finished(t)'
  BY <1>2, <1>3, TypesAre DEF Derived, TypeOK, Untouched, Finished
<1> QED
  BY <1>1, <1>2, <1>4, <1>5 DEF Derived

LEMMA AlreadyVisitedStep ==
  ASSUME Derived, NEW c \in Types, AlreadyVisited(c)
  PROVE  Derived'
<1>1. TypeOK'
  BY TypeStep DEF Derived, Next
<1>2. CallsMatch' /\ UNCHANGED <<module, allParents, allPhantoms, i, visited, pc>>
  BY SameCalls DEF Derived, AlreadyVisited
<1>3. visited' \cup calls' = visited \cup calls
  BY DEF AlreadyVisited
<1>4. /\ pc = "parents" => Exploring(allParents[i], Upward(module))'
      /\ pc = "phantoms" => Exploring(allPhantoms[i], Sideways(module))'
  BY <1>2, <1>3 DEF Derived, Exploring, Explored
<1>5. \A t \in Types : Untouched(t)' /\ Finished(t)'
  <2>1. pc # "done"
    BY DEF AlreadyVisited
  <2>2. \A t \in Types : Untouched(t)'
    BY <1>2, <2>1 DEF Derived, Untouched
  <2>3. \A t \in Types : Finished(t)'
    BY <1>2 DEF Derived, Finished
  <2> QED
    BY <2>2, <2>3
<1> QED
  BY <1>1, <1>2, <1>4, <1>5 DEF Derived, AlreadyVisited

LEMMA ParentsEndStep ==
  ASSUME Derived, ParentsEnd
  PROVE  Derived'
<1>1. TypeOK'
  BY TypeStep DEF Derived, Next
<1>2. /\ CallsMatch' /\ UNCHANGED <<module, allParents, allPhantoms, i>> /\ i \in Types
      /\ pc = "parents" /\ pc' = "phantoms"
  BY SameCalls DEF Derived, ParentsEnd, TypeOK, Start
<1>3. Reached(allParents[i], i, Upward(module))
  BY ExploreEnd DEF ParentsEnd, Derived, TypeOK, Exploring
<1>4. Exploring(allPhantoms[i], Sideways(module))'
  BY <1>2 DEF Exploring, Explored, ParentsEnd, Start, Derived, Untouched
<1>5. \A t \in Types : Untouched(t)' /\ Finished(t)'
  BY <1>2, <1>3 DEF Derived, Untouched, Finished
<1> QED
  BY <1>1, <1>2, <1>4, <1>5 DEF Derived

LEMMA PhantomsEndStep ==
  ASSUME Derived, PhantomsEnd
  PROVE  Derived'
<1>1. TypeOK'
  BY TypeStep DEF Derived, Next
<1>2. /\ CallsMatch' /\ UNCHANGED <<module, allParents, allPhantoms>>
      /\ i \in Types /\ pc = "phantoms"
  BY SameCalls DEF Derived, PhantomsEnd, TypeOK
<1>3. \A t \in Types : t <= i => /\ Reached(allParents[t], t, Upward(module))
                                /\ Reached(allPhantoms[t], t, Sideways(module))
  <2>1. Reached(allPhantoms[i], i, Sideways(module))
    BY ExploreEnd DEF PhantomsEnd, Derived, TypeOK, Exploring
  <2>2. \A t \in Types : t <= i => t < i \/ t = i
    BY <1>2, TypesAre
  <2> QED
    BY <1>2, <2>1, <2>2 DEF Derived, Finished
<1>4. CASE i + 1 < AllTypeNum /\ Start("parents", i + 1)
  <2>1. i + 1 \in Types /\ \A t \in Types : t < i + 1 => t <= i
    <3>1. i \in 0 .. AllTypeNum - 1 /\ AllTypeNum \in Nat
      BY <1>2, NumAssumption DEF Types
    <3>2. i + 1 \in 0 .. AllTypeNum - 1
      BY <1>4, <3>1
    <3>3. \A t \in Types : t < i + 1 => t <= i
      BY <1>2, TypesAre
    <3> QED
      BY <3>2, <3>3 DEF Types
  <2>2. \A t \in Types : t >= i + 1 => allParents[t] = {} /\ allPhantoms[t] = {}
    BY <1>2, TypesAre DEF Derived, Untouched
  <2>3. Exploring(allParents[i], Upward(module))'
    BY <1>2, <1>4, <2>1, <2>2, TypesAre DEF Exploring, Explored, Start
  <2>4. \A t \in Types : Untouched(t)'
    BY <1>2, <1>4, <2>1, <2>2, TypesAre DEF Untouched, Start
  <2>5. \A t \in Types : Finished(t)'
    BY <1>2, <1>3, <1>4, <2>1 DEF Finished, Start
  <2> QED
    BY <1>1, <1>2, <1>4, <2>3, <2>4, <2>5 DEF Derived, Start
<1>5. CASE i + 1 = AllTypeNum /\ pc' = "done" /\ UNCHANGED <<i, visited, calls>>
  <2>1. \A t \in Types : t <= i
    BY <1>2, <1>5, TypesAre
  <2>2. \A t \in Types : Finished(t)'
    BY <1>2, <1>3, <1>5, <2>1 DEF Finished
  <2> QED
    BY <1>1, <1>2, <1>5, <2>2 DEF Derived
<1> QED
  BY <1>4, <1>5 DEF PhantomsEnd

LEMMA DerivedStep == Derived /\ [Next]_vars => Derived'
<1> SUFFICES ASSUME Derived, [Next]_vars PROVE Derived'
  OBVIOUS
<1>1. CASE UNCHANGED vars
  <2>1. UNCHANGED <<module, unread, parents, phantoms, allParents, allPhantoms, i, visited,
                    calls, pc>>
    BY <1>1 DEF vars, direct
  <2>2. TypeOK' /\ (Naming => Naming') /\ (ReadPhantoms => ReadPhantoms')
    BY <2>1 DEF Derived, TypeOK, Naming, NamesParent, Named, ReadPhantoms, AwaitsPhantom,
                HasPhantomLine
  <2>3. (ParentsPlaced => ParentsPlaced') /\ (PhantomsPlaced => PhantomsPlaced')
    BY <2>1 DEF ParentsPlaced, Place, PhantomsPlaced, FoundTwins, MisreadPhantom, HasPhantomLine,
                Declared, Named
  <2>4. CallsMatch => CallsMatch'
    BY <2>1, SameCalls DEF direct
  <2>5. /\ pc = "parents" => Exploring(allParents[i], Upward(module))'
        /\ pc = "phantoms" => Exploring(allPhantoms[i], Sideways(module))'
        /\ pc # "done" => \A t \in Types : Untouched(t)'
        /\ \A t \in Types : Finished(t)'
    BY <2>1 DEF Derived, Exploring, Untouched, Finished
  <2> QED
    BY <2>1, <2>2, <2>3, <2>4, <2>5 DEF Derived
<1> QED
  BY <1>1, ReadStep, ReadEndStep, ResolveStep, ResolveEndStep, ExtendParentSetStep,
     ExtendPhantomSetStep, AlreadyVisitedStep, ParentsEndStep, PhantomsEndStep DEF Next

LEMMA Exact == Derived => SetsExact
BY DEF Derived, Finished, SetsExact
-----------------------------------------------------------------------------
(* Being of one size is mutual, so what is reached along it is shared.      *)
LEMMA Alike ==
  ASSUME TypeOK, SetsExact
  PROVE  PhantomsAlike
<1> SUFFICES ASSUME pc = "done", \A v \in Types : ~HasPhantomLine(module, v),
                    NEW t \in Types, NEW u \in allPhantoms[t]
             PROVE  allPhantoms[u] = allPhantoms[t] /\ allParents[u] = allParents[t]
  BY DEF PhantomsAlike
<1> DEFINE up == Upward(module)
           side == Sideways(module)
<1>1. /\ \A v \in Types : Reached(allParents[v], v, up) /\ Reached(allPhantoms[v], v, side)
      /\ allParents \in [Types -> SUBSET Types] /\ allPhantoms \in [Types -> SUBSET Types]
  BY DEF SetsExact, TypeOK
<1>2. \A v, w \in Types : w \in side[v] => v \in side[w]
  BY DEF Sideways, Twins, MisreadPhantom
<1>3. \A v \in Types : side[v] \subseteq up[v] /\ side[v] \subseteq Types
  BY DEF Upward, Sideways, Twins, MisreadPhantom
<1> HIDE DEF up, side
<1>4. u \in Types
  BY <1>1
<1>5. \A v \in Types : \A w \in allPhantoms[v] : allPhantoms[w] \subseteq allPhantoms[v]
  BY <1>1 DEF Reached
<1>6. t \in allPhantoms[u]
  <2> DEFINE S == {v \in Types : t \in allPhantoms[v]}
  <2>1. ASSUME NEW v \in S, NEW w \in side[v] PROVE w \in S
    <3>1. w \in Types /\ v \in Types /\ v \in side[w]
      BY <1>2, <1>3
    <3>2. v \in allPhantoms[w]
      BY <1>1, <3>1 DEF Reached, Under
    <3> QED
      BY <1>5, <3>1, <3>2
  <2>2. t \in S /\ Under(S, side) /\ S \in SUBSET Types
    BY <1>1, <2>1 DEF Under, Reached
  <2>3. allPhantoms[t] \subseteq S
    BY <1>1, <2>2 DEF Reached
  <2> QED
    BY <2>3
<1>7. \A v \in Types : allPhantoms[v] \subseteq allParents[v]
  <2> TAKE v \in Types
  <2>1. v \in allParents[v] /\ Under(allParents[v], side)
    BY <1>1, <1>3 DEF Reached, Under
  <2> QED
    BY <1>1, <2>1 DEF Reached
<1>8. \A v, w \in Types : w \in allParents[v] => allParents[w] \subseteq allParents[v]
  BY <1>1 DEF Reached
<1> QED
  BY <1>4, <1>5, <1>6, <1>7, <1>8
-----------------------------------------------------------------------------
(* The arrays hold types and indexes within AllTypeInfo in every state. *)
THEOREM TypeCorrect == Spec => []TypeOK
<1>1. Init => TypeOK
  BY TypeInit
<1>2. TypeOK /\ [Next]_vars => TypeOK'
  BY TypeStep
<1> QED
  BY <1>1, <1>2, PTL DEF Spec

(* Whatever a module's structs and clang's lines name, tracked or not,      *)
(* createObjRelationInfo emits for a type what can be reached from it, the  *)
(* first type standing for each name that is not resolved, and nothing else, *)
(* whatever the order of the types (HexTypeUtil.cpp:292-373, 1141-1160).    *)
THEOREM RelationsExact == Spec => []SetsExact
<1>1. Init => Derived
  BY DerivedInit
<1>2. Derived /\ [Next]_vars => Derived'
  BY DerivedStep
<1>3. Derived => SetsExact
  BY Exact
<1> QED
  BY <1>1, <1>2, <1>3, PTL DEF Spec

(* Types that are phantoms of each other have one rule and one phantom set  *)
(* in every module without phantom lines, whatever else its names are.      *)
THEOREM PhantomsInterchange == Spec => []PhantomsAlike
<1>1. TypeOK /\ SetsExact => PhantomsAlike
  BY Alike
<1>2. Spec => []SetsExact
  BY RelationsExact
<1> QED
  BY <1>1, <1>2, TypeCorrect, PTL
-----------------------------------------------------------------------------
(* Every set of naturals that is not empty has a least member, from the     *)
(* library's theorem that < is well founded: what induction over the        *)
(* naturals comes to without an operator parameter.                         *)
LEMMA LeastNat ==
  ASSUME NEW T \in SUBSET Nat, T # {}
  PROVE  \E x \in T : \A y \in T : x <= y
<1> DEFINE R == OpToRel(<, Nat)
<1>1. IsWellFoundedOn(R, Nat)
  BY NatLessThanWellFounded
<1>2. \A x, y \in Nat : x < y => <<x, y>> \in R
  BY DEF OpToRel
<1> HIDE DEF R
<1>3. PICK x \in T : \A y \in T : ~ (<<y, x>> \in R)
  BY <1>1, WFMin
<1>4. \A y \in T : ~(y < x)
  BY <1>2, <1>3
<1> QED
  BY <1>4
Increasing(f) == \A h, j \in DOMAIN f : h < j => f[h] < f[j]
Enumerable(K) == \E f \in [1 .. Cardinality(K) -> K] : Increasing(f)

LEMMA OneMore ==
  ASSUME NEW n \in Nat, NEW K \in SUBSET (0 .. n), n \in K, Enumerable(K \ {n})
  PROVE  Enumerable(K)
<1> DEFINE J == K \ {n}
           c == Cardinality(J)
<1>1. IsFiniteSet(K) /\ J \subseteq 0 .. n - 1
  <2>1. IsFiniteSet(0 .. n)
    BY FS_Interval
  <2>2. \A x \in 0 .. n : x # n => x \in 0 .. n - 1
    OBVIOUS
  <2> QED
    BY <2>1, <2>2, FS_Subset
<1>2. Cardinality(J) = Cardinality(K) - 1 /\ IsFiniteSet(J)
  BY <1>1, FS_RemoveElement
<1>3. c \in Nat /\ Cardinality(K) = c + 1
  BY <1>1, <1>2, FS_CardinalityType
<1>4. PICK f \in [1 .. c -> J] : Increasing(f)
  BY DEF Enumerable
<1> HIDE DEF c, J
<1> DEFINE g == [h \in 1 .. c + 1 |-> IF h = c + 1 THEN n ELSE f[h]]
<1>5. J \subseteq K
  BY DEF J
<1>6. g \in [1 .. c + 1 -> K]
  <2>1. \A h \in 1 .. c + 1 : h # c + 1 => h \in 1 .. c
    BY <1>3
  <2>2. \A h \in 1 .. c + 1 : h # c + 1 => f[h] \in K
    BY <1>4, <1>5, <2>1
  <2> QED
    BY <2>2
<1>7. ASSUME NEW h \in 1 .. c + 1, NEW j \in 1 .. c + 1, h < j
      PROVE  g[h] < g[j]
  <2>1. h \in 1 .. c /\ f[h] \in J /\ f[h] \in 0 .. n - 1
    <3>1. h \in 1 .. c
      BY <1>3, <1>7
    <3> QED
      BY <1>1, <1>4, <3>1
  <2>2. CASE j = c + 1
    BY <1>3, <2>1, <2>2
  <2>3. CASE j # c + 1
    <3>1. j \in 1 .. c
      BY <1>3, <2>3
    <3>2. f[h] < f[j]
      BY <1>4, <1>7, <2>1, <3>1 DEF Increasing
    <3> QED
      BY <1>3, <2>1, <2>3, <3>1, <3>2
  <2> QED
    BY <2>2, <2>3
<1>8. Increasing(g)
  BY <1>7 DEF Increasing
<1> QED
  BY <1>3, <1>6, <1>8 DEF Enumerable

(* Every set of numbers below a bound can be enumerated in increasing order.            *)
LEMMA AllEnumerable ==
  ASSUME NEW n \in Nat, NEW K \in SUBSET (0 .. n - 1)
  PROVE  Enumerable(K)
<1> DEFINE T == {m \in Nat : \E J \in SUBSET (0 .. m - 1) : ~Enumerable(J)}
<1>1. SUFFICES ASSUME T # {} PROVE FALSE
  OBVIOUS
<1>2. PICK m \in T : \A y \in T : m <= y
  <2> HIDE DEF T
  <2>1. T \in SUBSET Nat
    BY DEF T
  <2> QED
    BY <1>1, <2>1, LeastNat
<1>3. PICK J \in SUBSET (0 .. m - 1) : ~Enumerable(J)
  BY <1>2
<1>4. CASE J = {}
  <2>1. Cardinality(J) = 0
    BY <1>4, FS_EmptySet
  <2>2. <<>> \in [1 .. 0 -> J] /\ Increasing(<<>>)
    BY DEF Increasing
  <2> QED
    BY <1>3, <2>1, <2>2 DEF Enumerable
<1>5. CASE m = 0
  BY <1>4, <1>5
<1>6. CASE m # 0
  <2>1. m - 1 \in Nat /\ m = (m - 1) + 1 /\ ~(m <= m - 1)
    BY <1>2, <1>6
  <2>2. m - 1 \notin T
    BY <1>2, <2>1
  <2>3. \A I \in SUBSET (0 .. (m - 1) - 1) : Enumerable(I)
    BY <2>1, <2>2
  <2>4. CASE m - 1 \in J
    <3>1. J \ {m - 1} \in SUBSET (0 .. (m - 1) - 1)
      BY <2>1
    <3> QED
      BY <1>3, <2>1, <2>3, <2>4, <3>1, OneMore
  <2>5. CASE m - 1 \notin J
    <3>1. J \in SUBSET (0 .. (m - 1) - 1)
      BY <2>1, <2>5
    <3> QED
      BY <1>3, <2>3, <3>1
  <2> QED
    BY <2>4, <2>5
<1> QED
  BY <1>4, <1>5, <1>6

(* What Ascending chooses: all the members, from the smallest to the largest. *)
Enumerates(f, K) ==
  /\ f \in [1 .. Cardinality(K) -> K] /\ f \in Seq(Nat) /\ Len(f) = Cardinality(K)
  /\ \A j, k \in DOMAIN f : j < k => f[j] < f[k]
  /\ Range(f) = K

LEMMA AscendingEnumerates ==
  ASSUME NEW n \in Nat, NEW K \in SUBSET (0 .. n - 1)
  PROVE  IsFiniteSet(K) /\ Enumerates(Ascending(K), K)
<1> DEFINE f == Ascending(K)
           c == Cardinality(K)
<1>1. IsFiniteSet(K) /\ c \in Nat /\ K \subseteq Nat
  <2>1. n - 1 \in Int /\ K \subseteq Nat
    OBVIOUS
  <2>2. IsFiniteSet(0 .. n - 1)
    BY <2>1, FS_Interval
  <2>3. IsFiniteSet(K)
    BY <2>2, FS_Subset
  <2> QED
    BY <2>1, <2>3, FS_CardinalityType
<1>2. f \in [1 .. c -> K] /\ \A j, k \in DOMAIN f : j < k => f[j] < f[k]
  <2>1. Enumerable(K)
    BY AllEnumerable
  <2> QED
    BY <2>1 DEF Ascending, Enumerable, Increasing
<1> HIDE DEF f, c
<1>3. f \in Seq(Nat) /\ Len(f) = c
  <2>1. f \in [1 .. c -> Nat]
    BY <1>1, <1>2
  <2> QED
    BY <1>1, <2>1
<1>4. Range(f) = K
  <2>1. \A j, k \in 1 .. c : f[j] = f[k] => j = k
    <3>1. \A j \in 1 .. c : f[j] \in Nat
      BY <1>1, <1>2
    <3>2. \A j, k \in 1 .. c : j < k \/ k < j \/ j = k
      BY <1>1
    <3> QED
      BY <1>2, <3>1, <3>2
  <2>2. f \in Injection(1 .. c, K)
    BY <1>2, <2>1 DEF Injection, IsInjective
  <2>3. Cardinality(1 .. c) = c
    BY <1>1, FS_Interval
  <2>4. f \in Surjection(1 .. c, K)
    BY <1>1, <2>2, <2>3, FS_Injection DEF c
  <2> QED
    BY <1>2, <2>4 DEF Surjection, Range
<1> QED
  BY <1>1, <1>2, <1>3, <1>4 DEF f, c, Enumerates

(* There are only so many types, so their hashes have a bound.              *)
LEMMA HashesBounded == \E n \in Nat : \A t \in Types : HashOf[t] < n
<1> DEFINE Missed == {m \in Nat : m <= AllTypeNum /\ ~\E n \in Nat : \A t \in Types : t < m => HashOf[t] < n}
<1>1. SUFFICES ASSUME Missed # {} PROVE FALSE
  <2>1. AllTypeNum \in Nat /\ \A t \in Types : t < AllTypeNum
    BY NumAssumption DEF Types
  <2> QED
    BY <2>1
<1>2. PICK m \in Missed : \A y \in Missed : m <= y
  <2> HIDE DEF Missed
  <2>1. Missed \in SUBSET Nat
    BY DEF Missed
  <2> QED
    BY <1>1, <2>1, LeastNat
<1>3. m # 0
  <2>1. \A t \in Types : ~(t < 0)
    BY DEF Types
  <2> QED
    BY <1>2, <2>1
<1>4. m - 1 \in Nat /\ m - 1 <= AllTypeNum /\ m - 1 \notin Missed /\ m - 1 \in Types
  <2>1. m \in Nat /\ m <= AllTypeNum /\ AllTypeNum \in Nat
    BY <1>2, NumAssumption
  <2>2. m - 1 \in Nat /\ m - 1 <= AllTypeNum /\ ~(m <= m - 1) /\ m - 1 \in Types
    BY <1>3, <2>1 DEF Types
  <2> HIDE DEF Missed
  <2> QED
    BY <1>2, <2>2
<1>5. PICK n \in Nat : \A t \in Types : t < m - 1 => HashOf[t] < n
  BY <1>4
<1>6. HashOf[m - 1] \in Nat
  BY <1>4, HashAssumption
<1>7. n + HashOf[m - 1] + 1 \in Nat
  BY <1>5, <1>6
<1>8. ASSUME NEW t \in Types, t < m PROVE HashOf[t] < n + HashOf[m - 1] + 1
  <2>1. HashOf[t] \in Nat /\ m \in Nat /\ t \in Int
    BY <1>2, HashAssumption, TypesAre
  <2>2. t < m - 1 \/ t = m - 1
    BY <1>8, <2>1
  <2>3. CASE t = m - 1
    BY <1>5, <1>6, <2>3
  <2>4. CASE t < m - 1
    BY <1>5, <1>6, <2>1, <2>4
  <2> QED
    BY <2>2, <2>3, <2>4
<1> QED
  BY <1>2, <1>7, <1>8

(* The words of a record's list are the hashes of the types of the set. *)
LEMMA SortedEnumerates ==
  ASSUME NEW S \in SUBSET Types
  PROVE  Enumerates(Sorted(S), Hashes(S))
<1>1. PICK n \in Nat : \A t \in Types : HashOf[t] < n
  BY HashesBounded
<1>2. Hashes(S) \in SUBSET (0 .. n - 1)
  BY <1>1, HashAssumption DEF Hashes
<1> QED
  BY <1>2, AscendingEnumerates DEF Sorted
-----------------------------------------------------------------------------
Piece(list, sets, n) == Record(list[n], Sorted(sets[list[n]]))
Grows(f, m, list, sets) ==
  f = [n \in 0 .. m |-> IF n = 0 THEN <<Len(list)>> ELSE f[n - 1] \o Piece(list, sets, n)]

LEMMA GrowsOnce ==
  ASSUME NEW m \in Nat \ {0}, NEW list, NEW sets, NEW f, Grows(f, m - 1, list, sets)
  PROVE  Grows([n \in 0 .. m |-> IF n = m THEN f[m - 1] \o Piece(list, sets, m) ELSE f[n]], m, list, sets)
<1> DEFINE g == [n \in 0 .. m |-> IF n = m THEN f[m - 1] \o Piece(list, sets, m) ELSE f[n]]
           w(n) == IF n = 0 THEN <<Len(list)>> ELSE g[n - 1] \o Piece(list, sets, n)
<1>1. ASSUME NEW n \in 0 .. m PROVE g[n] = w(n)
  <2>1. CASE n = m
    <3>1. m - 1 \in 0 .. m /\ m - 1 # m
      OBVIOUS
    <3>2. g[m - 1] = f[m - 1] /\ g[n] = f[m - 1] \o Piece(list, sets, m)
      BY <2>1, <3>1
    <3> QED
      BY <2>1, <3>2
  <2>2. CASE n # m
    <3>1. n \in 0 .. m - 1 /\ (n # 0 => n - 1 \in 0 .. m /\ n - 1 # m)
      BY <2>2
    <3>2. g[n] = f[n] /\ (n # 0 => g[n - 1] = f[n - 1])
      BY <2>2, <3>1
    <3>3. f[n] = IF n = 0 THEN <<Len(list)>> ELSE f[n - 1] \o Piece(list, sets, n)
      BY <3>1 DEF Grows
    <3> QED
      BY <3>2, <3>3
  <2> QED
    BY <2>1, <2>2
<1>2. g = [n \in 0 .. m |-> g[n]]
  OBVIOUS
<1> HIDE DEF g
<1>3. g = [n \in 0 .. m |-> w(n)]
  BY <1>1, <1>2
<1> QED
  BY <1>3 DEF Grows, g

LEMMA GrowsToTheEnd ==
  ASSUME NEW k \in Nat, NEW list, NEW sets
  PROVE  \E f : Grows(f, k, list, sets)
<1> DEFINE Missed == {m \in Nat : ~\E f : Grows(f, m, list, sets)}
<1>1. SUFFICES ASSUME Missed # {} PROVE FALSE
  OBVIOUS
<1>2. PICK m \in Missed : \A y \in Missed : m <= y
  <2> HIDE DEF Missed
  <2>1. Missed \in SUBSET Nat
    BY DEF Missed
  <2> QED
    BY <1>1, <2>1, LeastNat
<1>3. m # 0
  <2> DEFINE f == [n \in 0 .. 0 |-> <<Len(list)>>]
  <2>1. \A n \in 0 .. 0 : n = 0
    OBVIOUS
  <2>2. f = [n \in 0 .. 0 |-> IF n = 0 THEN <<Len(list)>> ELSE f[n - 1] \o Piece(list, sets, n)]
    BY <2>1
  <2>3. Grows(f, 0, list, sets)
    BY <2>2 DEF Grows
  <2> QED
    BY <1>2, <2>3
<1>4. m \in Nat \ {0} /\ m - 1 \in Nat /\ m - 1 \notin Missed
  <2>1. m \in Nat
    BY <1>2
  <2>2. m - 1 \in Nat /\ ~(m <= m - 1)
    BY <1>3, <2>1
  <2> HIDE DEF Missed
  <2> QED
    BY <1>2, <1>3, <2>1, <2>2
<1>5. PICK f : Grows(f, m - 1, list, sets)
  BY <1>4
<1> QED
  BY <1>2, <1>4, <1>5, GrowsOnce

Tables(list, sets) == list \in Seq(Types) /\ sets \in [Types -> SUBSET Types]
Words(list, sets, n) == Sorted(sets[list[n]])

(* A record at position p, counting words from 0. *)
RecordAt(array, p, hash, words) ==
  /\ array[p + 1] = hash /\ array[p + 2] = Len(words)
  /\ \A k \in 1 .. Len(words) : array[p + 2 + k] = words[k]

Joins(u, s, t) ==
  /\ Len(s) \in Nat /\ Len(t) \in Nat
  /\ u \in Seq(Nat) /\ Len(u) = Len(s) + Len(t)
  /\ \A k \in 1 .. Len(s) : u[k] = s[k]
  /\ \A k \in 1 .. Len(t) : u[Len(s) + k] = t[k]

LEMMA Joined ==
  ASSUME NEW s \in Seq(Nat), NEW t \in Seq(Nat)
  PROVE  Joins(s \o t, s, t)
<1>0. PICK u : u = s \o t
  OBVIOUS
<1>1. Len(s) \in Nat /\ Len(t) \in Nat
  BY LenProperties
<1>2. /\ u \in Seq(Nat) /\ Len(u) = Len(s) + Len(t)
      /\ \A k \in 1 .. Len(s) + Len(t) : u[k] = IF k <= Len(s) THEN s[k] ELSE t[k - Len(s)]
  BY <1>0, ConcatProperties
<1>3. ASSUME NEW k \in 1 .. Len(s) PROVE u[k] = s[k]
  <2>1. k \in 1 .. Len(s) + Len(t) /\ k <= Len(s)
    BY <1>1
  <2> QED
    BY <1>2, <2>1
<1>4. ASSUME NEW k \in 1 .. Len(t) PROVE u[Len(s) + k] = t[k]
  <2>1. Len(s) + k \in 1 .. Len(s) + Len(t) /\ ~(Len(s) + k <= Len(s)) /\ (Len(s) + k) - Len(s) = k
    BY <1>1
  <2> QED
    BY <1>2, <2>1
<1> QED
  BY <1>0, <1>1, <1>2, <1>3, <1>4 DEF Joins

LEMMA WordsTyped ==
  ASSUME NEW list, NEW sets, Tables(list, sets), NEW n \in 1 .. Len(list)
  PROVE  /\ list[n] \in Types /\ HashOf[list[n]] \in Nat
         /\ Enumerates(Words(list, sets, n), Hashes(sets[list[n]]))
         /\ Words(list, sets, n) \in Seq(Nat) /\ Len(Words(list, sets, n)) \in Nat
<1>1. list[n] \in Types /\ HashOf[list[n]] \in Nat /\ sets[list[n]] \in SUBSET Types
  BY HashAssumption, ElementOfSeq DEF Tables
<1>2. Enumerates(Words(list, sets, n), Hashes(sets[list[n]]))
  BY <1>1, SortedEnumerates DEF Words
<1>3. Words(list, sets, n) \in Seq(Nat)
  BY <1>2 DEF Enumerates
<1> QED
  BY <1>1, <1>2, <1>3, LenProperties

LEMMA PieceLaid ==
  ASSUME NEW list, NEW sets, Tables(list, sets), NEW n \in 1 .. Len(list)
  PROVE  /\ Piece(list, sets, n) \in Seq(Nat)
         /\ Len(Piece(list, sets, n)) = 2 + Len(Words(list, sets, n))
         /\ RecordAt(Piece(list, sets, n), 0, HashOf[list[n]], Words(list, sets, n))
<1>1. PICK words : words = Words(list, sets, n)
  OBVIOUS
<1>2. PICK head : head = <<HashOf[list[n]], Len(words)>>
  OBVIOUS
<1>3. PICK piece : piece = Piece(list, sets, n)
  OBVIOUS
<1>4. piece = head \o words
  BY <1>1, <1>2, <1>3 DEF Piece, Record, Words
<1>5. /\ words \in Seq(Nat) /\ Len(words) \in Nat /\ head \in Seq(Nat) /\ Len(head) = 2
      /\ head[1] = HashOf[list[n]] /\ head[2] = Len(words)
  <2>1. words \in Seq(Nat) /\ Len(words) \in Nat /\ HashOf[list[n]] \in Nat
    BY <1>1, WordsTyped
  <2> QED
    BY <1>2, <2>1
<1>6. /\ piece \in Seq(Nat) /\ Len(piece) = 2 + Len(words)
      /\ \A k \in 1 .. 2 : piece[k] = head[k]
      /\ \A k \in 1 .. Len(words) : piece[2 + k] = words[k]
  <2>1. /\ piece \in Seq(Nat) /\ Len(piece) = Len(head) + Len(words)
        /\ \A k \in 1 .. Len(head) : piece[k] = head[k]
        /\ \A k \in 1 .. Len(words) : piece[Len(head) + k] = words[k]
    <3>1. Joins(piece, head, words)
      BY <1>4, <1>5, Joined
    <3> QED
      BY <3>1 DEF Joins
  <2>2. \A k \in 1 .. 2 : piece[k] = head[k]
    BY <1>5, <2>1, Zenon
  <2>3. \A k \in 1 .. Len(words) : piece[2 + k] = words[k]
    BY <1>5, <2>1, Zenon
  <2> QED
    BY <1>5, <2>1, <2>2, <2>3
<1>7. RecordAt(piece, 0, HashOf[list[n]], words)
  <2>1. piece[1] = head[1] /\ piece[2] = head[2]
    BY <1>6
  <2>2. \A k \in 1 .. Len(words) : 0 + 2 + k = 2 + k
    BY <1>5
  <2> QED
    BY <1>5, <1>6, <2>1, <2>2 DEF RecordAt
<1> QED
  BY <1>1, <1>3, <1>6, <1>7

(* The array: at[n] is where record n + 1 starts, counting words from 0.     *)
Laid(array, list, sets, at) ==
  /\ array \in Seq(Nat) /\ at \in [0 .. Len(list) -> Nat]
  /\ at[0] = 1 /\ Len(array) = at[Len(list)] /\ array[1] = Len(list)
  /\ \A n \in 1 .. Len(list) :
       /\ at[n] = at[n - 1] + 2 + Len(Words(list, sets, n)) /\ at[n] <= Len(array)
       /\ RecordAt(array, at[n - 1], HashOf[list[n]], Words(list, sets, n))

Begins(s, t) == Len(s) <= Len(t) /\ \A k \in 1 .. Len(s) : t[k] = s[k]

LEMMA GrowthTyped ==
  ASSUME NEW list, NEW sets, Tables(list, sets), NEW f, Grows(f, Len(list), list, sets)
  PROVE  f \in [0 .. Len(list) -> Seq(Nat)]
<1> DEFINE Wrong == {n \in 0 .. Len(list) : f[n] \notin Seq(Nat)}
<1>0. Len(list) \in Nat
  BY LenProperties DEF Tables
<1>1. SUFFICES ASSUME Wrong # {} PROVE FALSE
  BY DEF Grows
<1>2. PICK n \in Wrong : \A y \in Wrong : n <= y
  <2> HIDE DEF Wrong
  <2>1. Wrong \in SUBSET Nat
    BY <1>0 DEF Wrong
  <2> QED
    BY <1>1, <2>1, LeastNat
<1>3. n \in 0 .. Len(list) /\ f[n] = IF n = 0 THEN <<Len(list)>> ELSE f[n - 1] \o Piece(list, sets, n)
  <2>1. n \in 0 .. Len(list)
    BY <1>2
  <2> QED
    BY <2>1 DEF Grows
<1>4. CASE n = 0
  BY <1>0, <1>2, <1>3, <1>4
<1>5. CASE n # 0
  <2>1. n \in 1 .. Len(list) /\ n - 1 \in 0 .. Len(list) /\ ~(n <= n - 1)
    BY <1>0, <1>3, <1>5
  <2>2. n - 1 \notin Wrong
    <3> HIDE DEF Wrong
    <3> QED
      BY <1>2, <2>1
  <2>3. f[n - 1] \in Seq(Nat)
    BY <2>1, <2>2
  <2>4. Piece(list, sets, n) \in Seq(Nat)
    BY <2>1, PieceLaid
  <2> QED
    BY <1>2, <1>3, <1>5, <2>3, <2>4, ConcatProperties
<1> QED
  BY <1>4, <1>5

LEMMA GrowthStep ==
  ASSUME NEW list, NEW sets, Tables(list, sets), NEW f, Grows(f, Len(list), list, sets),
         NEW n \in 1 .. Len(list)
  PROVE  /\ f[n - 1] \in Seq(Nat) /\ f[n] \in Seq(Nat) /\ Begins(f[n - 1], f[n])
         /\ Len(f[n]) = Len(f[n - 1]) + 2 + Len(Words(list, sets, n))
         /\ RecordAt(f[n], Len(f[n - 1]), HashOf[list[n]], Words(list, sets, n))
<1>0. Len(list) \in Nat
  BY LenProperties DEF Tables
<1>1. PICK words : words = Words(list, sets, n)
  OBVIOUS
<1>2. PICK piece : piece = Piece(list, sets, n)
  OBVIOUS
<1>3. PICK s, t : s = f[n - 1] /\ t = f[n]
  OBVIOUS
<1>4. n \in 0 .. Len(list) /\ n - 1 \in 0 .. Len(list) /\ n # 0
  BY <1>0
<1>5. s \in Seq(Nat) /\ t \in Seq(Nat) /\ t = s \o piece
  BY <1>2, <1>3, <1>4, GrowthTyped DEF Grows
<1>6. /\ piece \in Seq(Nat) /\ Len(piece) = 2 + Len(words)
      /\ RecordAt(piece, 0, HashOf[list[n]], words)
  BY <1>1, <1>2, PieceLaid
<1>7. words \in Seq(Nat) /\ Len(words) \in Nat
  BY <1>1, WordsTyped
<1>8. PICK a, b : a = Len(s) /\ b = Len(words)
  OBVIOUS
<1>9. /\ a \in Nat /\ b \in Nat /\ Len(t) = a + (2 + b)
      /\ \A k \in 1 .. a : t[k] = s[k]
      /\ \A k \in 1 .. 2 + b : t[a + k] = piece[k]
  <2>1. /\ Len(s) \in Nat /\ Len(t) = Len(s) + Len(piece)
        /\ \A k \in 1 .. Len(s) : t[k] = s[k]
        /\ \A k \in 1 .. Len(piece) : t[Len(s) + k] = piece[k]
    <3>1. Joins(t, s, piece)
      BY <1>5, <1>6, Joined
    <3> QED
      BY <3>1 DEF Joins
  <2>2. Len(piece) = 2 + b
    BY <1>6, <1>8, Zenon
  <2>3. \A k \in 1 .. 2 + b : t[a + k] = piece[k]
    BY <1>8, <2>1, <2>2, Zenon
  <2>4. Len(t) = a + (2 + b) /\ \A k \in 1 .. a : t[k] = s[k]
    BY <1>8, <2>1, <2>2, Zenon
  <2> QED
    BY <1>7, <1>8, <2>1, <2>3, <2>4, Zenon
<1>10. Begins(s, t) /\ Len(t) = a + 2 + b
  BY <1>8, <1>9 DEF Begins
<1>11. piece[1] = HashOf[list[n]] /\ piece[2] = b /\ \A k \in 1 .. b : piece[2 + k] = words[k]
  <2>1. \A k \in 1 .. b : 0 + 2 + k = 2 + k
    BY <1>9
  <2> QED
    BY <1>6, <1>8, <2>1 DEF RecordAt
<1>12. RecordAt(t, a, HashOf[list[n]], words)
  <2>1. 1 \in 1 .. 2 + b /\ 2 \in 1 .. 2 + b
    BY <1>9
  <2>2. t[a + 1] = HashOf[list[n]] /\ t[a + 2] = b
    BY <1>9, <1>11, <2>1
  <2>3. ASSUME NEW k \in 1 .. b PROVE t[a + 2 + k] = words[k]
    <3>1. 2 + k \in 1 .. 2 + b /\ a + (2 + k) = a + 2 + k
      BY <1>9
    <3> QED
      BY <1>9, <1>11, <3>1
  <2> QED
    BY <1>8, <2>2, <2>3 DEF RecordAt
<1> QED
  BY <1>1, <1>3, <1>5, <1>8, <1>10, <1>12

(* Whatever is emitted stays where it is. *)
LEMMA GrowthBegins ==
  ASSUME NEW list, NEW sets, Tables(list, sets), NEW f, Grows(f, Len(list), list, sets),
         NEW n \in 0 .. Len(list)
  PROVE  Begins(f[n], f[Len(list)])
<1> DEFINE Wrong == {m \in 0 .. Len(list) : n <= m /\ ~Begins(f[n], f[m])}
<1>0. Len(list) \in Nat /\ Len(list) \in 0 .. Len(list) /\ n <= Len(list)
  BY LenProperties DEF Tables
<1>1. SUFFICES ASSUME Wrong # {} PROVE FALSE
  BY <1>0
<1>2. PICK m \in Wrong : \A y \in Wrong : m <= y
  <2> HIDE DEF Wrong
  <2>1. Wrong \in SUBSET Nat
    BY <1>0 DEF Wrong
  <2> QED
    BY <1>1, <2>1, LeastNat
<1>3. m # n
  <2>1. f[n] \in Seq(Nat)
    BY GrowthTyped
  <2>2. Begins(f[n], f[n])
    BY <2>1, LenProperties DEF Begins
  <2> QED
    BY <1>2, <2>2
<1>4. m \in 1 .. Len(list) /\ m - 1 \in 0 .. Len(list) /\ n <= m - 1 /\ ~(m <= m - 1)
  BY <1>0, <1>2, <1>3
<1>5. Begins(f[n], f[m - 1])
  <2>1. m - 1 \notin Wrong
    <3> HIDE DEF Wrong
    <3> QED
      BY <1>2, <1>4
  <2> QED
    BY <1>4, <2>1
<1>6. Begins(f[m - 1], f[m]) /\ f[n] \in Seq(Nat) /\ f[m - 1] \in Seq(Nat) /\ f[m] \in Seq(Nat)
  BY <1>4, GrowthStep, GrowthTyped
<1>7. Len(f[n]) \in Nat /\ Len(f[m - 1]) \in Nat /\ Len(f[m]) \in Nat
  BY <1>6, LenProperties
<1>8. Begins(f[n], f[m])
  BY <1>5, <1>6, <1>7 DEF Begins
<1> QED
  BY <1>2, <1>8

LEMMA EmittedLaid ==
  ASSUME NEW list, NEW sets, Tables(list, sets)
  PROVE  \E at : Laid(Emitted(list, sets), list, sets, at)
<1>1. PICK f : f = CHOOSE g : Grows(g, Len(list), list, sets)
  OBVIOUS
<1>2. Len(list) \in Nat
  BY LenProperties DEF Tables
<1>3. Grows(f, Len(list), list, sets)
  BY <1>1, <1>2, GrowsToTheEnd
<1>4. PICK array : array = Emitted(list, sets)
  OBVIOUS
<1>5. array = f[Len(list)]
  BY <1>1, <1>4 DEF Emitted, Grows, Piece
<1>6. PICK at : at = [n \in 0 .. Len(list) |-> Len(f[n])]
  OBVIOUS
<1>7. \A n \in 0 .. Len(list) : at[n] = Len(f[n])
  BY <1>6
<1>8. \A n \in 0 .. Len(list) : f[n] \in Seq(Nat) /\ at[n] \in Nat
  BY <1>3, <1>7, GrowthTyped, LenProperties
<1>9. at \in [0 .. Len(list) -> Nat]
  BY <1>6, <1>8, <1>7
<1>10. array \in Seq(Nat) /\ Len(array) = at[Len(list)]
  BY <1>2, <1>5, <1>7, <1>8
<1>11. at[0] = 1 /\ array[1] = Len(list)
  <2>1. f[0] = <<Len(list)>>
    BY <1>2, <1>3 DEF Grows
  <2>2. Len(f[0]) = 1 /\ f[0][1] = Len(list)
    BY <2>1
  <2>3. 0 \in 0 .. Len(list) /\ Begins(f[0], array)
    <3>1. 0 \in 0 .. Len(list)
      BY <1>2
    <3> QED
      BY <1>3, <1>5, <3>1, GrowthBegins
  <2>4. array[1] = f[0][1]
    <3>1. 1 \in 1 .. Len(f[0])
      BY <2>2
    <3> QED
      BY <2>3, <3>1 DEF Begins
  <2> QED
    BY <1>7, <2>2, <2>3, <2>4
<1>12. ASSUME NEW n \in 1 .. Len(list)
       PROVE  /\ at[n] = at[n - 1] + 2 + Len(Words(list, sets, n)) /\ at[n] <= Len(array)
              /\ RecordAt(array, at[n - 1], HashOf[list[n]], Words(list, sets, n))
  <2>1. n \in 0 .. Len(list) /\ n - 1 \in 0 .. Len(list)
    BY <1>2
  <2>2. PICK words, p, q, s, h :
          /\ words = Words(list, sets, n) /\ p = at[n - 1] /\ q = at[n] /\ s = f[n]
          /\ h = HashOf[list[n]]
    OBVIOUS
  <2>3. Len(words) \in Nat /\ p \in Nat /\ q \in Nat
    BY <1>8, <2>1, <2>2, WordsTyped
  <2>4. q = p + 2 + Len(words) /\ RecordAt(s, p, h, words)
    BY <1>3, <1>7, <2>1, <2>2, GrowthStep
  <2>5. q <= Len(array) /\ \A k \in 1 .. q : array[k] = s[k]
    BY <1>3, <1>5, <1>7, <2>1, <2>2, GrowthBegins DEF Begins
  <2>6. /\ p + 1 \in 1 .. q /\ p + 2 \in 1 .. q
        /\ \A k \in 1 .. Len(words) : p + 2 + k \in 1 .. q
    BY <2>3, <2>4
  <2>7. RecordAt(array, p, h, words)
    BY <2>4, <2>5, <2>6 DEF RecordAt
  <2> QED
    BY <2>2, <2>4, <2>5, <2>7
<1>13. Laid(array, list, sets, at)
  BY <1>9, <1>10, <1>11, <1>12 DEF Laid
<1> QED
  BY <1>4, <1>13
-----------------------------------------------------------------------------
StartsLike(f, array) ==
  f = [n \in 0 .. At(array, 0) |-> IF n = 0 THEN 1 ELSE NextRecord(array, f[n - 1])]

LEMMA RecordsStep ==
  ASSUME NEW array, NEW list, NEW sets, Tables(list, sets), NEW at, Laid(array, list, sets, at),
         NEW n \in 1 .. Len(list)
  PROVE  /\ at[n - 1] \in Nat /\ n - 1 \in 0 .. Len(list) /\ NextRecord(array, at[n - 1]) = at[n]
         /\ At(array, at[n - 1]) = HashOf[list[n]]
<1>1. Len(list) \in Nat
  BY LenProperties DEF Tables
<1>2. n - 1 \in 0 .. Len(list)
  BY <1>1
<1>3. PICK p, q, h, w : p = at[n - 1] /\ q = at[n] /\ h = HashOf[list[n]] /\ w = Words(list, sets, n)
  OBVIOUS
<1>4. p \in Nat /\ q = p + 2 + Len(w) /\ array[p + 1] = h /\ array[p + 2] = Len(w)
  BY <1>2, <1>3 DEF Laid, RecordAt
<1>5. Len(w) \in Nat
  BY <1>3, WordsTyped
<1>6. array[(p + 1) + 1] = Len(w)
  <2>1. (p + 1) + 1 = p + 2
    BY <1>4
  <2> QED
    BY <1>4, <2>1
<1>7. p + Len(w) + 2 = q
  BY <1>4, <1>5
<1> QED
  BY <1>2, <1>3, <1>4, <1>6, <1>7 DEF NextRecord, At

(* The runtime finds every record where the compiler put it. *)
LEMMA StartsFound ==
  ASSUME NEW array, NEW list, NEW sets, Tables(list, sets), NEW at, Laid(array, list, sets, at)
  PROVE  /\ At(array, 0) = Len(list) /\ Len(list) \in Nat
         /\ \A n \in 0 .. Len(list) : Starts(array)[n] = at[n]
<1>0. At(array, 0) = Len(list) /\ Len(list) \in Nat /\ at \in [0 .. Len(list) -> Nat] /\ at[0] = 1
  BY LenProperties DEF Tables, Laid, At
<1>1. StartsLike(at, array)
  <2>1. ASSUME NEW n \in 0 .. Len(list)
        PROVE  at[n] = IF n = 0 THEN 1 ELSE NextRecord(array, at[n - 1])
    <3>1. CASE n = 0
      BY <1>0, <3>1
    <3>2. CASE n # 0
      <4>1. n \in 1 .. Len(list)
        BY <1>0, <3>2
      <4> QED
        BY <3>2, <4>1, RecordsStep
    <3> QED
      BY <3>1, <3>2
  <2> QED
    BY <1>0, <2>1 DEF StartsLike
<1>2. PICK f : f = Starts(array)
  OBVIOUS
<1>3. f = CHOOSE g : StartsLike(g, array)
  BY <1>2 DEF Starts, StartsLike
<1>4. StartsLike(f, array)
  BY <1>1, <1>3
<1> DEFINE Wrong == {n \in 0 .. Len(list) : f[n] # at[n]}
<1>5. SUFFICES ASSUME Wrong # {} PROVE FALSE
  BY <1>0, <1>2
<1>6. PICK n \in Wrong : \A y \in Wrong : n <= y
  <2> HIDE DEF Wrong
  <2>1. Wrong \in SUBSET Nat
    BY <1>0 DEF Wrong
  <2> QED
    BY <1>5, <2>1, LeastNat
<1>7. n \in 0 .. Len(list)
  BY <1>6
<1>8. f[n] = IF n = 0 THEN 1 ELSE NextRecord(array, f[n - 1])
  BY <1>0, <1>4, <1>7 DEF StartsLike
<1>9. n # 0
  BY <1>0, <1>6, <1>8
<1>10. n \in 1 .. Len(list) /\ n - 1 \in 0 .. Len(list) /\ ~(n <= n - 1)
  BY <1>0, <1>7, <1>9
<1>11. f[n - 1] = at[n - 1]
  <2>1. n - 1 \notin Wrong
    <3> HIDE DEF Wrong
    <3> QED
      BY <1>6, <1>10
  <2> QED
    BY <1>10, <2>1
<1> QED
  BY <1>6, <1>8, <1>9, <1>10, <1>11, RecordsStep

(* Reading a record gives the words that were written. *)
LEMMA RecordRead ==
  ASSUME NEW array, NEW list, NEW sets, Tables(list, sets), NEW at, Laid(array, list, sets, at),
         NEW n \in 0 .. Len(list) - 1
  PROVE  /\ n + 1 \in 1 .. Len(list)
         /\ At(array, Starts(array)[n]) = HashOf[list[n + 1]]
         /\ WordsAt(array, Starts(array)[n] + 1) = Words(list, sets, n + 1)
<1>1. n + 1 \in 1 .. Len(list) /\ n \in 0 .. Len(list) /\ (n + 1) - 1 = n
  BY StartsFound
<1>2. PICK p, q, h, w :
        p = Starts(array)[n] /\ q = at[n + 1] /\ h = HashOf[list[n + 1]] /\ w = Words(list, sets, n + 1)
  OBVIOUS
<1>3. p = at[n] /\ p \in Nat /\ At(array, p) = h
  BY <1>1, <1>2, StartsFound, RecordsStep
<1>4. w \in Seq(Nat) /\ Len(w) \in Nat /\ array \in Seq(Nat)
  BY <1>1, <1>2, WordsTyped DEF Laid
<1>5. q = p + 2 + Len(w) /\ q <= Len(array) /\ RecordAt(array, p, h, w)
  BY <1>1, <1>2, <1>3 DEF Laid
<1>6. WordsAt(array, p + 1) = w
  <2>1. PICK l, m : l = Len(w) /\ m = Len(array)
    OBVIOUS
  <2>2. l \in Nat /\ m \in Nat /\ p + 2 + l <= m
    BY <1>4, <1>5, <2>1, LenProperties
  <2>3. (p + 1) + 1 = p + 2 /\ (p + 1) + 2 = p + 3 /\ (p + 1) + 1 + l = p + 2 + l
    BY <1>3, <2>2
  <2>4. PICK s : s = SubSeq(array, p + 3, p + 2 + l)
    OBVIOUS
  <2>5. WordsAt(array, p + 1) = s
    <3>1. array[p + 2] = l
      BY <1>5, <2>1 DEF RecordAt
    <3>2. At(array, p + 1) = l
      BY <2>3, <3>1 DEF At
    <3>3. PICK pos, c, d : pos = p + 1 /\ c = pos + 2 /\ d = pos + 1 + At(array, pos)
      OBVIOUS
    <3>4. WordsAt(array, pos) = SubSeq(array, c, d)
      BY <3>3 DEF WordsAt
    <3>5. c = p + 3 /\ d = p + 2 + l
      BY <2>3, <3>2, <3>3
    <3> QED
      BY <2>4, <3>3, <3>4, <3>5, Zenon
  <2>6. s \in Seq(Nat) /\ Len(s) = l /\ \A k \in 1 .. l : s[k] = array[(p + 3) + k - 1]
    <3>1. PICK a, b : a = p + 3 /\ b = p + 2 + l
      OBVIOUS
    <3>2. a \in Int /\ b \in Int /\ b - a + 1 = l /\ (~(a <= b) => l = 0)
      <4>1. p \in Int /\ l \in Int /\ l >= 0
        BY <1>3, <2>2
      <4>2. a \in Int /\ b \in Int
        BY <3>1, <4>1
      <4>3. b - a + 1 = l
        BY <3>1, <4>1
      <4>4. ~(a <= b) => l = 0
        BY <3>1, <4>1
      <4> QED
        BY <4>2, <4>3, <4>4
    <3>3. ASSUME NEW k \in a .. b PROVE array[k] \in Nat
      <4>1. k \in 1 .. m
        BY <1>3, <2>2, <3>1
      <4> QED
        BY <1>4, <2>1, <4>1, ElementOfSeq
    <3>4. /\ SubSeq(array, a, b) \in Seq(Nat)
          /\ Len(SubSeq(array, a, b)) = IF a <= b THEN b - a + 1 ELSE 0
          /\ \A k \in 1 .. b - a + 1 : SubSeq(array, a, b)[k] = array[a + k - 1]
      BY <3>2, <3>3, SubSeqProperties
    <3>5. s = SubSeq(array, a, b)
      BY <2>4, <3>1
    <3>6. Len(s) = l /\ s \in Seq(Nat)
      BY <3>2, <3>4, <3>5, Zenon
    <3>7. \A k \in 1 .. l : s[k] = array[a + k - 1]
      BY <3>2, <3>4, <3>5, Zenon
    <3> QED
      BY <3>1, <3>6, <3>7, Zenon
  <2>7. \A k \in 1 .. l : s[k] = w[k]
    <3> TAKE k \in 1 .. l
    <3>1. (p + 3) + k - 1 = p + 2 + k
      BY <1>3, <2>2
    <3>2. array[p + 2 + k] = w[k]
      BY <1>5, <2>1 DEF RecordAt
    <3> QED
      BY <2>6, <3>1, <3>2
  <2> QED
    BY <1>4, <2>1, <2>5, <2>6, <2>7, SeqEqual
<1> QED
  BY <1>1, <1>2, <1>3, <1>6

(* Every type has its record in typeInfoArray, in the order of AllTypeInfo. *)
EveryType == [n \in 1 .. AllTypeNum |-> n - 1]

LEMMA EveryTypeListed ==
  /\ EveryType \in Seq(Types) /\ Len(EveryType) = AllTypeNum
  /\ \A t \in Types : EveryType[t + 1] = t
<1>1. AllTypeNum \in Nat
  BY NumAssumption
<1>2. \A n \in 1 .. AllTypeNum : n - 1 \in Types
  BY <1>1 DEF Types
<1>3. EveryType \in [1 .. AllTypeNum -> Types]
  BY <1>2 DEF EveryType
<1>4. EveryType \in Seq(Types) /\ Len(EveryType) = AllTypeNum
  BY <1>1, <1>3
<1>5. ASSUME NEW t \in Types PROVE EveryType[t + 1] = t
  <2>1. t + 1 \in 1 .. AllTypeNum /\ (t + 1) - 1 = t
    BY <1>1 DEF Types
  <2> QED
    BY <2>1 DEF EveryType
<1> QED
  BY <1>4, <1>5

(* emitInstForObjTrace finds the rule of the type it is about. *)
LEMMA RuleFound ==
  ASSUME TypeOK, NEW t \in Types
  PROVE  Enumerates(WordsAt(typeInfoArray, RulePosition(HashOf[t])), Hashes(allParents[t]))
<1>1. PICK list, sets, array : list = EveryType /\ sets = allParents /\ array = typeInfoArray
  OBVIOUS
<1>2. Tables(list, sets) /\ Len(list) = AllTypeNum
  BY <1>1, EveryTypeListed DEF Tables, TypeOK
<1>3. array = Emitted(list, sets)
  BY <1>1 DEF typeInfoArray, EveryType
<1>4. PICK at : Laid(array, list, sets, at)
  BY <1>2, <1>3, EmittedLaid
<1>5. At(array, 0) = AllTypeNum /\ AllTypeNum \in Nat
  BY <1>2, <1>4, StartsFound
<1>6. ASSUME NEW k \in Types
      PROVE  /\ At(array, Starts(array)[k]) = HashOf[k]
             /\ WordsAt(array, Starts(array)[k] + 1) = Sorted(sets[k])
  <2>1. k \in 0 .. Len(list) - 1
    BY <1>2 DEF Types
  <2>2. list[k + 1] = k
    BY <1>1, EveryTypeListed
  <2> QED
    BY <1>2, <1>4, <2>1, <2>2, RecordRead DEF Words
<1>7. PICK n : n = CHOOSE k \in 0 .. At(array, 0) - 1 :
               /\ At(array, Starts(array)[k]) = HashOf[t]
               /\ \A j \in 0 .. k - 1 : At(array, Starts(array)[j]) # HashOf[t]
  OBVIOUS
<1>8. RulePosition(HashOf[t]) = Starts(array)[n] + 1
  BY <1>1, <1>7 DEF RulePosition
<1>9. n = t
  <2>1. 0 .. At(array, 0) - 1 = Types
    BY <1>5 DEF Types
  <2>2. ASSUME NEW j \in 0 .. t - 1 PROVE At(array, Starts(array)[j]) # HashOf[t]
    <3>1. j \in Types /\ j # t
      BY TypesAre, NumAssumption DEF Types
    <3>2. HashOf[j] # HashOf[t]
      BY <3>1, HashAssumption
    <3> QED
      BY <1>6, <3>1, <3>2
  <2>3. n \in Types /\ At(array, Starts(array)[n]) = HashOf[t]
    BY <1>6, <1>7, <2>1, <2>2
  <2> QED
    BY <1>6, <2>3, HashAssumption
<1>10. Enumerates(Sorted(sets[t]), Hashes(sets[t]))
  <2>1. sets[t] \in SUBSET Types
    BY <1>2 DEF Tables
  <2> QED
    BY <2>1, SortedEnumerates
<1> QED
  BY <1>1, <1>6, <1>8, <1>9, <1>10

(* The runtime reads one entry for every type of the array. *)
LEMMA PhantomsFound ==
  ASSUME TypeOK
  PROVE  PhantomsRead = {[type |-> HashOf[t], phantoms |-> Hashes(allPhantoms[t])] :
                           t \in {u \in Types : HasPhantoms(u)}}
<1> DEFINE With == {u \in Types : HasPhantoms(u)}
           entry(t) == [type |-> HashOf[t], phantoms |-> Hashes(allPhantoms[t])]
<1>1. PICK list, sets, array :
        list = Ascending(With) /\ sets = allPhantoms /\ array = typePhantomInfoArray
  OBVIOUS
<1>2. Enumerates(list, With)
  <2>1. AllTypeNum \in Nat /\ With \in SUBSET (0 .. AllTypeNum - 1)
    BY NumAssumption DEF Types
  <2> QED
    BY <1>1, <2>1, AscendingEnumerates
<1>3. Range(list) = With /\ With \subseteq Types /\ list \in Seq(Nat)
  BY <1>2 DEF Enumerates
<1>4. Len(list) \in Nat /\ DOMAIN list = 1 .. Len(list)
  BY <1>3, LenProperties
<1> HIDE DEF With
<1>5. Tables(list, sets)
  <2>1. \A n \in 1 .. Len(list) : list[n] \in Types
    BY <1>3, <1>4 DEF Range
  <2>2. list \in [1 .. Len(list) -> Types]
    BY <1>3, <1>4, <2>1, LenProperties
  <2>3. list \in Seq(Types)
    BY <1>4, <2>2, SeqDef
  <2> QED
    BY <1>1, <2>3 DEF Tables, TypeOK
<1>6. array = Emitted(list, sets)
  BY <1>1 DEF typePhantomInfoArray, With
<1>7. PICK at : Laid(array, list, sets, at)
  BY <1>5, <1>6, EmittedLaid
<1>8. At(array, 0) = Len(list)
  BY <1>5, <1>7, StartsFound
<1> DEFINE read(n) == [type |-> At(array, Starts(array)[n]),
                       phantoms |-> Range(WordsAt(array, Starts(array)[n] + 1))]
<1>9. ASSUME NEW n \in 0 .. Len(list) - 1
      PROVE  n + 1 \in 1 .. Len(list) /\ list[n + 1] \in With /\ read(n) = entry(list[n + 1])
  <2>1. /\ n + 1 \in 1 .. Len(list) /\ At(array, Starts(array)[n]) = HashOf[list[n + 1]]
        /\ WordsAt(array, Starts(array)[n] + 1) = Words(list, sets, n + 1)
    BY <1>5, <1>7, RecordRead
  <2>2. list[n + 1] \in With
    BY <1>3, <1>4, <2>1 DEF Range
  <2>3. Range(Words(list, sets, n + 1)) = Hashes(sets[list[n + 1]])
    BY <1>5, <2>1, WordsTyped DEF Enumerates
  <2> QED
    BY <1>1, <2>1, <2>2, <2>3
<1>10. PhantomsRead = {read(n) : n \in 0 .. Len(list) - 1}
  BY <1>1, <1>8 DEF PhantomsRead
<1>11. ASSUME NEW t \in With
       PROVE  \E n \in 0 .. Len(list) - 1 : list[n + 1] = t
  <2>1. PICK k \in 1 .. Len(list) : list[k] = t
    BY <1>3, <1>4 DEF Range
  <2>2. k - 1 \in 0 .. Len(list) - 1 /\ (k - 1) + 1 = k
    BY <1>4
  <2> QED
    BY <2>1, <2>2
<1> HIDE DEF read, entry
<1>12. {read(n) : n \in 0 .. Len(list) - 1} = {entry(t) : t \in With}
  BY <1>9, <1>11
<1> QED
  BY <1>10, <1>12 DEF With, entry
-----------------------------------------------------------------------------
(* extendPhantomSet(t, t) lists t itself first, so a type without other      *)
(* phantom types has a set of one, whatever the module.                     *)
OwnPhantom ==
  /\ pc = "phantoms" => visited \subseteq allPhantoms[i] /\ i \in visited \cup calls
  /\ \A t \in Types :
       pc = "done" \/ (pc \in {"parents", "phantoms"} /\ t < i) => t \in allPhantoms[t]

LEMMA OwnPhantomStep ==
  ASSUME TypeOK, TypeOK', OwnPhantom, [Next]_vars
  PROVE  OwnPhantom'
<1> USE DEF OwnPhantom
<1>1. ASSUME NEW l \in Line, ReadLine(l) PROVE OwnPhantom'
  BY <1>1 DEF ReadLine
<1>2. CASE ReadEnd
  BY <1>2 DEF ReadEnd
<1>3. CASE Resolve
  BY <1>3 DEF Resolve
<1>4. CASE ResolveEnd
  BY <1>4, TypesAre DEF ResolveEnd, Start
<1>5. ASSUME NEW c \in Types, ExtendParentSet(c) PROVE OwnPhantom'
  BY <1>5 DEF ExtendParentSet
<1>6. ASSUME NEW c \in Types, ExtendPhantomSet(c) PROVE OwnPhantom'
  <2>1. /\ pc = "phantoms" /\ pc' = pc /\ i' = i /\ i \in Types
        /\ visited' = visited \cup {c} /\ calls \subseteq visited' \cup calls'
        /\ allPhantoms'[i] = allPhantoms[i] \cup {c}
        /\ \A t \in Types : t # i => allPhantoms'[t] = allPhantoms[t]
    BY <1>6 DEF ExtendPhantomSet, Visit, TypeOK
  <2>2. \A t \in Types : t < i => t # i
    BY <2>1, TypesAre
  <2> QED
    BY <2>1, <2>2
<1>7. ASSUME NEW c \in Types, AlreadyVisited(c) PROVE OwnPhantom'
  BY <1>7 DEF AlreadyVisited
<1>8. CASE ParentsEnd
  BY <1>8 DEF ParentsEnd, Start
<1>9. CASE PhantomsEnd
  <2>1. pc = "phantoms" /\ i \in Types /\ i \in allPhantoms[i] /\ allPhantoms' = allPhantoms
    BY <1>9 DEF PhantomsEnd, TypeOK
  <2>2. ASSUME NEW t \in Types, t < i + 1 PROVE t \in allPhantoms[t]
    <3>1. t < i \/ t = i
      BY <2>1, <2>2, TypesAre
    <3> QED
      BY <2>1, <3>1
  <2>3. CASE Start("parents", i + 1)
    BY <2>1, <2>2, <2>3 DEF Start
  <2>4. CASE i + 1 = AllTypeNum /\ pc' = "done"
    BY <2>1, <2>2, <2>4, TypesAre
  <2> QED
    BY <1>9, <2>3, <2>4 DEF PhantomsEnd
<1>10. CASE UNCHANGED vars
  BY <1>10 DEF vars
<1> QED
  BY <1>1, <1>2, <1>3, <1>4, <1>5, <1>6, <1>7, <1>8, <1>9, <1>10 DEF Next

LEMMA OthersCounted ==
  ASSUME TypeOK, NEW t \in Types, t \in allPhantoms[t]
  PROVE  HasPhantoms(t) <=> allPhantoms[t] # {t}
<1>1. PICK S : S = allPhantoms[t]
  OBVIOUS
<1>2. IsFiniteSet(S)
  <2>1. S \subseteq 0 .. AllTypeNum - 1 /\ AllTypeNum - 1 \in Int
    BY <1>1, NumAssumption DEF TypeOK, Types
  <2>2. IsFiniteSet(0 .. AllTypeNum - 1)
    BY <2>1, FS_Interval
  <2> QED
    BY <2>1, <2>2, FS_Subset
<1>3. Cardinality(S \ {t}) = Cardinality(S) - 1 /\ IsFiniteSet(S \ {t})
  BY <1>1, <1>2, FS_RemoveElement
<1>4. Cardinality(S) \in Nat /\ Cardinality(S \ {t}) \in Nat
  BY <1>2, <1>3, FS_CardinalityType
<1>5. Cardinality(S \ {t}) = 0 <=> S \ {t} = {}
  BY <1>3, FS_EmptySet
<1>6. Cardinality(S) > 1 <=> Cardinality(S \ {t}) # 0
  BY <1>3, <1>4
<1> QED
  BY <1>1, <1>5, <1>6 DEF HasPhantoms

LEMMA ReadBack ==
  ASSUME TypeOK, OwnPhantom
  PROVE  TablesReadBack
<1> SUFFICES ASSUME pc = "done" PROVE
      /\ \A t \in Types :
           LET rule == WordsAt(typeInfoArray, RulePosition(HashOf[t]))
           IN  Range(rule) = Hashes(allParents[t]) /\ IsAscending(rule)
      /\ PhantomsRead =
           {[type |-> HashOf[t], phantoms |-> Hashes(allPhantoms[t])] :
              t \in {u \in Types : allPhantoms[u] # {u}}}
  BY DEF TablesReadBack
<1>1. ASSUME NEW t \in Types, NEW rule, rule = WordsAt(typeInfoArray, RulePosition(HashOf[t]))
      PROVE  Range(rule) = Hashes(allParents[t]) /\ IsAscending(rule)
  BY <1>1, RuleFound DEF Enumerates, IsAscending
<1>2. {u \in Types : HasPhantoms(u)} = {u \in Types : allPhantoms[u] # {u}}
  BY OthersCounted DEF OwnPhantom
<1> QED
  BY <1>1, <1>2, PhantomsFound

(* Once the arrays are emitted, an object of any type gets the address of a *)
(* rule that holds the hashes of that type's parents in ascending order, and *)
(* the runtime reads the phantom types that were written: for any number of *)
(* types, any relations between them and any hashes that tell them apart.   *)
THEOREM TablesAreReadBack == Spec => []TablesReadBack
<1>1. Init => OwnPhantom
  BY DEF Init, OwnPhantom
<1>2. TypeOK /\ TypeOK' /\ OwnPhantom /\ [Next]_vars => OwnPhantom'
  BY OwnPhantomStep
<1>3. TypeOK /\ OwnPhantom => TablesReadBack
  BY ReadBack
<1> QED
  BY <1>1, <1>2, <1>3, TypeCorrect, PTL DEF Spec
===============================================================================
