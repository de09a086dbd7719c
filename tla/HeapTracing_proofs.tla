-------------------------- MODULE HeapTracing_proofs --------------------------
(***************************************************************************)
(* Theorems about the object type map and about the program that runs on   *)
(* it.                                                                     *)
(*                                                                         *)
(* First ObjTypeMap, for every address set, table size and word size: its  *)
(* types, where entries are, what look-ups see of each call, and the       *)
(* registry it implements for an orderly program.                          *)
(*                                                                         *)
(* Then HeapTracing, for every layout of the types and every history of    *)
(* allocations.  The invariant is HeapInv: what the map holds, what the    *)
(* emitted calls have still to forget and what they have still to register *)
(* together are exactly the tracked subobjects of the live blocks.         *)
(***************************************************************************)
EXTENDS HeapTracing, FiniteSetTheorems, WellFoundedInduction, TLAPS

LEMMA Geometry == \A a \in Addr : getHash(a) \in Bucket /\ TreeKey(a) \in Key
BY AddrAssumption, GeometryAssumption DEF getHash, TreeKey, Bucket, Key

LEMMA SmallModulo == \A i \in 0 .. MaxCount : i % Word = i
BY GeometryAssumption, CountAssumption

LEMMA NextIndex == \A i \in 0 .. MaxCount - 1 : (i + 1) % Word = i + 1
BY GeometryAssumption, CountAssumption

LEMMA EntryFields ==
  /\ \A e \in Entry : e \in [addr : Addr, info : Info] /\ e # NoEntry /\ e.info # NoInfo
  /\ \A a \in Addr : a # Null
BY NoEntryAssumption, NoInfoAssumption, AddrAssumption DEF Entry, Null

(* What a look-up can answer. *)
LEMMA FindType ==
  ASSUME TypeOK, NEW a \in Addr
  PROVE  FindEntry(a) \in Entry \cup {NoEntry}
<1>1. getHash(a) \in Bucket /\ TreeKey(a) \in Key
  BY Geometry
<1>2. a # Null
  BY EntryFields
<1>3. slot[getHash(a)].addr = a => slot[getHash(a)] \in Entry
  BY <1>1, <1>2 DEF TypeOK, Entry
<1> QED
  BY <1>1, <1>3 DEF TypeOK, FindEntry

LEMMA StoreType ==
  ASSUME TypeOK, NEW a \in Addr, NEW info \in Info, Store(a, info)
  PROVE  /\ slot' \in [Bucket -> [addr : Addr \cup {Null}, info : Info \cup {NoInfo}]]
         /\ \A b \in Bucket : slot'[b].addr # Null => slot'[b].info # NoInfo
         /\ tree' \in [Bucket -> [Key -> Entry \cup {NoEntry}]]
<1> DEFINE b0 == getHash(a)
<1>1. b0 \in Bucket
  BY Geometry
<1>2. info # NoInfo
  BY NoInfoAssumption
<1>3. slot' = [slot EXCEPT ![b0] = [addr |-> a, info |-> info]]
  BY DEF Store
<1>4. ASSUME ~Vacant(a)
      PROVE  slot[b0] \in Entry /\ TreeKey(slot[b0].addr) \in Key
  <2>1. slot[b0].addr # Null /\ slot[b0].addr \in Addr
    BY <1>1, <1>4 DEF Vacant, TypeOK
  <2>2. slot[b0].info \in Info
    BY <1>1, <2>1 DEF TypeOK
  <2> QED
    BY <1>1, <2>1, <2>2, Geometry DEF TypeOK, Entry
<1>5. tree' \in [Bucket -> [Key -> Entry \cup {NoEntry}]]
  <2>1. CASE Vacant(a)
    BY <2>1 DEF TypeOK, Store, Evict
  <2>2. CASE ~Vacant(a)
    <3> DEFINE k0 == TreeKey(slot[b0].addr)
    <3>1. tree' = [tree EXCEPT ![b0][k0] = slot[b0]]
      BY <2>2 DEF Store, Evict
    <3>2. slot[b0] \in Entry /\ k0 \in Key
      BY <1>4, <2>2
    <3> HIDE DEF b0, k0
    <3> QED
      BY <1>1, <3>1, <3>2 DEF TypeOK
  <2> QED
    BY <2>1, <2>2
<1> HIDE DEF b0
<1> QED
  BY <1>1, <1>2, <1>3, <1>5 DEF TypeOK

LEMMA EraseType ==
  ASSUME TypeOK, NEW a \in Addr, Erase(a)
  PROVE  /\ slot' \in [Bucket -> [addr : Addr \cup {Null}, info : Info \cup {NoInfo}]]
         /\ \A b \in Bucket : slot'[b].addr # Null => slot'[b].info # NoInfo
         /\ tree' \in [Bucket -> [Key -> Entry \cup {NoEntry}]]
<1>1. getHash(a) \in Bucket /\ TreeKey(a) \in Key
  BY Geometry
<1>2. CASE slot[getHash(a)].addr = a
  BY <1>1, <1>2 DEF Erase, TypeOK
<1>3. CASE slot[getHash(a)].addr # a
  <2> DEFINE b0 == getHash(a)  k0 == TreeKey(a)
  <2>1. tree' = [tree EXCEPT ![b0][k0] = NoEntry] /\ UNCHANGED slot
    BY <1>3 DEF Erase
  <2>2. b0 \in Bucket /\ k0 \in Key
    BY <1>1
  <2> HIDE DEF b0, k0
  <2> QED
    BY <2>1, <2>2 DEF TypeOK
<1> QED
  BY <1>2, <1>3

(* Every step registers one address, erases one, or leaves the table and    *)
(* the trees alone.                                                         *)
Registers(a, info) ==
  /\ Store(a, info)
  /\ \/ call = Idle /\ (Reregister \/ Reinterpret \/ Lookup(a) = NoInfo)
     \/ call.op = "update" /\ call.i < call.n /\ a = Element

Looks == \/ UNCHANGED last
         \/ \E a \in Addr : last' = [op |-> "find", addr |-> a, info |-> Lookup(a)]

LEMMA StepKinds ==
  ASSUME TypeOK, [Next]_vars
  PROVE  \/ \E a \in Addr, info \in Info : Registers(a, info)
         \/ \E a \in Addr : Erase(a)
         \/ UNCHANGED <<slot, tree>> /\ Looks
<1> USE CountAssumption
<1>1. ASSUME NEW a \in Addr, NEW t \in Type, NEW o \in Offset, UpdateDirect(a, t, o)
      PROVE  \E info \in Info : Registers(a, info)
  <2>1. [type |-> t, offset |-> o, count |-> 1] \in Info
    BY DEF Info
  <2> QED
    BY <1>1, <2>1 DEF UpdateDirect, MayRegister, Registers
<1>2. ASSUME NEW a \in Addr, NEW t \in Type, NEW o \in Offset, UpdateInline(a, t, o)
      PROVE  \E info \in Info : Registers(a, info)
  <2> DEFINE kept == IF Vacant(a) THEN SlotCount(getHash(a)) ELSE 1
  <2>1. kept \in 0 .. MaxCount
    BY Geometry DEF SlotCount, TypeOK, Info
  <2>2. [type |-> t, offset |-> o, count |-> kept] \in Info
    BY <2>1 DEF Info
  <2>3. Store(a, [type |-> t, offset |-> o, count |-> kept])
    BY <1>2 DEF UpdateInline
  <2> HIDE DEF kept
  <2> QED
    BY <1>2, <2>2, <2>3 DEF UpdateInline, MayRegister, Registers
<1>3. ASSUME NEW a \in Addr, NEW t \in Type, HandleReinterpret(a, t)
      PROVE  \/ \E info \in Info : Registers(a, info)
             \/ UNCHANGED <<slot, tree, last>>
  <2>1. [type |-> t, offset |-> Weak, count |-> 1] \in Info
    BY DEF Info
  <2> QED
    BY <1>3, <2>1 DEF HandleReinterpret, Registers
<1>4. ASSUME UpdateElem
      PROVE  \E a \in Addr, info \in Info : Registers(a, info)
  <2>1. call.i \in 0 .. call.n - 1 /\ Element \in Elems(call.addr, call.size, call.n)
    BY <1>4 DEF UpdateElem, TypeOK, ArrayCall, Idle, Element, Elems
  <2>2. Element \in Addr /\ call.info \in Info
    BY <1>4, <2>1 DEF UpdateElem, TypeOK, ArrayCall, Idle
  <2> QED
    BY <1>4, <2>2 DEF UpdateElem, Registers
<1>5. ASSUME RemoveElem
      PROVE  \E a \in Addr : Erase(a)
  <2>1. call.i \in 0 .. call.n - 1 /\ Element \in Elems(call.addr, call.size, call.n)
    BY <1>5 DEF RemoveElem, TypeOK, ArrayCall, Idle, Element, Elems
  <2>2. Element \in Addr
    BY <1>5, <2>1 DEF RemoveElem, TypeOK, ArrayCall, Idle
  <2> QED
    BY <1>5, <2>2 DEF RemoveElem
<1>6. ASSUME \E a \in Addr : RemoveDirect(a)
      PROVE  \E a \in Addr : Erase(a)
  BY <1>6 DEF RemoveDirect
<1>7. ASSUME NEW a \in Addr, Find(a)
      PROVE  UNCHANGED <<slot, tree>> /\ Looks
  BY <1>7 DEF Find, Looks
<1>8. ASSUME NEW a \in Addr, NEW t \in Type, NEW o \in Offset, NEW size \in Size,
             NEW n \in 0 .. MaxCount, BeginUpdate(a, t, o, size, n)
      PROVE  UNCHANGED <<slot, tree, last>>
  BY <1>8 DEF BeginUpdate
<1>9. ASSUME NEW a \in Addr, NEW size \in Size, NEW n \in 0 .. MaxCount, NEW heap \in BOOLEAN,
             BeginRemove(a, size, n, heap)
      PROVE  UNCHANGED <<slot, tree, last>>
  BY <1>9 DEF BeginRemove
<1>10. ASSUME Return \/ UNCHANGED vars
       PROVE  UNCHANGED <<slot, tree, last>>
  BY <1>10 DEF Return, vars
<1> QED
  BY <1>1, <1>2, <1>3, <1>4, <1>5, <1>6, <1>7, <1>8, <1>9, <1>10 DEF Next, Looks

(* What a call in progress holds. *)
CallOK ==
  /\ call \in ArrayCall \cup {Idle}
  /\ call # Idle => Elems(call.addr, call.size, call.n) \subseteq Addr /\ call.i <= call.n
  /\ call.op = "update" => call.info # NoInfo

LEMMA CallType ==
  ASSUME TypeOK, [Next]_vars
  PROVE  CallOK'
<1> USE CountAssumption, GeometryAssumption
<1>1. CASE UNCHANGED call
  BY <1>1 DEF TypeOK, CallOK
<1>2. ASSUME NEW a \in Addr, NEW t \in Type, NEW o \in Offset, NEW size \in Size,
             NEW n \in 0 .. MaxCount, BeginUpdate(a, t, o, size, n)
      PROVE  CallOK'
  <2>1. [type |-> t, offset |-> o, count |-> n % Word] \in Info
    BY SmallModulo DEF Info
  <2>2. call' \in ArrayCall /\ call'.i <= call'.n /\ call'.info # NoInfo
    BY <1>2, <2>1, NoInfoAssumption DEF BeginUpdate, ArrayCall
  <2>3. Elems(call'.addr, call'.size, call'.n) \subseteq Addr
    BY <1>2 DEF BeginUpdate
  <2> QED
    BY <2>2, <2>3 DEF CallOK
<1>3. ASSUME NEW a \in Addr, NEW size \in Size, NEW n \in 0 .. MaxCount, NEW heap \in BOOLEAN,
             BeginRemove(a, size, n, heap)
      PROVE  CallOK'
  <2>1. RemoveCount(a, n, heap) \in 0 .. MaxCount
    BY FindType, EntryFields DEF RemoveCount, Info, Entry
  <2>2. call' \in ArrayCall /\ call'.i <= call'.n /\ call'.op = "remove"
    BY <1>3, <2>1 DEF BeginRemove, ArrayCall
  <2>3. Elems(call'.addr, call'.size, call'.n) \subseteq Addr
    BY <1>3 DEF BeginRemove
  <2> QED
    BY <2>2, <2>3 DEF CallOK
<1>4. ASSUME UpdateElem \/ RemoveElem
      PROVE  CallOK'
  <2>1. call \in ArrayCall /\ call.i \in 0 .. MaxCount - 1 /\ call.i < call.n
    BY <1>4 DEF UpdateElem, RemoveElem, TypeOK, Idle, ArrayCall
  <2>2. call' = [call EXCEPT !.i = call.i + 1]
    BY <1>4, <2>1, NextIndex DEF UpdateElem, RemoveElem, NextElement
  <2>3. call' \in ArrayCall /\ call'.i <= call'.n
    BY <2>1, <2>2 DEF ArrayCall
  <2>4. /\ call'.addr = call.addr /\ call'.size = call.size /\ call'.n = call.n
        /\ call'.op = call.op /\ call'.info = call.info
    BY <2>1, <2>2 DEF ArrayCall
  <2>5. call # Idle
    BY <1>4 DEF UpdateElem, RemoveElem, Idle
  <2> QED
    BY <2>3, <2>4, <2>5 DEF TypeOK, CallOK
<1>5. ASSUME call' = Idle
      PROVE  CallOK'
  BY <1>5 DEF CallOK, Idle
<1>6. ASSUME Return
      PROVE  call' = Idle
  BY <1>6 DEF Return
<1> QED
  BY <1>1, <1>2, <1>3, <1>4, <1>5, <1>6
  DEF Next, vars, UpdateDirect, UpdateInline, HandleReinterpret, RemoveDirect, Find

(* Any step the runtime allows keeps the types.                             *)
LEMMA TypeStep ==
  ASSUME TypeOK, [Next]_vars
  PROVE  TypeOK'
<1>1. CallOK'
  BY CallType
<1>2. ASSUME NEW a \in Addr, NEW info \in Info, Registers(a, info)
      PROVE  TypeOK'
  BY <1>1, <1>2, StoreType DEF TypeOK, CallOK, Registers
<1>3. ASSUME NEW a \in Addr, Erase(a)
      PROVE  TypeOK'
  BY <1>1, <1>3, EraseType DEF TypeOK, CallOK
<1>4. ASSUME UNCHANGED <<slot, tree>>
      PROVE  TypeOK'
  BY <1>1, <1>4 DEF TypeOK, CallOK
<1> QED
  BY <1>2, <1>3, <1>4, StepKinds

(* Every variable keeps its shape, and the elements of a call stay in Addr: *)
(* the table is never indexed, and no count ever stored, outside its range. *)
THEOREM TypeCorrect == Spec => []TypeOK
<1>1. Init => TypeOK
  BY DEF Init, TypeOK, Idle
<1>2. TypeOK /\ [Next]_vars => TypeOK'
  BY TypeStep
<1> QED
  BY <1>1, <1>2, PTL DEF Spec
-----------------------------------------------------------------------------
(* Where entries are. *)

LEMMA StoreHome ==
  ASSUME TypeOK, EntriesAtHome, NEW a \in Addr, NEW info \in Info, Store(a, info)
  PROVE  EntriesAtHome'
<1> DEFINE b0 == getHash(a)  k0 == TreeKey(slot[b0].addr)
<1>1. b0 \in Bucket
  BY Geometry
<1>2. slot' = [slot EXCEPT ![b0] = [addr |-> a, info |-> info]]
  BY DEF Store
<1>3. \A b \in Bucket : slot'[b].addr # Null => getHash(slot'[b].addr) = b
  BY <1>1, <1>2 DEF TypeOK, EntriesAtHome
<1>4. ASSUME NEW b \in Bucket, NEW k \in Key, tree'[b][k] # NoEntry
      PROVE  getHash(tree'[b][k].addr) = b /\ TreeKey(tree'[b][k].addr) = k
  <2>1. CASE Vacant(a)
    BY <1>4, <2>1 DEF EntriesAtHome, Store, Evict
  <2>2. CASE ~Vacant(a)
    <3>1. tree' = [tree EXCEPT ![b0][k0] = slot[b0]]
      BY <2>2 DEF Store, Evict
    <3>2. slot[b0].addr # Null /\ slot[b0].addr \in Addr
      BY <1>1, <2>2 DEF Vacant, TypeOK
    <3>3. getHash(slot[b0].addr) = b0 /\ k0 \in Key
      BY <1>1, <3>2, Geometry DEF EntriesAtHome
    <3>4. CASE b = b0 /\ k = k0
      BY <1>1, <3>1, <3>3, <3>4 DEF TypeOK
    <3>5. CASE ~(b = b0 /\ k = k0)
      <4>1. tree'[b][k] = tree[b][k]
        BY <1>1, <3>1, <3>5 DEF TypeOK
      <4> QED
        BY <1>4, <4>1 DEF EntriesAtHome
    <3> QED
      BY <3>4, <3>5
  <2> QED
    BY <2>1, <2>2
<1> QED
  BY <1>3, <1>4 DEF EntriesAtHome

LEMMA EraseHome ==
  ASSUME TypeOK, EntriesAtHome, NEW a \in Addr, Erase(a)
  PROVE  EntriesAtHome'
<1> DEFINE b0 == getHash(a)  k0 == TreeKey(a)
<1>1. b0 \in Bucket /\ k0 \in Key
  BY Geometry
<1>2. CASE slot[b0].addr = a
  <2>1. slot' = [slot EXCEPT ![b0].addr = Null] /\ tree' = tree
    BY <1>2 DEF Erase
  <2> HIDE DEF b0, k0
  <2> QED
    BY <1>1, <2>1 DEF TypeOK, EntriesAtHome
<1>3. CASE slot[b0].addr # a
  <2>1. tree' = [tree EXCEPT ![b0][k0] = NoEntry] /\ slot' = slot
    BY <1>3 DEF Erase
  <2>2. \A b \in Bucket, k \in Key : tree'[b][k] = NoEntry \/ tree'[b][k] = tree[b][k]
    <3> HIDE DEF b0, k0
    <3> QED
      BY <1>1, <2>1 DEF TypeOK
  <2> QED
    BY <2>1, <2>2 DEF EntriesAtHome
<1> QED
  BY <1>2, <1>3

(* Entries never stray, whatever is called and however often an address is  *)
(* registered again: evicting is keyed by the incumbent's address and its   *)
(* slot is the newcomer's, yet both stay where a look-up searches.          *)
THEOREM EntriesStayHome == Spec => []EntriesAtHome
<1>1. Init => EntriesAtHome
  BY DEF Init, EntriesAtHome
<1>2. TypeOK /\ EntriesAtHome /\ [Next]_vars => EntriesAtHome'
  <2> SUFFICES ASSUME TypeOK, EntriesAtHome, [Next]_vars PROVE EntriesAtHome'
    OBVIOUS
  <2>1. ASSUME UNCHANGED <<slot, tree>>
        PROVE  EntriesAtHome'
    BY <2>1 DEF EntriesAtHome
  <2> QED
    BY <2>1, StepKinds, StoreHome, EraseHome DEF Registers
<1> QED
  BY <1>1, <1>2, TypeCorrect, PTL DEF Spec

LEMMA OwnEntry ==
  ASSUME TypeOK, EntriesAtHome, KeysDistinct
  PROVE  FindsOwnEntry
<1> SUFFICES ASSUME NEW a \in Addr, FindEntry(a) # NoEntry
             PROVE  FindEntry(a).addr = a
  BY DEF FindsOwnEntry
<1>1. getHash(a) \in Bucket /\ TreeKey(a) \in Key
  BY Geometry
<1>2. CASE slot[getHash(a)].addr = a
  BY <1>2 DEF FindEntry
<1>3. CASE slot[getHash(a)].addr # a
  <2> DEFINE e == tree[getHash(a)][TreeKey(a)]
  <2>1. FindEntry(a) = e
    BY <1>3 DEF FindEntry
  <2>2. e \in Entry
    BY <1>1, <2>1 DEF TypeOK
  <2>3. getHash(e.addr) = getHash(a) /\ TreeKey(e.addr) = TreeKey(a) /\ e.addr \in Addr
    BY <1>1, <2>1, <2>2 DEF EntriesAtHome, Entry
  <2> QED
    BY <2>1, <2>3 DEF KeysDistinct
<1> QED
  BY <1>2, <1>3

(* If no two objects of one bucket agree in the bits compare() keeps, no    *)
(* look-up ever answers with another object's entry.                        *)
THEOREM LookupsFindTheirOwn ==
  ASSUME KeysDistinct
  PROVE  Spec => []FindsOwnEntry
<1>1. TypeOK /\ EntriesAtHome => FindsOwnEntry
  BY OwnEntry
<1> QED
  BY <1>1, TypeCorrect, EntriesStayHome, PTL
-----------------------------------------------------------------------------
(* What look-ups see of a step. *)

LEMMA StoreLookup ==
  ASSUME TypeOK, EntriesAtHome, KeysDistinct, NEW a \in Addr, NEW info \in Info,
         Store(a, info), NEW x \in Addr
  PROVE  Lookup(x)' = IF x = a THEN info ELSE Lookup(x)
<1> DEFINE b0 == getHash(a)
           s0 == slot[b0]
           k0 == TreeKey(s0.addr)
<1>1. /\ b0 \in Bucket /\ getHash(x) \in Bucket
      /\ TreeKey(a) \in Key /\ TreeKey(x) \in Key
  BY Geometry
<1>2. x # Null /\ a # Null /\ info # NoInfo
  BY EntryFields, NoInfoAssumption
<1>3. slot' = [slot EXCEPT ![b0] = [addr |-> a, info |-> info]]
  BY DEF Store
<1>4. \A b \in Bucket : slot'[b] = IF b = b0 THEN [addr |-> a, info |-> info] ELSE slot[b]
  BY <1>3 DEF TypeOK
<1>5. CASE x = a
  <2>1. FindEntry(x)' = [addr |-> a, info |-> info]
    BY <1>1, <1>4, <1>5 DEF FindEntry
  <2>2. [addr |-> a, info |-> info] # NoEntry
    BY NoEntryAssumption DEF Entry
  <2> QED
    BY <1>5, <2>1, <2>2 DEF Lookup, InfoOf
<1>6. CASE x # a
  <2>1. CASE Vacant(a)
    <3>1. tree' = tree
      BY <2>1 DEF Store, Evict
    <3>2. getHash(x) = b0 => s0.addr # x
      BY <1>2, <1>6, <2>1 DEF Vacant
    <3>3. FindEntry(x)' = FindEntry(x)
      BY <1>1, <1>4, <1>6, <3>1, <3>2 DEF FindEntry
    <3> QED
      BY <1>6, <3>3 DEF Lookup, InfoOf
  <2>2. CASE ~Vacant(a)
    <3>1. tree' = [tree EXCEPT ![b0][k0] = s0]
      BY <2>2 DEF Store, Evict
    <3>2. s0.addr # Null /\ s0.addr # a /\ s0.addr \in Addr
      BY <1>1, <2>2 DEF Vacant, TypeOK
    <3>3. getHash(s0.addr) = b0 /\ k0 \in Key
      BY <1>1, <3>2, Geometry DEF EntriesAtHome
    <3>4. \A b \in Bucket, k \in Key : tree'[b][k] = IF b = b0 /\ k = k0 THEN s0 ELSE tree[b][k]
      <4> HIDE DEF b0, s0, k0
      <4> QED
        BY <1>1, <3>1, <3>3 DEF TypeOK
    <3>5. CASE x = s0.addr
      <4>1. FindEntry(x) = s0 /\ FindEntry(x)' = s0
        BY <1>1, <1>4, <1>6, <3>3, <3>4, <3>5 DEF FindEntry
      <4> QED
        BY <1>6, <4>1 DEF Lookup, InfoOf
    <3>6. CASE x # s0.addr
      <4>1. ~(getHash(x) = b0 /\ TreeKey(x) = k0)
        BY <3>2, <3>3, <3>6 DEF KeysDistinct
      <4>2. FindEntry(x)' = FindEntry(x)
        BY <1>1, <1>4, <1>6, <3>4, <3>6, <4>1 DEF FindEntry
      <4> QED
        BY <1>6, <4>2 DEF Lookup, InfoOf
    <3> QED
      BY <3>5, <3>6
  <2> QED
    BY <2>1, <2>2
<1> QED
  BY <1>5, <1>6

LEMMA EraseLookup ==
  ASSUME TypeOK, KeysDistinct, NEW a \in Addr, Erase(a), NEW x \in Addr
  PROVE  /\ x # a => Lookup(x)' = Lookup(x)
         /\ OneHome => Lookup(a)' = NoInfo
<1> DEFINE b0 == getHash(a)  k0 == TreeKey(a)
<1>1. /\ b0 \in Bucket /\ getHash(x) \in Bucket
      /\ k0 \in Key /\ TreeKey(x) \in Key
  BY Geometry
<1>2. x # Null /\ a # Null
  BY EntryFields
<1>3. CASE slot[b0].addr = a
  <2>1. slot' = [slot EXCEPT ![b0].addr = Null] /\ tree' = tree
    BY <1>3 DEF Erase
  <2>2. \A b \in Bucket : b # b0 => slot'[b] = slot[b]
    BY <2>1 DEF TypeOK
  <2>3. slot'[b0].addr = Null
    BY <1>1, <2>1 DEF TypeOK
  <2>4. ASSUME x # a
        PROVE  FindEntry(x)' = FindEntry(x)
    BY <1>1, <1>2, <1>3, <2>1, <2>2, <2>3, <2>4 DEF FindEntry
  <2>5. OneHome => FindEntry(a)' = NoEntry
    BY <1>1, <1>2, <1>3, <2>1, <2>3 DEF FindEntry, OneHome
  <2> QED
    BY <2>4, <2>5 DEF Lookup, InfoOf
<1>4. CASE slot[b0].addr # a
  <2>1. tree' = [tree EXCEPT ![b0][k0] = NoEntry] /\ slot' = slot
    BY <1>4 DEF Erase
  <2>2. \A b \in Bucket, k \in Key : tree'[b][k] = IF b = b0 /\ k = k0 THEN NoEntry ELSE tree[b][k]
    <3> HIDE DEF b0, k0
    <3> QED
      BY <1>1, <2>1 DEF TypeOK
  <2>3. FindEntry(a)' = NoEntry
    BY <1>1, <1>4, <2>1, <2>2 DEF FindEntry
  <2>4. ASSUME x # a
        PROVE  FindEntry(x)' = FindEntry(x)
    <3>1. ~(getHash(x) = b0 /\ TreeKey(x) = k0)
      BY <2>4 DEF KeysDistinct
    <3> QED
      BY <1>1, <2>1, <2>2, <3>1 DEF FindEntry
  <2> QED
    BY <2>3, <2>4 DEF Lookup, InfoOf
<1> QED
  BY <1>3, <1>4

LEMMA SameTables ==
  ASSUME UNCHANGED <<slot, tree>>
  PROVE  \A x : Lookup(x)' = Lookup(x)
BY DEF Lookup, InfoOf, FindEntry

(* Whatever is called, and however often, no step changes what is found at  *)
(* an address it does not name: eviction and deletion stay unobservable.    *)
THEOREM CallsStayLocal ==
  ASSUME KeysDistinct
  PROVE  Spec => OnlyNamedAddress
<1>1. TypeOK /\ EntriesAtHome /\ [Next]_vars
        => [\A a \in Addr : Lookup(a)' # Lookup(a) => last'.addr = a]_vars
  <2> SUFFICES ASSUME TypeOK, EntriesAtHome, [Next]_vars,
                      NEW x \in Addr, Lookup(x)' # Lookup(x)
               PROVE  last'.addr = x
    OBVIOUS
  <2>1. ASSUME NEW a \in Addr, NEW info \in Info, Registers(a, info)
        PROVE  last'.addr = x
    BY <2>1, StoreLookup DEF Registers, Store
  <2>2. ASSUME NEW a \in Addr, Erase(a)
        PROVE  last'.addr = x
    BY <2>2, EraseLookup DEF Erase
  <2> QED
    BY <2>1, <2>2, StepKinds, SameTables
<1> QED
  BY <1>1, TypeCorrect, EntriesStayHome, PTL DEF Spec, OnlyNamedAddress
-----------------------------------------------------------------------------
(* Array calls. *)

LEMMA ElementInCall ==
  ASSUME TypeOK, call # Idle, NEW j \in 0 .. call.n - 1
  PROVE  Elem(call.addr, call.size, j) \in Addr
BY DEF TypeOK, Elems

(* The elements an update has passed stay found with what it registers,     *)
(* though later elements evict earlier ones from the slot they share.       *)
THEOREM ArraysGetRegistered ==
  ASSUME KeysDistinct
  PROVE  Spec => []ArrayRegistered
<1>1. Init => ArrayRegistered
  BY DEF Init, Idle, ArrayRegistered
<1>2. TypeOK /\ EntriesAtHome /\ ArrayRegistered /\ [Next]_vars => ArrayRegistered'
  <2> SUFFICES ASSUME TypeOK, EntriesAtHome, ArrayRegistered, [Next]_vars,
                      call'.op = "update", NEW j \in 0 .. call'.i - 1
               PROVE  (Lookup(Elem(call.addr, call.size, j)) = call.info)'
    BY DEF ArrayRegistered
  <2>1. CASE UpdateElem
    <3>1. call \in ArrayCall /\ call.i \in 0 .. MaxCount - 1 /\ call.i < call.n /\ call # Idle
      BY <2>1, CountAssumption DEF UpdateElem, TypeOK, Idle, ArrayCall
    <3>2. call' = [call EXCEPT !.i = call.i + 1]
      BY <2>1, <3>1, NextIndex DEF UpdateElem, NextElement
    <3>3. /\ call'.addr = call.addr /\ call'.size = call.size /\ call'.info = call.info
          /\ call'.i = call.i + 1 /\ call.op = "update"
      BY <2>1, <3>1, <3>2 DEF ArrayCall, UpdateElem
    <3>4. j \in 0 .. call.n - 1 /\ (j = call.i \/ j \in 0 .. call.i - 1)
      BY <3>1, <3>3 DEF ArrayCall
    <3>5. Elem(call.addr, call.size, j) \in Addr /\ Element \in Addr
      BY <3>1, <3>4, ElementInCall DEF Element, ArrayCall
    <3>6. PICK x \in Addr, a \in Addr, info \in Info :
            x = Elem(call.addr, call.size, j) /\ a = Element /\ info = call.info
      BY <3>1, <3>3, <3>5 DEF TypeOK, ArrayCall
    <3>7. Lookup(x)' = IF x = a THEN info ELSE Lookup(x)
      BY <2>1, <3>6, StoreLookup DEF UpdateElem
    <3>8. j # call.i => Lookup(x) = info
      BY <3>3, <3>4, <3>6 DEF ArrayRegistered
    <3>9. Lookup(x)' = info
      BY <3>6, <3>7, <3>8 DEF Element
    <3> QED
      BY <3>3, <3>6, <3>9 DEF Elem, Lookup, InfoOf, FindEntry
  <2>2. CASE UNCHANGED vars
    BY <2>2 DEF ArrayRegistered, vars, Elem, Lookup, InfoOf, FindEntry
  <2>3. ASSUME NEW a \in Addr, NEW t \in Type, NEW o \in Offset, NEW size \in Size,
               NEW n \in 0 .. MaxCount, BeginUpdate(a, t, o, size, n)
        PROVE  FALSE
    BY <2>3 DEF BeginUpdate
  <2>4. UNCHANGED call => call # Idle
    BY DEF Idle
  <2>5. ~Return /\ \A a \in Addr, size \in Size, n \in 0 .. MaxCount, heap \in BOOLEAN :
                       ~BeginRemove(a, size, n, heap)
    BY DEF Return, BeginRemove, Idle
  <2>6. ~RemoveElem
    BY DEF RemoveElem, NextElement, TypeOK, ArrayCall, Idle
  <2> QED
    BY <2>1, <2>2, <2>3, <2>4, <2>5, <2>6
    DEF Next, UpdateDirect, UpdateInline, HandleReinterpret, RemoveDirect, Find
<1> QED
  BY <1>1, <1>2, TypeCorrect, EntriesStayHome, PTL DEF Spec
-----------------------------------------------------------------------------
(* A program that registers only memory holding no registered object, built *)
(* without handle-reinterpret-cast. *)

OrderlyProgram == KeysDistinct /\ ~Reregister /\ ~Reinterpret

(* The elements an update has still to register are distinct and free. *)
PendingFree ==
  call.op = "update" =>
    /\ \A j \in call.i .. call.n - 1 : Lookup(Elem(call.addr, call.size, j)) = NoInfo
    /\ \A j, k \in 0 .. call.n - 1 :
         Elem(call.addr, call.size, j) = Elem(call.addr, call.size, k) => j = k

LEMMA NotFound ==
  ASSUME TypeOK, NEW a \in Addr, Lookup(a) = NoInfo
  PROVE  /\ slot[getHash(a)].addr # a
         /\ tree[getHash(a)][TreeKey(a)] = NoEntry
<1>1. FindEntry(a) = NoEntry
  BY FindType, EntryFields DEF Lookup, InfoOf
<1>2. getHash(a) \in Bucket /\ a # Null
  BY Geometry, EntryFields
<1>3. slot[getHash(a)].addr = a => slot[getHash(a)] \in Entry
  BY <1>2 DEF TypeOK, Entry
<1> QED
  BY <1>1, <1>3, EntryFields DEF FindEntry

LEMMA StoreOneHome ==
  ASSUME TypeOK, EntriesAtHome, OneHome, KeysDistinct, NEW a \in Addr, NEW info \in Info,
         Store(a, info), Lookup(a) = NoInfo
  PROVE  OneHome'
<1> DEFINE b0 == getHash(a)
           s0 == slot[b0]
           k0 == TreeKey(s0.addr)
<1>1. b0 \in Bucket /\ TreeKey(a) \in Key
  BY Geometry
<1>2. s0.addr # a /\ tree[b0][TreeKey(a)] = NoEntry
  BY NotFound
<1>3. slot' = [slot EXCEPT ![b0] = [addr |-> a, info |-> info]]
  BY DEF Store
<1>4. \A b \in Bucket : slot'[b] = IF b = b0 THEN [addr |-> a, info |-> info] ELSE slot[b]
  <2> HIDE DEF b0
  <2> QED
    BY <1>3 DEF TypeOK
<1>5. tree'[b0][TreeKey(a)] = NoEntry /\ \A b \in Bucket : b # b0 => tree'[b] = tree[b]
  <2>1. CASE Vacant(a)
    BY <1>2, <2>1 DEF Store, Evict
  <2>2. CASE ~Vacant(a)
    <3>1. tree' = [tree EXCEPT ![b0][k0] = s0]
      BY <2>2 DEF Store, Evict
    <3>2. s0.addr \in Addr /\ getHash(s0.addr) = b0 /\ k0 \in Key
      BY <1>1, <2>2, Geometry DEF Vacant, TypeOK, EntriesAtHome
    <3>3. k0 # TreeKey(a)
      BY <1>2, <3>2 DEF KeysDistinct
    <3> HIDE DEF b0, s0, k0
    <3> QED
      BY <1>1, <1>2, <3>1, <3>2, <3>3 DEF TypeOK
  <2> QED
    BY <2>1, <2>2
<1> QED
  BY <1>1, <1>4, <1>5 DEF OneHome

LEMMA EraseOneHome ==
  ASSUME TypeOK, OneHome, NEW a \in Addr, Erase(a)
  PROVE  OneHome'
<1> DEFINE b0 == getHash(a)  k0 == TreeKey(a)
<1>1. b0 \in Bucket /\ k0 \in Key
  BY Geometry
<1>2. CASE slot[b0].addr = a
  <2>1. slot' = [slot EXCEPT ![b0].addr = Null] /\ tree' = tree
    BY <1>2 DEF Erase
  <2> HIDE DEF b0, k0
  <2> QED
    BY <1>1, <2>1 DEF TypeOK, OneHome
<1>3. CASE slot[b0].addr # a
  <2>1. tree' = [tree EXCEPT ![b0][k0] = NoEntry] /\ slot' = slot
    BY <1>3 DEF Erase
  <2>2. \A b \in Bucket : slot[b].addr # Null => TreeKey(slot[b].addr) \in Key
    BY Geometry DEF TypeOK
  <2>3. \A b \in Bucket, k \in Key : tree'[b][k] = NoEntry \/ tree'[b][k] = tree[b][k]
    <3> HIDE DEF b0, k0
    <3> QED
      BY <1>1, <2>1 DEF TypeOK
  <2> QED
    BY <2>1, <2>2, <2>3 DEF OneHome
<1> QED
  BY <1>2, <1>3

LEMMA RegistersFree ==
  ASSUME TypeOK, PendingFree, OrderlyProgram, NEW a \in Addr, NEW info \in Info,
         Registers(a, info)
  PROVE  Lookup(a) = NoInfo
<1>1. CASE call = Idle
  BY <1>1 DEF Registers, OrderlyProgram, Idle
<1>2. CASE call.op = "update" /\ call.i < call.n /\ a = Element
  <2>1. call.i \in call.i .. call.n - 1
    BY <1>2 DEF TypeOK, ArrayCall, Idle
  <2> QED
    BY <1>2, <2>1 DEF PendingFree, Element
<1> QED
  BY <1>1, <1>2 DEF Registers

LEMMA PendingStep ==
  ASSUME TypeOK, EntriesAtHome, PendingFree, OrderlyProgram, [Next]_vars
  PROVE  PendingFree'
<1>1. CASE UpdateElem
  <2>1. call \in ArrayCall /\ call.i \in 0 .. MaxCount - 1 /\ call.i < call.n /\ call # Idle
    BY <1>1, CountAssumption DEF UpdateElem, TypeOK, Idle, ArrayCall
  <2>2. call' = [call EXCEPT !.i = call.i + 1]
    BY <1>1, <2>1, NextIndex DEF UpdateElem, NextElement
  <2>3. /\ call'.addr = call.addr /\ call'.size = call.size /\ call'.n = call.n
        /\ call'.i = call.i + 1 /\ call.op = "update"
    BY <1>1, <2>1, <2>2 DEF ArrayCall, UpdateElem
  <2>4. ASSUME NEW j \in call'.i .. call'.n - 1
        PROVE  (Lookup(Elem(call.addr, call.size, j)) = NoInfo)'
    <3>1. j \in 0 .. call.n - 1 /\ j \in call.i .. call.n - 1 /\ j # call.i
      BY <2>1, <2>3 DEF ArrayCall
    <3>2. Elem(call.addr, call.size, j) \in Addr /\ Element \in Addr /\ call.info \in Info
      BY <2>1, <2>3, <3>1, ElementInCall DEF Element, ArrayCall, TypeOK
    <3>3. PICK x \in Addr, a \in Addr, info \in Info :
            x = Elem(call.addr, call.size, j) /\ a = Element /\ info = call.info
      BY <3>2
    <3>4. Lookup(x) = NoInfo
      BY <2>3, <3>1, <3>3 DEF PendingFree
    <3>5. x # a
      <4>1. call.i \in 0 .. call.n - 1
        BY <2>1 DEF ArrayCall
      <4> QED
        BY <2>3, <3>1, <3>3, <4>1 DEF PendingFree, Element
    <3>6. Lookup(x)' = NoInfo
      BY <1>1, <3>3, <3>4, <3>5, StoreLookup DEF UpdateElem, OrderlyProgram
    <3> QED
      BY <2>3, <3>3, <3>6 DEF Elem, Lookup, InfoOf, FindEntry
  <2>5. \A j, k \in 0 .. call'.n - 1 :
          Elem(call'.addr, call'.size, j) = Elem(call'.addr, call'.size, k) => j = k
    BY <2>3 DEF PendingFree
  <2> QED
    BY <2>4, <2>5 DEF PendingFree
<1>2. ASSUME NEW a \in Addr, NEW t \in Type, NEW o \in Offset, NEW size \in Size,
             NEW n \in 0 .. MaxCount, BeginUpdate(a, t, o, size, n)
      PROVE  PendingFree'
  <2>1. /\ call'.addr = a /\ call'.size = size /\ call'.n = n /\ call'.i = 0
        /\ UNCHANGED <<slot, tree>>
    BY <1>2 DEF BeginUpdate
  <2>2. \A j \in 0 .. n - 1 : Lookup(Elem(a, size, j)) = NoInfo
    BY <1>2 DEF BeginUpdate, MayRegister, Elems, OrderlyProgram
  <2>3. \A j, k \in 0 .. n - 1 : Elem(a, size, j) = Elem(a, size, k) => j = k
    BY <1>2 DEF BeginUpdate, OrderlyProgram
  <2> QED
    BY <2>1, <2>2, <2>3 DEF PendingFree, Elem, Lookup, InfoOf, FindEntry
<1>3. CASE UNCHANGED vars
  BY <1>3 DEF PendingFree, vars, Elem, Lookup, InfoOf, FindEntry
<1>4. ASSUME call'.op # "update"
      PROVE  PendingFree'
  BY <1>4 DEF PendingFree
<1>5. ASSUME RemoveElem
      PROVE  call'.op # "update"
  BY <1>5 DEF RemoveElem, NextElement, TypeOK, ArrayCall, Idle
<1>6. ASSUME NEW a \in Addr, NEW t \in Type, NEW o \in Offset,
             UpdateDirect(a, t, o) \/ UpdateInline(a, t, o)
      PROVE  call'.op # "update"
  BY <1>6 DEF UpdateDirect, UpdateInline, Idle
<1>7. ASSUME NEW a \in Addr, NEW t \in Type, HandleReinterpret(a, t)
      PROVE  call'.op # "update"
  BY <1>7 DEF HandleReinterpret, Idle
<1>8. ASSUME NEW a \in Addr, RemoveDirect(a) \/ Find(a)
      PROVE  call'.op # "update"
  BY <1>8 DEF RemoveDirect, Find, Idle
<1>9. ASSUME NEW a \in Addr, NEW size \in Size, NEW n \in 0 .. MaxCount, NEW heap \in BOOLEAN,
             BeginRemove(a, size, n, heap)
      PROVE  call'.op # "update"
  BY <1>9 DEF BeginRemove
<1>10. ASSUME Return
       PROVE  call'.op # "update"
  BY <1>10 DEF Return, Idle
<1> QED
  BY <1>1, <1>2, <1>3, <1>4, <1>5, <1>6, <1>7, <1>8, <1>9, <1>10 DEF Next

(* The inductive invariant of an orderly program: PendingFree is what makes *)
(* each iteration of an update's loop as safe as a single registration.     *)
Orderly == TypeOK /\ EntriesAtHome /\ OneHome /\ PendingFree

LEMMA OrderlyInvariant ==
  ASSUME OrderlyProgram
  PROVE  Spec => []Orderly
<1>1. Init => OneHome /\ PendingFree
  BY DEF Init, Idle, OneHome, PendingFree
<1>2. Orderly /\ [Next]_vars => OneHome' /\ PendingFree'
  <2> SUFFICES ASSUME Orderly, [Next]_vars PROVE OneHome' /\ PendingFree'
    OBVIOUS
  <2>1. PendingFree'
    BY PendingStep DEF Orderly
  <2>2. ASSUME NEW a \in Addr, NEW info \in Info, Registers(a, info)
        PROVE  OneHome'
    BY <2>2, RegistersFree, StoreOneHome DEF Orderly, Registers, OrderlyProgram
  <2>3. ASSUME NEW a \in Addr, Erase(a)
        PROVE  OneHome'
    BY <2>3, EraseOneHome DEF Orderly
  <2>4. ASSUME UNCHANGED <<slot, tree>>
        PROVE  OneHome'
    BY <2>4 DEF Orderly, OneHome
  <2> QED
    BY <2>1, <2>2, <2>3, <2>4, StepKinds DEF Orderly
<1> QED
  BY <1>1, <1>2, TypeCorrect, EntriesStayHome, PTL DEF Spec, Orderly

(* An orderly program never has an address both in a slot and in the slot's *)
(* tree, so erasing the slot leaves nothing older to be found.              *)
THEOREM RegisteredOnce ==
  ASSUME OrderlyProgram
  PROVE  Spec => []OneHome
BY OrderlyInvariant, PTL DEF Orderly

(* For an orderly program the table and its trees implement the map of      *)
(* Registry: each call registers, forgets or finds exactly what it names.   *)
THEOREM TablesImplementRegistry ==
  ASSUME OrderlyProgram
  PROVE  Spec => ImplementsRegistry
<1>1. Init => Abstract!Init
  <2> SUFFICES ASSUME Init PROVE Abstract!Init
    OBVIOUS
  <2>1. ASSUME NEW a \in Addr
        PROVE  Lookup(a) = NoInfo
    BY Geometry, EntryFields DEF Init, Lookup, InfoOf, FindEntry
  <2>2. Found = [a \in Addr |-> NoInfo]
    BY <2>1 DEF Found
  <2> QED
    BY <2>2 DEF Init, Abstract!Init, Abstract!Unregistered, Null
<1>2. Orderly /\ [Next]_vars => [Abstract!Next]_<<Found, last>>
  <2> SUFFICES ASSUME Orderly, [Next]_vars PROVE [Abstract!Next]_<<Found, last>>
    OBVIOUS
  <2>1. ASSUME NEW a \in Addr, NEW info \in Info, Registers(a, info)
        PROVE  Abstract!Register(a, info)
    <3>1. \A x \in Addr : Lookup(x)' = IF x = a THEN info ELSE Lookup(x)
      BY <2>1, StoreLookup DEF Orderly, Registers, OrderlyProgram
    <3>2. Found' = [Found EXCEPT ![a] = info]
      BY <3>1 DEF Found
    <3> QED
      BY <2>1, <3>2 DEF Registers, Store, Abstract!Register
  <2>2. ASSUME NEW a \in Addr, Erase(a)
        PROVE  Abstract!Forget(a)
    <3>1. \A x \in Addr : Lookup(x)' = IF x = a THEN NoInfo ELSE Lookup(x)
      BY <2>2, EraseLookup DEF Orderly, OrderlyProgram
    <3>2. Found' = [Found EXCEPT ![a] = NoInfo]
      BY <3>1 DEF Found
    <3> QED
      BY <2>2, <3>2 DEF Erase, Abstract!Forget
  <2>3. ASSUME UNCHANGED <<slot, tree>>, Looks
        PROVE  UNCHANGED <<Found, last>> \/ \E a \in Addr : Abstract!Find(a)
    <3>1. Found' = Found
      BY <2>3, SameTables DEF Found
    <3> QED
      BY <2>3, <3>1 DEF Looks, Abstract!Find, Found
  <2> QED
    BY <2>1, <2>2, <2>3, StepKinds DEF Orderly, Abstract!Next
<1> QED
  BY <1>1, <1>2, OrderlyInvariant, PTL DEF Spec, ImplementsRegistry, Abstract!Spec

(* In an orderly program an element __remove_oinfo has passed is not found  *)
(* again, though removing later elements rearranges the same slots.         *)
THEOREM ArraysGetForgotten ==
  ASSUME OrderlyProgram
  PROVE  Spec => []ArrayForgotten
<1>1. Init => ArrayForgotten
  BY DEF Init, Idle, ArrayForgotten
<1>2. Orderly /\ ArrayForgotten /\ [Next]_vars => ArrayForgotten'
  <2> SUFFICES ASSUME Orderly, ArrayForgotten, [Next]_vars,
                      call'.op = "remove", NEW j \in 0 .. call'.i - 1
               PROVE  (Lookup(Elem(call.addr, call.size, j)) = NoInfo)'
    BY DEF ArrayForgotten
  <2> USE DEF Orderly
  <2>1. CASE RemoveElem
    <3>1. call \in ArrayCall /\ call.i \in 0 .. MaxCount - 1 /\ call.i < call.n /\ call # Idle
      BY <2>1, CountAssumption DEF RemoveElem, TypeOK, Idle, ArrayCall
    <3>2. call' = [call EXCEPT !.i = call.i + 1]
      BY <2>1, <3>1, NextIndex DEF RemoveElem, NextElement
    <3>3. /\ call'.addr = call.addr /\ call'.size = call.size
          /\ call'.i = call.i + 1 /\ call.op = "remove"
      BY <2>1, <3>1, <3>2 DEF ArrayCall, RemoveElem
    <3>4. j \in 0 .. call.n - 1 /\ (j = call.i \/ j \in 0 .. call.i - 1)
      BY <3>1, <3>3 DEF ArrayCall
    <3>5. Elem(call.addr, call.size, j) \in Addr /\ Element \in Addr
      BY <3>1, <3>4, ElementInCall DEF Element, ArrayCall
    <3>6. PICK x \in Addr, a \in Addr : x = Elem(call.addr, call.size, j) /\ a = Element
      BY <3>5
    <3>7. (x # a => Lookup(x)' = Lookup(x)) /\ Lookup(a)' = NoInfo
      BY <2>1, <3>6, EraseLookup DEF RemoveElem, OrderlyProgram
    <3>8. j # call.i => Lookup(x) = NoInfo
      BY <3>3, <3>4, <3>6 DEF ArrayForgotten
    <3>9. Lookup(x)' = NoInfo
      BY <3>6, <3>7, <3>8 DEF Element
    <3> QED
      BY <3>3, <3>6, <3>9 DEF Elem, Lookup, InfoOf, FindEntry
  <2>2. CASE UNCHANGED vars
    BY <2>2 DEF ArrayForgotten, vars, Elem, Lookup, InfoOf, FindEntry
  <2>3. ASSUME NEW a \in Addr, NEW size \in Size, NEW n \in 0 .. MaxCount, NEW heap \in BOOLEAN,
               BeginRemove(a, size, n, heap)
        PROVE  FALSE
    BY <2>3 DEF BeginRemove
  <2>4. UNCHANGED call => call # Idle
    BY DEF Idle
  <2>5. ~Return /\ \A a \in Addr, t \in Type, o \in Offset, size \in Size, n \in 0 .. MaxCount :
                       ~BeginUpdate(a, t, o, size, n)
    BY DEF Return, BeginUpdate, Idle
  <2>6. ~UpdateElem
    BY DEF UpdateElem, NextElement, TypeOK, ArrayCall, Idle
  <2> QED
    BY <2>1, <2>2, <2>3, <2>4, <2>5, <2>6
    DEF Next, UpdateDirect, UpdateInline, HandleReinterpret, RemoveDirect, Find
<1> QED
  BY <1>1, <1>2, OrderlyInvariant, PTL DEF Spec
-----------------------------------------------------------------------------
(* Arithmetic of layouts. *)

(* What \div and % come to.                                                 *)
LEMMA Division ==
  ASSUME NEW a \in Nat, NEW b \in Nat \ {0}
  PROVE  a \div b \in Nat /\ a % b \in 0 .. b - 1 /\ a = b * (a \div b) + (a % b)
OBVIOUS

LEMMA NextMultiple ==
  ASSUME NEW s \in Nat, NEW i \in Nat, NEW j \in Nat, i < j
  PROVE  s * i + s <= s * j
OBVIOUS

(* A number has one quotient and one remainder.                             *)
LEMMA UniquePlace ==
  ASSUME NEW s \in Nat \ {0}, NEW i \in Nat, NEW j \in Nat,
         NEW o \in 0 .. s - 1, NEW p \in 0 .. s - 1, s * i + o = s * j + p
  PROVE  i = j /\ o = p
<1>1. ~(i < j)
  BY NextMultiple
<1>2. ~(j < i)
  BY NextMultiple
<1> QED
  BY <1>1, <1>2

(* An offset into one of the elements that fit is inside the block.         *)
LEMMA PlaceInside ==
  ASSUME NEW s \in Nat \ {0}, NEW b \in Nat, NEW i \in 0 .. (b \div s) - 1, NEW o \in 0 .. s - 1
  PROVE  s * i \in Nat /\ s * i + o < b
<1> DEFINE q == b \div s
<1>1. q \in Nat /\ s * q <= b
  BY Division
<1>2. i \in Nat /\ i < q
  BY <1>1
<1> HIDE DEF q
<1>3. s * i + s <= s * q /\ s * i \in Nat
  BY <1>1, <1>2, NextMultiple
<1> QED
  BY <1>1, <1>2, <1>3

LEMMA Quotient ==
  ASSUME NEW s \in Nat \ {0}, NEW q \in Nat, NEW r \in 0 .. s - 1
  PROVE  (s * q + r) \div s = q /\ (s * q + r) % s = r
<1> DEFINE a == s * q + r
           x == a \div s
           y == a % s
<1>1. a \in Nat
  OBVIOUS
<1>2. x \in Nat /\ y \in 0 .. s - 1 /\ s * x + y = s * q + r
  <2> HIDE DEF a
  <2>1. a = s * x + y /\ x \in Nat /\ y \in 0 .. s - 1
    BY <1>1, Division
  <2> QED
    BY <2>1 DEF a
<1> HIDE DEF x, y
<1>3. x = q /\ y = r
  BY <1>2, UniquePlace
<1> QED
  BY <1>3 DEF x, y

(* Every set of naturals that is not empty has a least member, from the     *)
(* library's theorem that < is well founded: what induction over the        *)
(* naturals comes to without an operator parameter.                         *)
LEMMA LeastNat ==
  ASSUME NEW T \in SUBSET Nat, T # {}
  PROVE  \E x \in T : \A y \in T : x <= y
<1> DEFINE R == OpToRel(<, Nat)
<1>1. IsWellFoundedOn(R, Nat)
  BY NatLessThanWellFounded
<1>2. \A x, y \in Nat : x < y => <<x, y>> \in R
  BY DEF OpToRel
<1> HIDE DEF R
<1>3. PICK x \in T : \A y \in T : ~ (<<y, x>> \in R)
  BY <1>1, WFMin
<1>4. \A y \in T : ~(y < x)
  BY <1>2, <1>3
<1> QED
  BY <1>4
-----------------------------------------------------------------------------
(* getStructOffsets. *)

Increasing(f) == \A i, j \in DOMAIN f : i < j => f[i] < f[j]
Enumerable(K) == \E f \in [1 .. Cardinality(K) -> K] : Increasing(f)

(* An enumeration goes on with the greatest element.                        *)
LEMMA OneMore ==
  ASSUME NEW n \in Nat, NEW K \in SUBSET (1 .. n + 1), n + 1 \in K, Enumerable(K \ {n + 1})
  PROVE  Enumerable(K)
<1> DEFINE J == K \ {n + 1}
           c == Cardinality(J)
<1>1. IsFiniteSet(K) /\ J \subseteq 1 .. n
  <2>1. IsFiniteSet(1 .. n + 1)
    BY FS_Interval
  <2>2. \A x \in 1 .. n + 1 : x # n + 1 => x \in 1 .. n
    OBVIOUS
  <2> QED
    BY <2>1, <2>2, FS_Subset
<1>2. Cardinality(J) = Cardinality(K) - 1 /\ IsFiniteSet(J)
  BY <1>1, FS_RemoveElement
<1>3. c \in Nat /\ Cardinality(K) = c + 1
  BY <1>1, <1>2, FS_CardinalityType
<1>4. PICK f \in [1 .. c -> J] : Increasing(f)
  BY DEF Enumerable
<1> HIDE DEF c, J
<1> DEFINE g == [i \in 1 .. c + 1 |-> IF i = c + 1 THEN n + 1 ELSE f[i]]
<1>5. J \subseteq K
  BY DEF J
<1>6. g \in [1 .. c + 1 -> K]
  <2>1. \A i \in 1 .. c + 1 : i # c + 1 => i \in 1 .. c
    BY <1>3
  <2>2. \A i \in 1 .. c + 1 : i # c + 1 => f[i] \in K
    BY <1>4, <1>5, <2>1
  <2> QED
    BY <2>2
<1>7. ASSUME NEW i \in 1 .. c + 1, NEW j \in 1 .. c + 1, i < j
      PROVE  g[i] < g[j]
  <2>1. i \in 1 .. c /\ f[i] \in J /\ f[i] \in 1 .. n
    <3>1. i \in 1 .. c
      BY <1>3, <1>7
    <3> QED
      BY <1>1, <1>4, <3>1
  <2>2. CASE j = c + 1
    BY <1>3, <2>1, <2>2
  <2>3. CASE j # c + 1
    <3>1. j \in 1 .. c
      BY <1>3, <2>3
    <3>2. f[i] < f[j]
      BY <1>4, <1>7, <2>1, <3>1 DEF Increasing
    <3> QED
      BY <1>3, <2>1, <2>3, <3>1, <3>2
  <2> QED
    BY <2>2, <2>3
<1>8. Increasing(g)
  BY <1>7 DEF Increasing
<1> QED
  BY <1>3, <1>6, <1>8 DEF Enumerable

(* Every set of positions can be enumerated in increasing order.            *)
LEMMA AllEnumerable ==
  ASSUME NEW n \in Nat, NEW K \in SUBSET (1 .. n)
  PROVE  Enumerable(K)
<1> DEFINE T == {m \in Nat : \E J \in SUBSET (1 .. m) : ~Enumerable(J)}
<1>1. SUFFICES ASSUME T # {} PROVE FALSE
  OBVIOUS
<1>2. PICK m \in T : \A y \in T : m <= y
  <2> HIDE DEF T
  <2>1. T \in SUBSET Nat
    BY DEF T
  <2> QED
    BY <1>1, <2>1, LeastNat
<1>3. PICK J \in SUBSET (1 .. m) : ~Enumerable(J)
  BY <1>2
<1>4. CASE J = {}
  <2>1. Cardinality(J) = 0
    BY <1>4, FS_EmptySet
  <2>2. <<>> \in [1 .. 0 -> J] /\ Increasing(<<>>)
    BY DEF Increasing
  <2> QED
    BY <1>3, <2>1, <2>2 DEF Enumerable
<1>5. CASE m = 0
  BY <1>4, <1>5
<1>6. CASE m # 0
  <2>1. m - 1 \in Nat /\ m = (m - 1) + 1 /\ ~(m <= m - 1)
    BY <1>2, <1>6
  <2>2. m - 1 \notin T
    BY <1>2, <2>1
  <2>3. \A I \in SUBSET (1 .. m - 1) : Enumerable(I)
    BY <2>1, <2>2
  <2>4. CASE m \in J
    <3>1. J \ {m} \in SUBSET (1 .. m - 1)
      BY <2>1
    <3> QED
      BY <1>3, <2>1, <2>3, <2>4, <3>1, OneMore
  <2>5. CASE m \notin J
    <3>1. J \in SUBSET (1 .. m - 1)
      BY <2>1, <2>5
    <3> QED
      BY <1>3, <2>3, <3>1
  <2> QED
    BY <2>4, <2>5
<1> QED
  BY <1>4, <1>5, <1>6

(* The subobjects that are traced lie inside their type, no two at one      *)
(* offset.                                                                  *)
LEMMA ElementsLaidOut ==
  ASSUME NEW t \in Type
  PROVE  /\ Elements[t] \in Seq(Part)
         /\ DOMAIN Elements[t] = 1 .. Len(Elements[t])
         /\ \A k \in DOMAIN Elements[t] :
              /\ Elements[t][k].type \in Type /\ Elements[t][k].offset \in Offset
              /\ Elements[t][k].offset \in 0 .. TypeSize[t] - 1
         /\ \A j, k \in DOMAIN Elements[t] :
              Elements[t][j].offset = Elements[t][k].offset => j = k
<1> DEFINE s == Nested[t]
           K == {i \in DOMAIN s : FirstAtOffset(s, i)}
           f == Ascending(K)
           c == Cardinality(K)
<1>1. /\ s \in Seq(Part) /\ DOMAIN s = 1 .. Len(s) /\ Len(s) \in Nat
      /\ \A i \in DOMAIN s : s[i] \in Part /\ s[i].offset < TypeSize[t]
  BY LayoutAssumption
<1>2. K \in SUBSET (1 .. Len(s))
  BY <1>1
<1>3. IsFiniteSet(K) /\ c \in Nat
  <2>1. IsFiniteSet(1 .. Len(s))
    BY <1>1, FS_Interval
  <2>2. IsFiniteSet(K)
    BY <1>2, <2>1, FS_Subset
  <2> QED
    BY <2>2, FS_CardinalityType
<1>4. Enumerable(K)
  BY <1>1, <1>2, AllEnumerable
<1>5. f \in [1 .. c -> K] /\ \A i, j \in 1 .. c : i < j => f[i] < f[j]
  BY <1>4 DEF Enumerable, Increasing, Ascending
<1>6. Elements[t] = [j \in 1 .. c |-> s[f[j]]]
  BY <1>5 DEF Elements
<1>7. ASSUME NEW j \in 1 .. c
      PROVE  f[j] \in 1 .. Len(s) /\ FirstAtOffset(s, f[j]) /\ Elements[t][j] = s[f[j]]
  BY <1>1, <1>5, <1>6
<1>8. ASSUME NEW i \in 1 .. c, NEW j \in 1 .. c, i < j
      PROVE  s[f[i]].offset # s[f[j]].offset
  <2> HIDE DEF s, f, K, c
  <2>1. f[i] < f[j] /\ f[i] \in 1 .. Len(s) /\ f[j] \in 1 .. Len(s)
    BY <1>5, <1>7, <1>8
  <2>2. f[i] \in 1 .. f[j] - 1
    BY <1>1, <2>1
  <2> QED
    BY <1>7, <2>2 DEF FirstAtOffset
<1> HIDE DEF s, f, K, c
<1>9. Elements[t] \in Seq(Part) /\ DOMAIN Elements[t] = 1 .. c /\ Len(Elements[t]) = c
  <2>1. Elements[t] \in [1 .. c -> Part]
    BY <1>1, <1>6, <1>7
  <2> QED
    BY <1>3, <2>1, <1>6
<1>10. ASSUME NEW k \in 1 .. c
       PROVE  /\ Elements[t][k].type \in Type /\ Elements[t][k].offset \in Offset
              /\ Elements[t][k].offset \in 0 .. TypeSize[t] - 1
  <2>1. Elements[t][k] \in Part /\ Elements[t][k].offset < TypeSize[t]
    BY <1>1, <1>7
  <2>2. Elements[t][k].type \in Type /\ Elements[t][k].offset \in Offset
    BY <2>1 DEF Part
  <2>3. TypeSize[t] \in Nat /\ Elements[t][k].offset \in Nat
    BY <2>2, TypeSizeAssumption, SizeAssumption, OffsetAssumption
  <2>4. Elements[t][k].offset \in 0 .. TypeSize[t] - 1
    BY <2>1, <2>3
  <2> QED
    BY <2>2, <2>4
<1>11. ASSUME NEW j \in 1 .. c, NEW k \in 1 .. c, Elements[t][j].offset = Elements[t][k].offset
       PROVE  j = k
  <2>1. ~(j < k) /\ ~(k < j)
    BY <1>7, <1>8, <1>11
  <2> QED
    BY <1>3, <2>1
<1> QED
  BY <1>9, <1>10, <1>11
-----------------------------------------------------------------------------
(* Where a block's subobjects lie. *)

Extent(blk) == ArraySize(blk.type, blk.bytes)
Spot(a, t, k, i) == a + Elements[t][k].offset + TypeSize[t] * i

LEMMA SizeFacts ==
  ASSUME NEW t \in Type
  PROVE  TypeSize[t] \in Size /\ TypeSize[t] \in Nat \ {0}
BY TypeSizeAssumption, SizeAssumption

LEMMA ExtentBound ==
  ASSUME NEW t \in Type, NEW bytes \in 1 .. MaxBytes
  PROVE  ArraySize(t, bytes) \in 0 .. MaxCount /\ ArraySize(t, bytes) <= bytes
<1> DEFINE s == TypeSize[t]
           q == bytes \div s
<1>1. s \in Nat \ {0} /\ bytes \in Nat
  BY SizeFacts, BytesAssumption
<1>2. q \in Nat /\ bytes % s \in 0 .. s - 1 /\ bytes = s * q + (bytes % s)
  BY <1>1, Division
<1> HIDE DEF q, s
<1>3. q <= s * q
  BY <1>1, <1>2
<1>4. q <= bytes
  BY <1>1, <1>2, <1>3
<1> QED
  BY <1>1, <1>2, <1>4, BytesAssumption, CountAssumption DEF ArraySize, q, s

(* Every subobject of a block lies in the block, and is where               *)
(* __update_oinfo looks for it: the product TypeSize*i does not wrap.       *)
LEMMA SpotInside ==
  ASSUME NEW t \in Type, NEW a \in Addr, NEW bytes \in 1 .. MaxBytes,
         NEW k \in DOMAIN Elements[t], NEW i \in 0 .. ArraySize(t, bytes) - 1
  PROVE  /\ Spot(a, t, k, i) \in Cells(a, bytes)
         /\ Elem(a + Elements[t][k].offset, TypeSize[t], i) = Spot(a, t, k, i)
<1> DEFINE s == TypeSize[t]
           o == Elements[t][k].offset
<1>1. s \in Nat \ {0} /\ bytes \in Nat /\ a \in Nat /\ o \in 0 .. s - 1 /\ Word \in Nat
  BY SizeFacts, BytesAssumption, AddrAssumption, ElementsLaidOut, GeometryAssumption
<1>2. s * i \in Nat /\ s * i + o < bytes
  <2>1. i \in 0 .. (bytes \div s) - 1
    BY DEF ArraySize
  <2> HIDE DEF s, o
  <2> QED
    BY <1>1, <2>1, PlaceInside
<1>3. bytes < Word
  BY BytesAssumption, CountAssumption, GeometryAssumption
<1> HIDE DEF s, o
<1> DEFINE m == s * i
<1>4. m \in Nat /\ m + o < bytes
  BY <1>2
<1> HIDE DEF m
<1>5. a + o + m \in a .. a + bytes - 1 /\ m % Word = m
  BY <1>1, <1>3, <1>4
<1> QED
  BY <1>5 DEF Spot, Cells, Elem, m, s, o

(* No two subobjects of a block share an address.                           *)
LEMMA SpotUnique ==
  ASSUME NEW t \in Type, NEW a \in Addr, NEW j \in DOMAIN Elements[t], NEW k \in DOMAIN Elements[t],
         NEW i \in Nat, NEW l \in Nat, Spot(a, t, j, i) = Spot(a, t, k, l)
  PROVE  j = k /\ i = l
<1> DEFINE s == TypeSize[t]
           o == Elements[t][j].offset
           p == Elements[t][k].offset
<1>1. s \in Nat \ {0} /\ a \in Nat /\ o \in 0 .. s - 1 /\ p \in 0 .. s - 1
  BY SizeFacts, AddrAssumption, ElementsLaidOut
<1>2. a + o + s * i = a + p + s * l
  BY DEF Spot
<1>3. o = p => j = k
  BY ElementsLaidOut
<1> HIDE DEF s, o, p
<1>4. s * i + o = s * l + p
  <2>1. s * i \in Nat /\ s * l \in Nat
    BY <1>1
  <2> QED
    BY <1>1, <1>2, <2>1
<1> QED
  BY <1>1, <1>3, <1>4, UniquePlace

(* The size of a local array gives its count back.                          *)
LEMMA LocalArray ==
  ASSUME NEW t \in Type, NEW n \in Nat
  PROVE  ArraySize(t, n * TypeSize[t]) = n
<1> DEFINE s == TypeSize[t]
<1>1. s \in Nat \ {0}
  BY SizeFacts
<1> HIDE DEF s
<1>2. (s * n + 0) \div s = n
  BY <1>1, Quotient
<1>3. n * s = s * n + 0
  BY <1>1
<1> QED
  BY <1>2, <1>3 DEF ArraySize, s
-----------------------------------------------------------------------------
(* The emitted calls. *)

LEMMA ArrayCallTyped ==
  ASSUME NEW op \in {"update", "remove"}, NEW a \in Addr, NEW t \in Type, NEW o \in Offset,
         NEW size \in Size, NEW n \in 0 .. MaxCount
  PROVE  Call(op, a, t, o, size, n) \in PendingCall
BY DEF Call, PendingCall, ArrayCallDue

LEMMA ElementCallTyped ==
  ASSUME NEW op \in {"add", "del"}, NEW a \in Addr, NEW t \in Type, NEW o \in Offset
  PROVE  Call(op, a, t, o, 0, 1) \in PendingCall
BY DEF Call, PendingCall, ElementCallDue

(* The address passed for a subobject is that of the first element's.       *)
LEMMA FirstSpot ==
  ASSUME NEW a \in Addr, NEW t \in Type, NEW bytes \in 1 .. MaxBytes,
         Cells(a, bytes) \subseteq Addr, ArraySize(t, bytes) > 0, NEW k \in DOMAIN Elements[t]
  PROVE  /\ a + Elements[t][k].offset \in Addr
         /\ Spot(a, t, k, 0) = a + Elements[t][k].offset
<1>1. ArraySize(t, bytes) \in 0 .. MaxCount
  BY ExtentBound
<1>2. Spot(a, t, k, 0) \in Addr
  BY <1>1, SpotInside
<1>3. TypeSize[t] * 0 = 0 /\ a + Elements[t][k].offset \in Nat
  BY SizeFacts, AddrAssumption, ElementsLaidOut
<1> QED
  BY <1>2, <1>3 DEF Spot

(* insertUpdate emits calls that name memory of the block.                  *)
LEMMA UpdatesEmitted ==
  ASSUME NEW a \in Addr, NEW t \in Type, NEW bytes \in 1 .. MaxBytes,
         Cells(a, bytes) \subseteq Addr, ArraySize(t, bytes) > 0
  PROVE  LET s == EmitUpdates(a, t, ArraySize(t, bytes))
         IN  /\ s \in Seq(PendingCall) /\ Len(s) = Len(Elements[t])
             /\ \A k \in 1 .. Len(s) :
                  s[k] = Call("update", a + Elements[t][k].offset, Elements[t][k].type,
                              Elements[t][k].offset, TypeSize[t], ArraySize(t, bytes))
<1> DEFINE n == ArraySize(t, bytes)
           s == EmitUpdates(a, t, n)
<1>1. n \in 0 .. MaxCount
  BY ExtentBound
<1>2. \A k \in DOMAIN Elements[t] : a + Elements[t][k].offset \in Addr
  BY FirstSpot
<1> HIDE DEF n
<1>3. \A k \in DOMAIN Elements[t] :
        s[k] = Call("update", a + Elements[t][k].offset, Elements[t][k].type,
                    Elements[t][k].offset, TypeSize[t], n)
  BY DEF EmitUpdates
<1>4. \A k \in DOMAIN Elements[t] : s[k] \in PendingCall
  <2>1. TypeSize[t] \in Size
    BY SizeFacts
  <2> QED
    BY <1>1, <1>2, <1>3, <2>1, ElementsLaidOut, ArrayCallTyped
<1>5. s \in [1 .. Len(Elements[t]) -> PendingCall] /\ Len(Elements[t]) \in Nat
  <2>1. DOMAIN s = DOMAIN Elements[t] /\ s = [k \in DOMAIN s |-> s[k]]
    BY DEF EmitUpdates
  <2>2. DOMAIN Elements[t] = 1 .. Len(Elements[t]) /\ Len(Elements[t]) \in Nat
    BY ElementsLaidOut
  <2> HIDE DEF s
  <2> QED
    BY <1>4, <2>1, <2>2
<1>6. s \in Seq(PendingCall) /\ Len(s) = Len(Elements[t])
  <2> HIDE DEF s
  <2> QED
    BY <1>5
<1> HIDE DEF s
<1>7. \A k \in 1 .. Len(s) : k \in DOMAIN Elements[t]
  BY <1>6, ElementsLaidOut
<1>8. /\ s \in Seq(PendingCall) /\ Len(s) = Len(Elements[t])
      /\ \A k \in 1 .. Len(s) :
           s[k] = Call("update", a + Elements[t][k].offset, Elements[t][k].type,
                       Elements[t][k].offset, TypeSize[t], n)
  BY <1>3, <1>6, <1>7
<1> QED
  BY <1>8 DEF s, n

(* insertRemove emits calls that name memory of the block.                  *)
LEMMA RemovesEmitted ==
  ASSUME NEW a \in Addr, NEW t \in Type, NEW bytes \in 1 .. MaxBytes,
         Cells(a, bytes) \subseteq Addr, ArraySize(t, bytes) > 0
  PROVE  LET s == EmitRemoves(a, t)
         IN  /\ s \in Seq(PendingCall) /\ Len(s) = Len(Elements[t])
             /\ \A k \in 1 .. Len(s) :
                  s[k] = Call("remove", a + Elements[t][k].offset, Elements[t][k].type,
                              Elements[t][k].offset, TypeSize[t], 1)
<1> DEFINE s == EmitRemoves(a, t)
<1>1. \A k \in DOMAIN Elements[t] : a + Elements[t][k].offset \in Addr
  BY FirstSpot
<1>2. \A k \in DOMAIN Elements[t] :
        s[k] = Call("remove", a + Elements[t][k].offset, Elements[t][k].type,
                    Elements[t][k].offset, TypeSize[t], 1)
  BY DEF EmitRemoves
<1>3. \A k \in DOMAIN Elements[t] : s[k] \in PendingCall
  <2>1. TypeSize[t] \in Size /\ 1 \in 0 .. MaxCount
    BY SizeFacts, CountAssumption
  <2> QED
    BY <1>1, <1>2, <2>1, ElementsLaidOut, ArrayCallTyped
<1>4. DOMAIN s = DOMAIN Elements[t] /\ s = [k \in DOMAIN s |-> s[k]]
  BY DEF EmitRemoves
<1> HIDE DEF s
<1>5. DOMAIN Elements[t] = 1 .. Len(Elements[t]) /\ Len(Elements[t]) \in Nat
  BY ElementsLaidOut
<1>6. s \in [1 .. Len(Elements[t]) -> PendingCall]
  BY <1>3, <1>4, <1>5
<1>7. s \in Seq(PendingCall) /\ Len(s) = Len(Elements[t])
  BY <1>5, <1>6
<1>8. /\ s \in Seq(PendingCall) /\ Len(s) = Len(Elements[t])
      /\ \A k \in 1 .. Len(s) :
           s[k] = Call("remove", a + Elements[t][k].offset, Elements[t][k].type,
                       Elements[t][k].offset, TypeSize[t], 1)
  BY <1>2, <1>5, <1>7
<1> QED
  BY <1>8 DEF s

Places(s, op, a, t, n, F, G) ==
  /\ \A j \in 1 .. Len(s) :
       /\ F[j] \in DOMAIN Elements[t] /\ G[j] \in 0 .. n - 1
       /\ s[j] = Call(op, Spot(a, t, F[j], G[j]), Elements[t][F[j]].type, Elements[t][F[j]].offset, 0, 1)
  /\ \A j, l \in 1 .. Len(s) : F[j] = F[l] /\ G[j] = G[l] => j = l
  /\ \A k \in DOMAIN Elements[t], i \in 0 .. n - 1 : \E j \in 1 .. Len(s) : F[j] = k /\ G[j] = i

(* Call k of a local array is for one subobject of one element, and every   *)
(* subobject of every element has its call.                                 *)
LEMMA ElementsEmitted ==
  ASSUME NEW op \in {"add", "del"}, NEW a \in Addr, NEW t \in Type, NEW bytes \in 1 .. MaxBytes,
         Cells(a, bytes) \subseteq Addr, NEW n, n = ArraySize(t, bytes), NEW s, s = PerElement(op, a, t, n)
  PROVE  /\ s \in Seq(PendingCall)
         /\ \E F, G : Places(s, op, a, t, n, F, G)
<1> DEFINE m == Len(Elements[t])
           K(j) == ((j - 1) % m) + 1
           I(j) == (j - 1) \div m
<1>1. n \in Nat /\ m \in Nat /\ DOMAIN Elements[t] = 1 .. m
  BY ExtentBound, ElementsLaidOut
<1>2. s = [k \in 1 .. n * m |-> Call(op, Spot(a, t, K(k), I(k)), Elements[t][K(k)].type,
                                      Elements[t][K(k)].offset, 0, 1)]
  BY DEF PerElement, Spot
<1>3. \A k \in 1 .. m, i \in 0 .. n - 1 : Spot(a, t, k, i) \in Addr
  BY <1>1, SpotInside
<1>4. \A k \in 1 .. m : Elements[t][k].type \in Type /\ Elements[t][k].offset \in Offset
  BY <1>1, ElementsLaidOut
<1> HIDE DEF m
<1>5. n * m \in Nat
  BY <1>1
<1>6. ASSUME NEW j \in 1 .. n * m
      PROVE  /\ m \in Nat \ {0} /\ j - 1 = m * I(j) + (K(j) - 1)
             /\ K(j) \in 1 .. m /\ I(j) \in 0 .. n - 1
  <2>1. m # 0
    BY <1>1
  <2>2. j - 1 \in Nat
    BY <1>5
  <2> DEFINE q == (j - 1) \div m
             r == (j - 1) % m
  <2>3. q \in Nat /\ r \in 0 .. m - 1 /\ j - 1 = m * q + r
    BY <1>1, <2>1, <2>2, Division
  <2> HIDE DEF q, r
  <2>4. q < n
    <3>1. SUFFICES ASSUME n <= q PROVE FALSE
      BY <1>1, <2>3
    <3>2. m * n <= m * q
      BY <1>1, <2>3, <3>1
    <3>3. n * m = m * n /\ m * q \in Nat
      BY <1>1, <2>3
    <3> QED
      BY <1>1, <1>5, <2>3, <3>2, <3>3
  <2>5. q \in 0 .. n - 1 /\ r + 1 \in 1 .. m /\ (r + 1) - 1 = r
    BY <1>1, <2>3, <2>4
  <2> QED
    BY <1>1, <2>1, <2>3, <2>5 DEF q, r
<1>7. ASSUME NEW j \in 1 .. n * m, NEW l \in 1 .. n * m, K(j) = K(l), I(j) = I(l)
      PROVE  j = l
  <2>1. j - 1 = l - 1
    BY <1>6, <1>7
  <2> QED
    BY <1>5, <2>1
<1>8. ASSUME NEW k \in 1 .. m, NEW i \in 0 .. n - 1
      PROVE  \E j \in 1 .. n * m : K(j) = k /\ I(j) = i
  <2>1. m \in Nat \ {0} /\ k - 1 \in 0 .. m - 1 /\ i \in Nat /\ i < n
    BY <1>1
  <2>2. m * i + m <= m * n /\ m * i \in Nat /\ n * m = m * n
    BY <1>1, <2>1, NextMultiple
  <2> DEFINE p == m * i
             j == p + (k - 1) + 1
  <2>3. j \in 1 .. n * m /\ j - 1 = p + (k - 1)
    <3>1. p \in Nat /\ p + m <= n * m
      BY <2>2
    <3> HIDE DEF p
    <3> QED
      BY <1>5, <2>1, <3>1
  <2>4. (m * i + (k - 1)) \div m = i /\ (m * i + (k - 1)) % m = k - 1
    BY <2>1, Quotient
  <2>5. (j - 1) \div m = i /\ (j - 1) % m = k - 1 /\ (k - 1) + 1 = k
    BY <2>1, <2>3, <2>4
  <2> HIDE DEF j
  <2> QED
    BY <2>3, <2>5
<1>9. \A j \in 1 .. n * m :
        s[j] = Call(op, Spot(a, t, K(j), I(j)), Elements[t][K(j)].type, Elements[t][K(j)].offset, 0, 1)
  BY <1>2
<1>10. \A j \in 1 .. n * m : s[j] \in PendingCall
  <2> HIDE DEF K, I
  <2> QED
    BY <1>3, <1>4, <1>6, <1>9, ElementCallTyped
<1>11. s \in [1 .. n * m -> PendingCall]
  BY <1>2, <1>10
<1>12. s \in Seq(PendingCall) /\ Len(s) = n * m
  BY <1>5, <1>11
<1> HIDE DEF K, I
<1>13. /\ s \in Seq(PendingCall) /\ Len(s) = n * m
       /\ \A j \in 1 .. Len(s) :
            /\ K(j) \in 1 .. m /\ I(j) \in 0 .. n - 1
            /\ s[j] = Call(op, Spot(a, t, K(j), I(j)), Elements[t][K(j)].type,
                           Elements[t][K(j)].offset, 0, 1)
       /\ \A j, l \in 1 .. Len(s) : K(j) = K(l) /\ I(j) = I(l) => j = l
       /\ \A k \in 1 .. m, i \in 0 .. n - 1 : \E j \in 1 .. Len(s) : K(j) = k /\ I(j) = i
  BY <1>6, <1>7, <1>8, <1>9, <1>12
<1>14. PICK F : F = [j \in 1 .. Len(s) |-> K(j)]
  OBVIOUS
<1>15. PICK G : G = [j \in 1 .. Len(s) |-> I(j)]
  OBVIOUS
<1>16. \A j \in 1 .. Len(s) : F[j] = K(j) /\ G[j] = I(j)
  BY <1>14, <1>15
<1>17. \A j \in 1 .. Len(s) :
         /\ F[j] \in DOMAIN Elements[t] /\ G[j] \in 0 .. n - 1
         /\ s[j] = Call(op, Spot(a, t, F[j], G[j]), Elements[t][F[j]].type, Elements[t][F[j]].offset, 0, 1)
  <2> SUFFICES ASSUME NEW j \in 1 .. Len(s)
               PROVE  /\ F[j] \in DOMAIN Elements[t] /\ G[j] \in 0 .. n - 1
                      /\ s[j] = Call(op, Spot(a, t, F[j], G[j]), Elements[t][F[j]].type,
                                     Elements[t][F[j]].offset, 0, 1)
    OBVIOUS
  <2>1. F[j] = K(j) /\ G[j] = I(j)
    BY <1>16
  <2>2. /\ K(j) \in 1 .. m /\ I(j) \in 0 .. n - 1
        /\ s[j] = Call(op, Spot(a, t, K(j), I(j)), Elements[t][K(j)].type, Elements[t][K(j)].offset, 0, 1)
    BY <1>13
  <2> QED
    BY <1>1, <2>1, <2>2
<1>18. \A j, l \in 1 .. Len(s) : F[j] = F[l] /\ G[j] = G[l] => j = l
  BY <1>13, <1>16
<1>19. \A k \in DOMAIN Elements[t], i \in 0 .. n - 1 : \E j \in 1 .. Len(s) : F[j] = k /\ G[j] = i
  <2> SUFFICES ASSUME NEW k \in DOMAIN Elements[t], NEW i \in 0 .. n - 1
               PROVE  \E j \in 1 .. Len(s) : F[j] = k /\ G[j] = i
    OBVIOUS
  <2>1. k \in 1 .. m
    BY <1>1
  <2>2. PICK j \in 1 .. Len(s) : K(j) = k /\ I(j) = i
    BY <1>13, <2>1
  <2> QED
    BY <1>16, <2>2
<1>20. Places(s, op, a, t, n, F, G)
  BY <1>17, <1>18, <1>19 DEF Places
<1> QED
  BY <1>13, <1>20
-----------------------------------------------------------------------------
(* Types of the composition. *)

Allocated == {a \in Addr : block[a] # NoBlock}

(* Live blocks hold at least one object each, lie in Addr and are disjoint. *)
Blocks ==
  \A a \in Allocated :
    /\ Cells(a, block[a].bytes) \subseteq Addr /\ Extent(block[a]) > 0
    /\ \A b \in Allocated : b # a => Cells(a, block[a].bytes) \cap Cells(b, block[b].bytes) = {}

LEMMA FirstDue ==
  ASSUME HeapTypeOK, NEW op, Due(op)
  PROVE  /\ Head(todo) \in PendingCall /\ Head(todo).op = op /\ Head(todo) = todo[1]
         /\ Tail(todo) \in Seq(PendingCall) /\ Len(todo) \in Nat \ {0}
         /\ Len(Tail(todo)) = Len(todo) - 1
         /\ \A j \in 1 .. Len(todo) - 1 : Tail(todo)[j] = todo[j + 1]
BY DEF Due, HeapTypeOK

(* Every step of the program and of its calls is one the runtime allows.    *)
LEMMA HeapSteps ==
  ASSUME HeapTypeOK, [HeapNext]_hvars
  PROVE  [Next]_vars
<1>1. ASSUME ServeUpdate
      PROVE  Next
  <2> DEFINE c == Head(todo)
  <2>1. c \in PendingCall /\ c.op = "update"
    BY <1>1, FirstDue DEF ServeUpdate
  <2>2. c.addr \in Addr /\ c.type \in Type /\ c.offset \in Offset /\ c.size \in Size /\ c.n \in 0 .. MaxCount
    BY <2>1 DEF PendingCall, ArrayCallDue, ElementCallDue
  <2>3. BeginUpdate(c.addr, c.type, c.offset, c.size, c.n)
    BY <1>1 DEF ServeUpdate
  <2> QED
    BY <2>2, <2>3 DEF Next
<1>2. ASSUME ServeRemove
      PROVE  Next
  <2> DEFINE c == Head(todo)
  <2>1. c \in PendingCall /\ c.op = "remove"
    BY <1>2, FirstDue DEF ServeRemove
  <2>2. c.addr \in Addr /\ c.size \in Size /\ c.n \in 0 .. MaxCount
    BY <2>1 DEF PendingCall, ArrayCallDue, ElementCallDue
  <2>3. BeginRemove(c.addr, c.size, c.n, TRUE)
    BY <1>2 DEF ServeRemove
  <2> QED
    BY <2>2, <2>3 DEF Next
<1>3. ASSUME ServeAdd
      PROVE  Next
  <2> DEFINE c == Head(todo)
  <2>1. c \in PendingCall
    BY <1>3, FirstDue DEF ServeAdd
  <2>2. c.addr \in Addr /\ c.type \in Type /\ c.offset \in Offset
    BY <2>1 DEF PendingCall, ArrayCallDue, ElementCallDue
  <2>3. UpdateInline(c.addr, c.type, c.offset) \/ UpdateDirect(c.addr, c.type, c.offset)
    BY <1>3 DEF ServeAdd
  <2> QED
    BY <2>2, <2>3 DEF Next
<1>4. ASSUME ServeDel
      PROVE  Next
  <2>1. Head(todo).addr \in Addr
    BY <1>4, FirstDue DEF ServeDel, PendingCall, ArrayCallDue, ElementCallDue
  <2> QED
    BY <1>4, <2>1 DEF ServeDel, Next
<1>5. ASSUME Run
      PROVE  Next
  BY <1>5 DEF Run, Next
<1>6. ASSUME NEW a \in Addr, Cast(a)
      PROVE  Next
  BY <1>6 DEF Cast, Next
<1>7. ASSUME NEW a \in Addr, FreeBlock(a) \/ LeaveScope(a)
      PROVE  UNCHANGED vars
  BY <1>7 DEF FreeBlock, LeaveScope
<1>8. ASSUME NEW a \in Addr, NEW t \in Type, NEW n, Malloc(a, t, n) \/ EnterScope(a, t, n)
      PROVE  UNCHANGED vars
  BY <1>8 DEF Malloc, EnterScope
<1>9. ASSUME NEW a \in Addr, NEW b \in Addr, NEW n, Realloc(a, b, n)
      PROVE  UNCHANGED vars
  BY <1>9 DEF Realloc
<1> QED
  BY <1>1, <1>2, <1>3, <1>4, <1>5, <1>6, <1>7, <1>8, <1>9 DEF HeapNext, Serve, hvars

LEMMA BlockFields ==
  ASSUME HeapTypeOK, NEW a \in Allocated
  PROVE  /\ a \in Addr /\ block[a] \in Block /\ block[a].type \in Type
         /\ block[a].bytes \in 1 .. MaxBytes /\ block[a].kind \in {"heap", "stack"}
BY DEF HeapTypeOK, Allocated, Block

(* Memory that is free belongs to no live block. *)
LEMMA FreeIsFree ==
  ASSUME HeapTypeOK, NEW a \in Addr, NEW bytes \in 1 .. MaxBytes, Free(a, bytes)
  PROVE  a \notin Allocated
<1> SUFFICES ASSUME a \in Allocated PROVE FALSE
  OBVIOUS
<1>1. a \in Nat /\ block[a].bytes \in 1 .. MaxBytes /\ MaxBytes \in Nat
  BY BlockFields, AddrAssumption, BytesAssumption
<1>2. a \in Cells(a, bytes) /\ a \in Cells(a, block[a].bytes)
  BY <1>1 DEF Cells
<1> QED
  BY <1>2 DEF Free, Allocated

(* An allocation in free memory keeps the blocks apart.                     *)
LEMMA BlockAdded ==
  ASSUME HeapTypeOK, Blocks, NEW a \in Addr, NEW blk \in Block, Free(a, blk.bytes), Extent(blk) > 0,
         block' = [block EXCEPT ![a] = blk]
  PROVE  /\ Blocks' /\ block' \in [Addr -> Block \cup {NoBlock}]
         /\ Allocated' = Allocated \cup {a} /\ block'[a] = blk
         /\ a \notin Allocated /\ \A b \in Allocated : block'[b] = block[b]
<1>1. blk \in Block /\ blk # NoBlock /\ blk.bytes \in 1 .. MaxBytes
  BY NoBlockAssumption DEF Block
<1>2. a \notin Allocated
  BY <1>1, FreeIsFree
<1>3. block' \in [Addr -> Block \cup {NoBlock}]
  BY DEF HeapTypeOK
<1>4. \A b \in Addr : block'[b] = IF b = a THEN blk ELSE block[b]
  BY DEF HeapTypeOK
<1>5. Allocated' = Allocated \cup {a} /\ block'[a] = blk /\ \A b \in Allocated : block'[b] = block[b]
  BY <1>1, <1>2, <1>4 DEF Allocated
<1>6. /\ Cells(a, blk.bytes) \subseteq Addr
      /\ \A b \in Allocated : Cells(b, block[b].bytes) \cap Cells(a, blk.bytes) = {}
  BY DEF Free, Allocated
<1>7. ASSUME NEW b \in Allocated'
      PROVE  /\ Cells(b, block'[b].bytes) \subseteq Addr /\ Extent(block'[b]) > 0
             /\ \A c \in Allocated' : c # b => Cells(b, block'[b].bytes) \cap Cells(c, block'[c].bytes) = {}
  <2>1. CASE b = a
    BY <1>5, <1>6, <2>1
  <2>2. CASE b # a
    BY <1>5, <1>6, <2>2 DEF Blocks
  <2> QED
    BY <2>1, <2>2
<1>8. Blocks'
  BY <1>7 DEF Blocks, Extent, ArraySize
<1> QED
  BY <1>2, <1>3, <1>5, <1>8

(* A deallocation keeps the blocks apart.                                   *)
LEMMA BlockDropped ==
  ASSUME HeapTypeOK, Blocks, NEW a \in Allocated, block' = [block EXCEPT ![a] = NoBlock]
  PROVE  /\ Blocks' /\ block' \in [Addr -> Block \cup {NoBlock}]
         /\ Allocated' = Allocated \ {a} /\ \A b \in Allocated' : block'[b] = block[b]
<1>1. block' \in [Addr -> Block \cup {NoBlock}]
  BY DEF HeapTypeOK
<1>2. \A b \in Addr : block'[b] = IF b = a THEN NoBlock ELSE block[b]
  BY DEF HeapTypeOK
<1>3. Allocated' = Allocated \ {a} /\ \A b \in Allocated' : block'[b] = block[b]
  BY <1>2 DEF Allocated
<1>4. Blocks'
  BY <1>3 DEF Blocks, Extent, ArraySize
<1> QED
  BY <1>1, <1>3, <1>4

(* A reallocation, in place or not, keeps the blocks apart.                 *)
LEMMA BlockMoved ==
  ASSUME HeapTypeOK, Blocks, NEW a \in Addr, NEW b \in Addr, NEW bytes \in 1 .. MaxBytes,
         Realloc(a, b, bytes)
  PROVE  /\ Blocks' /\ block' \in [Addr -> Block \cup {NoBlock}]
         /\ a \in Allocated /\ (a # b => b \notin Allocated)
         /\ Allocated' = (Allocated \ {a}) \cup {b}
         /\ block'[b] = [block[a] EXCEPT !.bytes = bytes] /\ block'[b] \in Block
         /\ \A c \in Allocated \ {a} : block'[c] = block[c]
<1> DEFINE blk == [block[a] EXCEPT !.bytes = bytes]
<1>1. a \in Allocated /\ block[a] \in Block
  BY BlockFields DEF Realloc, Allocated
<1>2. blk \in Block /\ blk.bytes = bytes /\ blk.type = block[a].type
  BY <1>1 DEF Block
<1>3. blk # NoBlock
  BY <1>2, NoBlockAssumption
<1>4. block' = [block EXCEPT ![a] = NoBlock, ![b] = blk]
  BY DEF Realloc
<1>5. Extent(blk) > 0
  BY <1>2 DEF Realloc, Extent
<1> HIDE DEF blk
<1>6. block' \in [Addr -> Block \cup {NoBlock}]
  BY <1>2, <1>4 DEF HeapTypeOK
<1>7. \A c \in Addr : block'[c] = IF c = b THEN blk ELSE IF c = a THEN NoBlock ELSE block[c]
  BY <1>4 DEF HeapTypeOK
<1>8. a # b => b \notin Allocated
  BY FreeIsFree DEF Realloc
<1>9. /\ Allocated' = (Allocated \ {a}) \cup {b} /\ block'[b] = blk
      /\ \A c \in Allocated \ {a} : block'[c] = block[c]
  BY <1>1, <1>3, <1>7, <1>8 DEF Allocated
<1>10. /\ Cells(b, bytes) \subseteq Addr
       /\ \A c \in Allocated \ {a} : Cells(c, block[c].bytes) \cap Cells(b, bytes) = {}
  <2>1. CASE a = b
    BY <2>1 DEF Realloc, FitsInPlace, Allocated
  <2>2. CASE a # b
    BY <2>2 DEF Realloc, Free, Allocated
  <2> QED
    BY <2>1, <2>2
<1>11. ASSUME NEW c \in Allocated'
       PROVE  /\ Cells(c, block'[c].bytes) \subseteq Addr /\ Extent(block'[c]) > 0
              /\ \A d \in Allocated' : d # c => Cells(c, block'[c].bytes) \cap Cells(d, block'[d].bytes) = {}
  <2>1. CASE c = b
    BY <1>2, <1>5, <1>9, <1>10, <2>1
  <2>2. CASE c # b
    BY <1>2, <1>9, <1>10, <2>2 DEF Blocks
  <2> QED
    BY <2>1, <2>2
<1>12. Blocks'
  BY <1>11 DEF Blocks, Extent, ArraySize
<1> QED
  BY <1>1, <1>2, <1>6, <1>8, <1>9, <1>12 DEF blk

HeapTyped == HeapTypeOK /\ Blocks

LEMMA TwoCalls ==
  ASSUME NEW c \in PendingCall, NEW u \in Seq(PendingCall), Len(u) = 1
  PROVE  /\ <<c>> \o u \in Seq(PendingCall) /\ Len(<<c>> \o u) = 2
         /\ (<<c>> \o u)[1] = c /\ (<<c>> \o u)[2] = u[1]
<1>1. <<c>> \in Seq(PendingCall) /\ Len(<<c>>) = 1 /\ <<c>>[1] = c
  OBVIOUS
<1> QED
  BY <1>1

(* What is emitted for a realloc: a removal, then a registration.           *)
LEMMA ReallocEmitted ==
  ASSUME HeapTyped, NEW a \in Allocated, NEW b \in Addr, NEW bytes \in 1 .. MaxBytes,
         Cells(b, bytes) \subseteq Addr, ArraySize(block[a].type, bytes) > 0, OneEntry(block[a].type)
  PROVE  LET t == block[a].type
             n == ArraySize(t, bytes)
             o == Elements[t][1].offset
             s == EmitRealloc(a, b, t, n)
         IN  /\ s \in Seq(PendingCall) /\ Len(s) = 2 /\ DOMAIN Elements[t] = {1}
             /\ s[1] = Call("remove", a + o, Elements[t][1].type, o, TypeSize[t], n)
             /\ s[2] = Call("update", b + o, Elements[t][1].type, o, TypeSize[t], n)
<1> DEFINE t == block[a].type
           n == ArraySize(t, bytes)
           o == Elements[t][1].offset
           u == EmitUpdates(b, t, n)
<1>1. t \in Type /\ block[a].bytes \in 1 .. MaxBytes /\ a \in Addr
  BY BlockFields DEF HeapTyped
<1>2. Cells(a, block[a].bytes) \subseteq Addr /\ ArraySize(t, block[a].bytes) > 0
  BY DEF HeapTyped, Blocks, Extent
<1>3. DOMAIN Elements[t] = {1} /\ Len(Elements[t]) = 1
  BY <1>1, ElementsLaidOut DEF OneEntry
<1>4. a + o \in Addr
  BY <1>1, <1>2, <1>3, FirstSpot
<1>5. /\ u \in Seq(PendingCall) /\ Len(u) = 1
      /\ u[1] = Call("update", b + o, Elements[t][1].type, o, TypeSize[t], n)
  <2>1. /\ u \in Seq(PendingCall) /\ Len(u) = Len(Elements[t])
        /\ \A k \in 1 .. Len(u) :
             u[k] = Call("update", b + Elements[t][k].offset, Elements[t][k].type,
                         Elements[t][k].offset, TypeSize[t], n)
    BY <1>1, UpdatesEmitted
  <2> HIDE DEF u
  <2> QED
    BY <1>3, <2>1
<1> DEFINE c == Call("remove", a + o, Elements[t][1].type, o, TypeSize[t], n)
<1>6. c \in PendingCall
  <2>1. n \in 0 .. MaxCount /\ TypeSize[t] \in Size
    BY <1>1, ExtentBound, SizeFacts
  <2>2. Elements[t][1].type \in Type /\ o \in Offset
    BY <1>1, <1>3, ElementsLaidOut
  <2> QED
    BY <1>4, <1>1, <2>1, <2>2, ArrayCallTyped
<1>7. EmitRealloc(a, b, t, n) = <<c>> \o u
  BY DEF EmitRealloc
<1> HIDE DEF c, u
<1>8. <<c>> \o u \in Seq(PendingCall) /\ Len(<<c>> \o u) = 2 /\ (<<c>> \o u)[1] = c /\ (<<c>> \o u)[2] = u[1]
  BY <1>5, <1>6, TwoCalls
<1> QED
  BY <1>3, <1>5, <1>7, <1>8 DEF c

(* The types and the blocks, step by step.                                  *)
LEMMA HeapTypeStep ==
  ASSUME HeapTyped, [HeapNext]_hvars
  PROVE  HeapTyped'
<1> USE DEF HeapTyped
<1>0. TypeOK'
  BY HeapSteps, TypeStep DEF HeapTypeOK
<1>1. ASSUME NEW a \in Addr, NEW t \in Type, NEW bytes \in 1 .. MaxBytes, Malloc(a, t, bytes)
      PROVE  HeapTyped'
  <2> DEFINE blk == [kind |-> "heap", type |-> t, bytes |-> bytes]
  <2>1. blk \in Block /\ Free(a, blk.bytes) /\ Extent(blk) > 0
    BY <1>1 DEF Block, Malloc, Extent
  <2>2. block' = [block EXCEPT ![a] = blk]
    BY <1>1 DEF Malloc
  <2> HIDE DEF blk
  <2>3. Blocks' /\ block' \in [Addr -> Block \cup {NoBlock}]
    BY <2>1, <2>2, BlockAdded
  <2>4. todo' \in Seq(PendingCall)
    BY <1>1, UpdatesEmitted DEF Malloc, Free
  <2> QED
    BY <1>0, <2>3, <2>4 DEF HeapTypeOK
<1>2. ASSUME NEW a \in Addr, NEW t \in Type, NEW n \in 1 .. MaxCount, EnterScope(a, t, n)
      PROVE  HeapTyped'
  <2> DEFINE bytes == n * TypeSize[t]
             blk == [kind |-> "stack", type |-> t, bytes |-> bytes]
  <2>1. ArraySize(t, bytes) = n /\ bytes \in 1 .. MaxBytes
    BY <1>2, LocalArray, CountAssumption DEF EnterScope
  <2>2. block' = [block EXCEPT ![a] = blk] /\ todo' = PerElement("add", a, t, n) /\ Free(a, bytes)
    BY <1>2 DEF EnterScope
  <2> HIDE DEF bytes
  <2>3. blk \in Block /\ Free(a, blk.bytes) /\ Extent(blk) > 0
    BY <2>1, <2>2 DEF Block, Extent
  <2> HIDE DEF blk
  <2>4. Blocks' /\ block' \in [Addr -> Block \cup {NoBlock}]
    BY <2>2, <2>3, BlockAdded
  <2>5. todo' \in Seq(PendingCall)
    BY <2>1, <2>2, ElementsEmitted DEF Free
  <2> QED
    BY <1>0, <2>4, <2>5 DEF HeapTypeOK
<1>3. ASSUME NEW a \in Addr, FreeBlock(a) \/ LeaveScope(a)
      PROVE  HeapTyped'
  <2>1. a \in Allocated /\ block' = [block EXCEPT ![a] = NoBlock]
    BY <1>3 DEF FreeBlock, LeaveScope, Allocated
  <2>2. Blocks' /\ block' \in [Addr -> Block \cup {NoBlock}]
    BY <2>1, BlockDropped
  <2>3. block[a].type \in Type /\ block[a].bytes \in 1 .. MaxBytes
    BY <2>1, BlockFields
  <2>4. Cells(a, block[a].bytes) \subseteq Addr /\ ArraySize(block[a].type, block[a].bytes) > 0
    BY <2>1 DEF Blocks, Extent
  <2>5. todo' \in Seq(PendingCall)
    <3>1. FreeBlock(a) => todo' = EmitRemoves(a, block[a].type)
      BY DEF FreeBlock
    <3>2. LeaveScope(a) =>
            todo' = PerElement("del", a, block[a].type, ArraySize(block[a].type, block[a].bytes))
      BY DEF LeaveScope
    <3>3. EmitRemoves(a, block[a].type) \in Seq(PendingCall)
      BY <2>3, <2>4, RemovesEmitted
    <3>4. PerElement("del", a, block[a].type, ArraySize(block[a].type, block[a].bytes)) \in Seq(PendingCall)
      BY <2>3, <2>4, ElementsEmitted
    <3> QED
      BY <1>3, <3>1, <3>2, <3>3, <3>4
  <2> QED
    BY <1>0, <2>2, <2>5 DEF HeapTypeOK
<1>4. ASSUME NEW a \in Addr, NEW b \in Addr, NEW bytes \in 1 .. MaxBytes, Realloc(a, b, bytes)
      PROVE  HeapTyped'
  <2>1. Blocks' /\ block' \in [Addr -> Block \cup {NoBlock}] /\ a \in Allocated
    BY <1>4, BlockMoved
  <2>2. Cells(b, bytes) \subseteq Addr
    BY <1>4 DEF Realloc, Free, FitsInPlace
  <2>3. todo' \in Seq(PendingCall)
    BY <1>4, <2>1, <2>2, ReallocEmitted DEF Realloc
  <2> QED
    BY <1>0, <2>1, <2>3 DEF HeapTypeOK
<1>5. ASSUME UNCHANGED block
      PROVE  Blocks' /\ block' \in [Addr -> Block \cup {NoBlock}]
  BY <1>5 DEF HeapTypeOK, Blocks, Allocated, Extent, ArraySize
<1>6. ASSUME NEW op, Due(op), Done
      PROVE  HeapTyped'
  BY <1>0, <1>5, <1>6, FirstDue DEF Done, HeapTypeOK
<1>7. ASSUME UNCHANGED <<block, todo>>
      PROVE  HeapTyped'
  BY <1>0, <1>5, <1>7 DEF HeapTypeOK
<1>8. Serve => HeapTyped'
  BY <1>6, <1>7 DEF Serve, ServeUpdate, ServeRemove, ServeAdd, ServeDel, Run
<1>9. ASSUME NEW a \in Addr, Cast(a)
      PROVE  HeapTyped'
  BY <1>7, <1>9 DEF Cast
<1>10. UNCHANGED hvars => HeapTyped'
  BY <1>7 DEF hvars
<1> HIDE DEF HeapTyped
<1> QED
  BY <1>1, <1>2, <1>3, <1>4, <1>8, <1>9, <1>10 DEF HeapNext

(* The blocks of the program, the calls it owes and the map keep their      *)
(* types, and live blocks stay disjoint: whatever is allocated, reallocated *)
(* and freed, no emitted call names memory outside the program's.           *)
THEOREM HeapTypeCorrect == HeapSpec => []HeapTyped
<1>1. Init => TypeOK
  BY DEF Init, TypeOK, Idle
<1>2. HeapInit => HeapTyped
  <2> SUFFICES ASSUME HeapInit PROVE HeapTyped
    OBVIOUS
  <2>1. HeapTypeOK
    BY <1>1 DEF HeapInit, HeapTypeOK
  <2>2. Allocated = {}
    BY DEF HeapInit, Allocated
  <2> QED
    BY <2>1, <2>2 DEF HeapTyped, Blocks
<1>3. HeapTyped /\ [HeapNext]_hvars => HeapTyped'
  BY HeapTypeStep
<1> QED
  BY <1>2, <1>3, PTL DEF HeapSpec

(* What the composition does is what ObjTypeMap allows of its callers, so   *)
(* every theorem about Spec holds of it.                                    *)
THEOREM HeapRunsTheMap == HeapSpec => Spec
<1>1. HeapInit => Init
  BY DEF HeapInit
<1>2. HeapTyped /\ [HeapNext]_hvars => [Next]_vars
  BY HeapSteps DEF HeapTyped
<1> QED
  BY <1>1, <1>2, HeapTypeCorrect, PTL DEF HeapSpec, Spec
-----------------------------------------------------------------------------
(* What is to be found in the map: an object per subobject, its count only  *)
(* for a heap block (0 stands for any).                                     *)

Count(blk) == IF blk.kind = "heap" THEN Extent(blk) ELSE 0

Object(a, t, k, i, n) ==
  [addr |-> Spot(a, t, k, i), type |-> Elements[t][k].type, offset |-> Elements[t][k].offset, n |-> n]

Known(a, blk) ==
  {Object(a, blk.type, k, i, Count(blk)) : k \in DOMAIN Elements[blk.type], i \in 0 .. Extent(blk) - 1}

Traced == UNION {Known(a, block[a]) : a \in Allocated}

Fits(info, s) ==
  info # NoInfo /\ info.type = s.type /\ info.offset = s.offset /\ (s.n # 0 => info.count = s.n)

(* What is still to be done: job 0 is the call in progress, job j the j-th  *)
(* that is emitted, and each has addresses still to reach.                  *)
Jobs == 0 .. Len(todo)
Width(c) == IF c.op = "remove" THEN Lookup(c.addr).count ELSE c.n
ReachOf(c) == Elems(c.addr, c.size, Width(c))
Rest == {Elem(call.addr, call.size, i) : i \in call.i .. call.n - 1}
Reach(j) == IF j = 0 THEN Rest ELSE ReachOf(todo[j])

Adds(c) == c.op \in {"update", "add"}
Registering(j) == IF j = 0 THEN call.op = "update" ELSE Adds(todo[j])
InfoDue(c) == [type |-> c.type, offset |-> c.offset, count |-> c.n]
InfoOfJob(j) == IF j = 0 THEN call.info ELSE InfoDue(todo[j])

ToRegister == {x \in Addr : \E j \in Jobs : Registering(j) /\ x \in Reach(j)}
ToForget == {x \in Addr : \E j \in Jobs : ~Registering(j) /\ x \in Reach(j)}

OneEach(a, size, n) == \A i, k \in 0 .. n - 1 : Elem(a, size, i) = Elem(a, size, k) => i = k

(* Removals go before registrations; two removals, and two registrations,   *)
(* reach different addresses, and so do the elements of one registration; a *)
(* removal finds its first element, whose count it goes by.                 *)
InOrder == \A i, j \in Jobs : i < j /\ Registering(i) => Registering(j)
Apart == \A i, j \in Jobs : i # j /\ (Registering(i) <=> Registering(j)) => Reach(i) \cap Reach(j) = {}
Distinct ==
  /\ \A j \in 1 .. Len(todo) : todo[j].op = "update" => OneEach(todo[j].addr, todo[j].size, todo[j].n)
  /\ call.op = "update" => OneEach(call.addr, call.size, call.n)
ToBeFound ==
  \A j \in 1 .. Len(todo) :
    todo[j].op = "remove" => Lookup(todo[j].addr) # NoInfo /\ Lookup(todo[j].addr).count > 0
(* What is registered is what is to be known there.                         *)
Owed ==
  \A j \in Jobs : Registering(j) =>
    \A x \in Reach(j) : \E s \in Traced :
      s.addr = x /\ Fits(InfoOfJob(j), s) /\ (j # 0 /\ todo[j].op = "add" => s.n = 0)

Schedule == InOrder /\ Apart /\ Distinct /\ ToBeFound /\ Owed

(* Apart from what is still to be done, the map is exact.                   *)
NoneMissing ==
  \A s \in Traced : s.addr \in ToRegister \/ (s.addr \notin ToForget /\ Fits(Lookup(s.addr), s))
NoneLeft ==
  \A x \in Addr : Lookup(x) # NoInfo /\ x \notin ToForget => x \notin ToRegister /\ \E s \in Traced : s.addr = x

HeapInv ==
  /\ HeapTyped /\ EntriesAtHome /\ OneHome
  /\ Schedule
  /\ NoneMissing /\ NoneLeft

(* The objects of a block lie in its cells.                                 *)
LEMMA KnownInside ==
  ASSUME NEW a \in Addr, NEW blk \in Block, NEW s \in Known(a, blk)
  PROVE  s.addr \in Cells(a, blk.bytes)
<1>1. PICK k \in DOMAIN Elements[blk.type], i \in 0 .. Extent(blk) - 1 :
        s = Object(a, blk.type, k, i, Count(blk))
  BY DEF Known
<1>2. blk.type \in Type /\ blk.bytes \in 1 .. MaxBytes
  BY DEF Block
<1>3. Spot(a, blk.type, k, i) \in Cells(a, blk.bytes)
  BY <1>2, SpotInside DEF Extent
<1> QED
  BY <1>1, <1>3 DEF Object

(* The objects of one block have addresses of their own.                    *)
LEMMA KnownUnique ==
  ASSUME NEW a \in Addr, NEW blk \in Block, NEW s \in Known(a, blk), NEW r \in Known(a, blk), s.addr = r.addr
  PROVE  s = r
<1>1. PICK k \in DOMAIN Elements[blk.type], i \in 0 .. Extent(blk) - 1 :
        s = Object(a, blk.type, k, i, Count(blk))
  BY DEF Known
<1>2. PICK l \in DOMAIN Elements[blk.type], j \in 0 .. Extent(blk) - 1 :
        r = Object(a, blk.type, l, j, Count(blk))
  BY DEF Known
<1>3. blk.type \in Type /\ i \in Nat /\ j \in Nat
  BY DEF Block
<1>4. Spot(a, blk.type, k, i) = Spot(a, blk.type, l, j)
  BY <1>1, <1>2 DEF Object
<1>5. k = l /\ i = j
  BY <1>3, <1>4, SpotUnique
<1> QED
  BY <1>1, <1>2, <1>5

(* The blocks' objects have addresses of their own. *)
LEMMA TracedUnique ==
  ASSUME HeapTyped
  PROVE  /\ \A s \in Traced : s.addr \in Addr
         /\ \A s, r \in Traced : s.addr = r.addr => s = r
<1>1. ASSUME NEW s \in Traced
      PROVE  \E a \in Allocated : s \in Known(a, block[a]) /\ s.addr \in Cells(a, block[a].bytes) /\ s.addr \in Addr
  <2>1. PICK a \in Allocated : s \in Known(a, block[a])
    BY DEF Traced
  <2>2. a \in Addr /\ block[a] \in Block
    BY BlockFields DEF HeapTyped
  <2>3. s.addr \in Cells(a, block[a].bytes)
    BY <2>1, <2>2, KnownInside
  <2>4. s.addr \in Addr
    BY <2>3 DEF HeapTyped, Blocks
  <2> QED
    BY <2>1, <2>3, <2>4
<1>2. ASSUME NEW s \in Traced, NEW r \in Traced, s.addr = r.addr
      PROVE  s = r
  <2>1. PICK a \in Allocated : s \in Known(a, block[a]) /\ s.addr \in Cells(a, block[a].bytes)
    BY <1>1
  <2>2. PICK b \in Allocated : r \in Known(b, block[b]) /\ r.addr \in Cells(b, block[b].bytes)
    BY <1>1
  <2>3. a = b
    BY <1>2, <2>1, <2>2 DEF HeapTyped, Blocks
  <2>4. a \in Addr /\ block[a] \in Block
    BY BlockFields DEF HeapTyped
  <2> QED
    BY <1>2, <2>1, <2>2, <2>3, <2>4, KnownUnique
<1> QED
  BY <1>1, <1>2
-----------------------------------------------------------------------------
(* Effects on the map. *)

(* Registering an address that was to be registered keeps the invariant.    *)
LEMMA StepRegister ==
  ASSUME HeapInv, KeysDistinct, HeapTyped', Schedule', Traced' = Traced,
         NEW x \in Addr, NEW info \in Info, Store(x, info),
         x \in ToRegister, ToForget = {}, ToForget' = {}, ToRegister' = ToRegister \ {x},
         NEW s \in Traced, s.addr = x, Fits(info, s)
  PROVE  HeapInv'
<1>0. TypeOK /\ EntriesAtHome /\ OneHome /\ HeapTyped
  BY DEF HeapInv, HeapTyped, HeapTypeOK
<1>1. Lookup(x) = NoInfo
  BY DEF HeapInv, NoneLeft
<1>2. EntriesAtHome' /\ OneHome'
  BY <1>0, <1>1, StoreHome, StoreOneHome
<1>3. \A y \in Addr : Lookup(y)' = IF y = x THEN info ELSE Lookup(y)
  BY <1>0, StoreLookup
<1>4. ASSUME NEW r \in Traced, r.addr \notin ToRegister'
      PROVE  Fits(Lookup(r.addr)', r)
  <2>1. r.addr \in Addr /\ (r.addr = x => r = s)
    BY <1>0, TracedUnique
  <2>2. CASE r.addr = x
    BY <1>3, <2>1, <2>2
  <2>3. CASE r.addr # x
    <3>1. Fits(Lookup(r.addr), r)
      BY <1>4, <2>3, <2>1 DEF HeapInv, NoneMissing
    <3> QED
      BY <1>3, <2>1, <2>3, <3>1
  <2> QED
    BY <2>2, <2>3
<1>5. NoneMissing'
  BY <1>4 DEF NoneMissing, Fits
<1>6. NoneLeft'
  BY <1>3 DEF HeapInv, NoneLeft
<1> QED
  BY <1>2, <1>5, <1>6 DEF HeapInv

(* Erasing an address that was to be forgotten keeps the invariant.         *)
LEMMA StepErase ==
  ASSUME HeapInv, KeysDistinct, HeapTyped', Schedule', Traced' = Traced,
         NEW x \in Addr, Erase(x), x \in ToForget,
         ToForget \ {x} \subseteq ToForget', ToForget' \subseteq ToForget, ToRegister' = ToRegister
  PROVE  HeapInv'
<1>0. TypeOK /\ EntriesAtHome /\ OneHome /\ HeapTyped
  BY DEF HeapInv, HeapTyped, HeapTypeOK
<1>1. EntriesAtHome' /\ OneHome'
  BY <1>0, EraseHome, EraseOneHome
<1>2. \A y \in Addr : Lookup(y)' = IF y = x THEN NoInfo ELSE Lookup(y)
  BY <1>0, EraseLookup
<1>3. ASSUME NEW r \in Traced, r.addr \notin ToRegister'
      PROVE  r.addr \notin ToForget' /\ Fits(Lookup(r.addr)', r)
  <2>1. r.addr \notin ToForget /\ Fits(Lookup(r.addr), r) /\ r.addr \in Addr
    BY <1>0, <1>3, TracedUnique DEF HeapInv, NoneMissing
  <2> QED
    BY <1>2, <2>1
<1>4. NoneMissing'
  BY <1>3 DEF NoneMissing, Fits
<1>5. NoneLeft'
  BY <1>2 DEF HeapInv, NoneLeft
<1> QED
  BY <1>1, <1>4, <1>5 DEF HeapInv

(* So does a step that leaves the tables and what is owed as they are.      *)
LEMMA StepQuiet ==
  ASSUME HeapInv, HeapTyped', Schedule', Traced' = Traced, UNCHANGED <<slot, tree>>,
         ToForget' = ToForget, ToRegister' = ToRegister
  PROVE  HeapInv'
<1>1. EntriesAtHome' /\ OneHome'
  BY DEF HeapInv, EntriesAtHome, OneHome
<1>2. \A y : Lookup(y)' = Lookup(y)
  BY SameTables
<1>3. NoneMissing'
  BY <1>2 DEF HeapInv, NoneMissing, Fits
<1>4. NoneLeft'
  BY <1>2 DEF HeapInv, NoneLeft
<1> QED
  BY <1>1, <1>3, <1>4 DEF HeapInv
-----------------------------------------------------------------------------
(* Effects on what is to be done. *)

LEMMA SameBlocks ==
  ASSUME UNCHANGED block
  PROVE  Traced' = Traced
BY DEF Traced, Known, Allocated, Object, Spot, Count, Extent, ArraySize

(* A call that is not in progress has nothing left to reach.                *)
LEMMA IdleReach ==
  ASSUME call = Idle
  PROVE  Rest = {} /\ ~Registering(0)
BY DEF Rest, Idle, Registering

LEMMA TailJobs ==
  ASSUME HeapTypeOK, NEW op, Due(op), todo' = Tail(todo)
  PROVE  /\ Len(todo) \in Nat \ {0} /\ Len(todo)' = Len(todo) - 1 /\ call = Idle
         /\ 1 \in Jobs /\ todo[1] = Head(todo) /\ todo[1].op = op
         /\ \A j \in 1 .. Len(todo) - 1 : j + 1 \in Jobs /\ (todo[j])' = todo[j + 1]
BY FirstDue DEF Due, Jobs

(* The first emitted call becomes the call in progress, or is over at once. *)
LEMMA JobShift ==
  ASSUME HeapInv, NEW op, Due(op), todo' = Tail(todo), Traced' = Traced,
         \A j \in 2 .. Len(todo) : Reach(j - 1)' = Reach(j),
         \A j \in 2 .. Len(todo) :
           todo[j].op = "remove" => (Lookup(todo[j - 1].addr))' = Lookup(todo[j].addr),
         \/ call' = Idle
         \/ /\ Rest' = Reach(1) /\ (Registering(0)' <=> Registering(1))
            /\ Registering(1) => /\ op = "update" /\ call'.info = InfoDue(todo[1])
                                 /\ OneEach(call.addr, call.size, call.n)'
  PROVE  /\ Schedule'
         /\ call' # Idle => ToRegister' = ToRegister /\ ToForget' = ToForget
         /\ call' = Idle =>
              /\ Registering(1) => ToRegister' = ToRegister \ Reach(1) /\ ToForget' = ToForget
              /\ ~Registering(1) => ToRegister' = ToRegister /\ ToForget' = ToForget \ Reach(1)
<1> DEFINE n == Len(todo)
<1>1. HeapTypeOK
  BY DEF HeapInv, HeapTyped
<1>2. /\ n \in Nat \ {0} /\ Jobs = 0 .. n /\ Jobs' = 0 .. n - 1 /\ call = Idle
      /\ \A j \in 1 .. n - 1 : j + 1 \in Jobs /\ (todo[j])' = todo[j + 1]
  BY <1>1, TailJobs DEF Jobs
<1>3. ASSUME NEW j \in 1 .. n - 1
      PROVE  /\ Reach(j)' = Reach(j + 1) /\ (Registering(j)' <=> Registering(j + 1))
             /\ InfoOfJob(j)' = InfoOfJob(j + 1)
  <2>1. j + 1 \in 2 .. n /\ (j + 1) - 1 = j /\ j # 0 /\ j + 1 # 0
    BY <1>2
  <2>2. Reach(j)' = Reach(j + 1)
    BY <2>1
  <2>3. (todo[j])' = todo[j + 1]
    BY <1>2
  <2> QED
    BY <2>1, <2>2, <2>3 DEF Registering, Adds, InfoOfJob, InfoDue
<1>4. Reach(0) = {} /\ ~Registering(0)
  BY <1>2, IdleReach DEF Reach
<1>5. /\ call' = Idle => Reach(0)' = {} /\ ~Registering(0)'
      /\ call' # Idle => Reach(0)' = Reach(1) /\ (Registering(0)' <=> Registering(1))
      /\ Registering(0)' => InfoOfJob(0)' = InfoOfJob(1) /\ todo[1].op = "update"
  <2>1. call' = Idle => Rest' = {} /\ ~Registering(0)'
    BY DEF Rest, Idle, Registering
  <2>2. todo[1].op = op
    BY <1>1, TailJobs
  <2> QED
    BY <2>1, <2>2 DEF Reach, InfoOfJob
<1>6. ASSUME NEW j \in 0 .. n - 1
      PROVE  /\ j + 1 \in 1 .. n /\ Reach(j)' \subseteq Reach(j + 1)
             /\ Registering(j)' => Registering(j + 1)
             /\ Reach(j)' = {} \/ (Registering(j)' <=> Registering(j + 1))
  <2>1. j = 0 \/ j \in 1 .. n - 1
    BY <1>2
  <2> QED
    BY <1>2, <1>3, <1>5, <2>1
<1>7. InOrder'
  <2> SUFFICES ASSUME NEW i \in 0 .. n - 1, NEW j \in 0 .. n - 1, i < j, Registering(i)'
               PROVE  Registering(j)'
    BY <1>2 DEF InOrder
  <2>1. j \in 1 .. n - 1 /\ i + 1 < j + 1 /\ i + 1 \in Jobs /\ j + 1 \in Jobs
    BY <1>2
  <2>2. Registering(j + 1)
    BY <1>6, <2>1 DEF HeapInv, Schedule, InOrder
  <2> QED
    BY <1>3, <2>1, <2>2
<1>8. Apart'
  <2> SUFFICES ASSUME NEW i \in 0 .. n - 1, NEW j \in 0 .. n - 1, i # j,
                      Registering(i)' <=> Registering(j)', NEW x \in Reach(i)', x \in Reach(j)'
               PROVE  FALSE
    BY <1>2 DEF Apart
  <2>1. i + 1 # j + 1 /\ i + 1 \in Jobs /\ j + 1 \in Jobs
    BY <1>2
  <2>2. x \in Reach(i + 1) /\ x \in Reach(j + 1) /\ (Registering(i + 1) <=> Registering(j + 1))
    BY <1>6
  <2> QED
    BY <2>1, <2>2 DEF HeapInv, Schedule, Apart
<1>9. Distinct'
  <2>1. ASSUME NEW j \in 1 .. n - 1, (todo[j])'.op = "update"
        PROVE  OneEach(todo[j].addr, todo[j].size, todo[j].n)'
    <3>1. (todo[j])' = todo[j + 1] /\ j + 1 \in 1 .. n
      BY <1>2
    <3>2. OneEach(todo[j + 1].addr, todo[j + 1].size, todo[j + 1].n)
      BY <2>1, <3>1 DEF HeapInv, Schedule, Distinct
    <3> QED
      BY <3>1, <3>2 DEF OneEach, Elem
  <2>2. call'.op = "update" => OneEach(call.addr, call.size, call.n)'
    BY DEF Idle, Registering
  <2>3. Len(todo)' = n - 1
    BY <1>1, TailJobs
  <2> QED
    BY <2>1, <2>2, <2>3 DEF Distinct
<1>10. ToBeFound'
  <2> SUFFICES ASSUME NEW j \in 1 .. n - 1, (todo[j])'.op = "remove"
               PROVE  (Lookup(todo[j].addr) # NoInfo /\ Lookup(todo[j].addr).count > 0)'
    BY <1>1, TailJobs DEF ToBeFound
  <2>1. (todo[j])' = todo[j + 1] /\ j + 1 \in 2 .. n /\ (j + 1) - 1 = j /\ j + 1 \in 1 .. n
    BY <1>2
  <2>2. (Lookup(todo[j].addr))' = Lookup(todo[j + 1].addr)
    BY <2>1
  <2> QED
    BY <2>1, <2>2 DEF HeapInv, Schedule, ToBeFound
<1>11. Owed'
  <2> SUFFICES ASSUME NEW j \in 0 .. n - 1, Registering(j)', NEW x \in Reach(j)'
               PROVE  \E s \in Traced : /\ s.addr = x /\ Fits(InfoOfJob(j)', s)
                                        /\ j # 0 /\ (todo[j])'.op = "add" => s.n = 0
    BY <1>2 DEF Owed, Fits
  <2>1. Registering(j + 1) /\ x \in Reach(j + 1) /\ j + 1 \in Jobs /\ j + 1 # 0
    BY <1>2, <1>6
  <2>2. PICK s \in Traced : s.addr = x /\ Fits(InfoOfJob(j + 1), s) /\ (todo[j + 1].op = "add" => s.n = 0)
    BY <2>1 DEF HeapInv, Schedule, Owed
  <2>3. CASE j = 0
    BY <1>5, <2>2, <2>3
  <2>4. CASE j # 0
    <3>1. j \in 1 .. n - 1
      BY <1>2, <2>4
    <3> QED
      BY <1>2, <1>3, <2>2, <3>1
  <2> QED
    BY <2>3, <2>4
<1> DEFINE Later(x, g) == \E j \in 2 .. n : (Registering(j) <=> g) /\ x \in Reach(j)
<1>12. ASSUME NEW x \in Addr, NEW g \in BOOLEAN
       PROVE  /\ (\E j \in Jobs : (Registering(j) <=> g) /\ x \in Reach(j))
                   <=> Later(x, g) \/ ((Registering(1) <=> g) /\ x \in Reach(1))
              /\ (\E j \in Jobs' : (Registering(j)' <=> g) /\ x \in Reach(j)')
                   <=> Later(x, g) \/ ((Registering(0)' <=> g) /\ x \in Reach(0)')
              /\ Later(x, g) /\ (Registering(1) <=> g) => x \notin Reach(1)
  <2>1. \A j \in Jobs' : j = 0 \/ (j \in 1 .. n - 1 /\ j + 1 \in 2 .. n)
    BY <1>2
  <2>2. \A j \in 2 .. n : j - 1 \in 1 .. n - 1 /\ (j - 1) + 1 = j /\ j - 1 \in Jobs' /\ j \in Jobs /\ j # 1
    BY <1>2
  <2>3. \A j \in Jobs : j = 0 \/ j = 1 \/ j \in 2 .. n
    BY <1>2
  <2>4. 0 \in Jobs' /\ 1 \in Jobs
    BY <1>2
  <2>5. \A j \in 2 .. n : Reach(j - 1)' = Reach(j) /\ (Registering(j - 1)' <=> Registering(j))
    BY <1>3, <2>2
  <2>6. (\E j \in Jobs : (Registering(j) <=> g) /\ x \in Reach(j))
          <=> Later(x, g) \/ ((Registering(1) <=> g) /\ x \in Reach(1))
    BY <1>4, <2>2, <2>3, <2>4
  <2>7. (\E j \in Jobs' : (Registering(j)' <=> g) /\ x \in Reach(j)')
          <=> Later(x, g) \/ ((Registering(0)' <=> g) /\ x \in Reach(0)')
    BY <1>3, <2>1, <2>2, <2>4, <2>5
  <2>8. Later(x, g) /\ (Registering(1) <=> g) => x \notin Reach(1)
    BY <2>2, <2>4 DEF HeapInv, Schedule, Apart
  <2> QED
    BY <2>6, <2>7, <2>8
<1> HIDE DEF Later
<1>13. /\ \A x : x \in ToRegister <=> x \in Addr /\ (Later(x, TRUE) \/ (Registering(1) /\ x \in Reach(1)))
       /\ \A x : x \in ToForget <=> x \in Addr /\ (Later(x, FALSE) \/ (~Registering(1) /\ x \in Reach(1)))
  BY <1>12 DEF ToRegister, ToForget
<1>14. /\ \A x : x \in ToRegister' <=> x \in Addr /\ (Later(x, TRUE) \/ (Registering(0)' /\ x \in Reach(0)'))
       /\ \A x : x \in ToForget' <=> x \in Addr /\ (Later(x, FALSE) \/ (~Registering(0)' /\ x \in Reach(0)'))
  BY <1>12 DEF ToRegister, ToForget
<1>15. /\ \A x \in Addr : Later(x, TRUE) /\ Registering(1) => x \notin Reach(1)
       /\ \A x \in Addr : Later(x, FALSE) /\ ~Registering(1) => x \notin Reach(1)
  BY <1>12
<1>16. CASE call' # Idle
  BY <1>5, <1>7, <1>8, <1>9, <1>10, <1>11, <1>13, <1>14, <1>16 DEF Schedule
<1>17. CASE call' = Idle
  BY <1>5, <1>7, <1>8, <1>9, <1>10, <1>11, <1>13, <1>14, <1>15, <1>17 DEF Schedule
<1> QED
  BY <1>16, <1>17

LEMMA PendingFields ==
  ASSUME HeapTypeOK, NEW j \in 1 .. Len(todo)
  PROVE  /\ todo[j] \in PendingCall /\ todo[j].addr \in Addr /\ todo[j].size \in Nat
         /\ todo[j].type \in Type /\ todo[j].offset \in Offset /\ todo[j].n \in 0 .. MaxCount
         /\ todo[j].op \in {"update", "remove", "add", "del"}
         /\ todo[j].op \in {"add", "del"} => todo[j].size = 0 /\ todo[j].n = 1
<1>1. todo[j] \in PendingCall
  BY DEF HeapTypeOK
<1>2. todo[j] \in ArrayCallDue \/ todo[j] \in ElementCallDue
  BY <1>1 DEF PendingCall
<1>3. 0 \in Nat /\ 1 \in 0 .. MaxCount
  BY CountAssumption
<1>4. CASE todo[j] \in ArrayCallDue
  BY <1>1, <1>4, SizeAssumption DEF ArrayCallDue
<1>5. CASE todo[j] \in ElementCallDue
  BY <1>1, <1>3, <1>5 DEF ElementCallDue
<1> QED
  BY <1>2, <1>4, <1>5

LEMMA FirstElem ==
  ASSUME NEW a \in Nat, NEW size \in Nat
  PROVE  Elem(a, size, 0) = a
<1>1. size * 0 = 0 /\ 0 % Word = 0
  BY GeometryAssumption
<1> QED
  BY <1>1 DEF Elem

(* What a step does at an address of one job is not seen by the later jobs. *)
LEMMA LaterJobs ==
  ASSUME HeapInv, NEW i \in Jobs, NEW x \in Reach(i), \A y \in Addr : y # x => Lookup(y)' = Lookup(y),
         NEW j \in 1 .. Len(todo), i < j, NEW c, c = todo[j]
  PROVE  ReachOf(c)' = ReachOf(c) /\ (c.op = "remove" => Lookup(c.addr)' = Lookup(c.addr))
<1>1. CASE c.op # "remove"
  BY <1>1 DEF ReachOf, Width, Elems, Elem
<1>2. CASE c.op = "remove"
  <2>1. c.addr \in Addr /\ c.size \in Nat /\ j \in Jobs /\ j # 0
    BY PendingFields DEF HeapInv, HeapTyped, Jobs
  <2>2. Lookup(c.addr) # NoInfo /\ Lookup(c.addr).count > 0
    BY <1>2 DEF HeapInv, Schedule, ToBeFound
  <2>3. Lookup(c.addr).count \in Nat
    BY <2>1, <2>2, FindType, CountAssumption, EntryFields
    DEF HeapInv, HeapTyped, HeapTypeOK, Lookup, InfoOf, Entry, Info
  <2>4. c.addr \in Reach(j)
    <3>1. 0 \in 0 .. Lookup(c.addr).count - 1
      BY <2>2, <2>3
    <3>2. Elem(c.addr, c.size, 0) = c.addr
      BY <2>1, FirstElem, AddrAssumption
    <3> QED
      BY <1>2, <2>1, <3>1, <3>2 DEF Reach, ReachOf, Width, Elems
  <2>5. ~Registering(j) /\ ~Registering(i)
    <3>1. ~Registering(j)
      BY <1>2, <2>1 DEF Registering, Adds
    <3> QED
      BY <2>1, <3>1 DEF HeapInv, Schedule, InOrder
  <2>6. c.addr # x
    BY <2>1, <2>4, <2>5 DEF HeapInv, Schedule, Apart, Jobs
  <2>7. Lookup(c.addr)' = Lookup(c.addr)
    BY <2>1, <2>6
  <2> QED
    BY <2>7 DEF ReachOf, Width, Elems, Elem
<1> QED
  BY <1>1, <1>2

LEMMA SameReach ==
  ASSUME UNCHANGED <<slot, tree>>, NEW c
  PROVE  ReachOf(c)' = ReachOf(c)
BY SameTables DEF ReachOf, Width, Elems, Elem

(* The call in progress goes past one element.                              *)
LEMMA JobShrink ==
  ASSUME HeapInv, call.op \in {"update", "remove"}, call.i < call.n, NextElement, UNCHANGED todo, Traced' = Traced,
         NEW x, x = Element, \A j \in 1 .. Len(todo) : Reach(j)' = Reach(j),
         \A j \in 1 .. Len(todo) :
           todo[j].op = "remove" => (Lookup(todo[j].addr))' = Lookup(todo[j].addr)
  PROVE  /\ Schedule' /\ x \in Addr
         /\ Registering(0) => x \in ToRegister /\ ToRegister' = ToRegister \ {x} /\ ToForget' = ToForget
         /\ ~Registering(0) => /\ x \in ToForget /\ ToRegister' = ToRegister
                               /\ ToForget \ {x} \subseteq ToForget' /\ ToForget' \subseteq ToForget
<1> DEFINE n == Len(todo)
<1>1. /\ call \in ArrayCall /\ call.i \in 0 .. MaxCount - 1 /\ call.n \in Nat /\ call # Idle /\ TypeOK
      /\ n \in Nat /\ Jobs = 0 .. n /\ Jobs' = Jobs
  BY CountAssumption DEF HeapInv, HeapTyped, HeapTypeOK, TypeOK, Idle, ArrayCall, Jobs
<1>2. call' = [call EXCEPT !.i = call.i + 1]
  BY <1>1, NextIndex DEF NextElement
<1>3. /\ call'.addr = call.addr /\ call'.size = call.size /\ call'.n = call.n
      /\ call'.i = call.i + 1 /\ call'.op = call.op /\ call'.info = call.info
  BY <1>1, <1>2 DEF ArrayCall
<1>4. x \in Rest /\ x \in Addr
  <2>1. call.i \in call.i .. call.n - 1 /\ call.i \in 0 .. call.n - 1
    BY <1>1
  <2> QED
    BY <1>1, <2>1, ElementInCall DEF Element, Rest
<1>5. Rest' \subseteq Rest /\ Rest \ {x} \subseteq Rest' /\ (Registering(0) => x \notin Rest')
  <2>1. Rest' = {Elem(call.addr, call.size, i) : i \in call.i + 1 .. call.n - 1}
    BY <1>3 DEF Rest, Elem
  <2>2. call.i + 1 .. call.n - 1 = (call.i .. call.n - 1) \ {call.i}
    BY <1>1
  <2>3. \A i \in call.i .. call.n - 1 : i \in 0 .. call.n - 1 /\ call.i \in 0 .. call.n - 1
    BY <1>1
  <2>4. Registering(0) => x \notin Rest'
    BY <2>1, <2>2, <2>3 DEF Registering, HeapInv, Schedule, Distinct, OneEach, Element
  <2> QED
    BY <2>1, <2>2, <2>4 DEF Rest, Element
<1>6. ASSUME NEW j \in Jobs
      PROVE  /\ Reach(j)' \subseteq Reach(j) /\ (Registering(j)' <=> Registering(j))
             /\ (j # 0 => Reach(j)' = Reach(j)) /\ InfoOfJob(j)' = InfoOfJob(j)
  <2>1. j = 0 \/ (j # 0 /\ j \in 1 .. n)
    BY <1>1
  <2>2. (j # 0 => Reach(j)' = Reach(j)) /\ (j = 0 => Reach(j)' \subseteq Reach(j))
    BY <1>5, <2>1 DEF Reach
  <2>3. (Registering(j)' <=> Registering(j)) /\ InfoOfJob(j)' = InfoOfJob(j)
    BY <1>3 DEF Registering, Adds, InfoOfJob, InfoDue
  <2> QED
    BY <2>2, <2>3
<1>7. InOrder'
  BY <1>1, <1>6 DEF HeapInv, Schedule, InOrder
<1>8. Apart'
  <2> SUFFICES ASSUME NEW i \in Jobs, NEW j \in Jobs, i # j,
                      Registering(i)' <=> Registering(j)', NEW y \in Reach(i)', y \in Reach(j)'
               PROVE  FALSE
    BY <1>1 DEF Apart
  <2> QED
    BY <1>6 DEF HeapInv, Schedule, Apart
<1>9. Distinct'
  BY <1>3 DEF HeapInv, Schedule, Distinct, OneEach, Elem
<1>10. ToBeFound'
  BY DEF HeapInv, Schedule, ToBeFound
<1>11. Owed'
  BY <1>1, <1>6 DEF HeapInv, Schedule, Owed, Fits
<1>12. ASSUME NEW y \in Addr, NEW g \in BOOLEAN
       PROVE  /\ (\E j \in Jobs' : (Registering(j)' <=> g) /\ y \in Reach(j)')
                   => (\E j \in Jobs : (Registering(j) <=> g) /\ y \in Reach(j))
              /\ (\E j \in Jobs : (Registering(j) <=> g) /\ y \in Reach(j)) /\ (y # x \/ ~(Registering(0) <=> g))
                   => (\E j \in Jobs' : (Registering(j)' <=> g) /\ y \in Reach(j)')
              /\ (Registering(0) <=> g) /\ Registering(0)
                   => ~ \E j \in Jobs' : (Registering(j)' <=> g) /\ x \in Reach(j)'
  <2>1. Reach(0) = Rest /\ Reach(0)' = Rest' /\ 0 \in Jobs
    BY <1>1 DEF Reach
  <2>2. (\E j \in Jobs' : (Registering(j)' <=> g) /\ y \in Reach(j)')
          => (\E j \in Jobs : (Registering(j) <=> g) /\ y \in Reach(j))
    BY <1>1, <1>6
  <2>3. (\E j \in Jobs : (Registering(j) <=> g) /\ y \in Reach(j)) /\ (y # x \/ ~(Registering(0) <=> g))
          => (\E j \in Jobs' : (Registering(j)' <=> g) /\ y \in Reach(j)')
    BY <1>1, <1>5, <1>6, <2>1
  <2>4. (Registering(0) <=> g) /\ Registering(0)
          => ~ \E j \in Jobs' : (Registering(j)' <=> g) /\ x \in Reach(j)'
    BY <1>1, <1>4, <1>5, <1>6, <2>1 DEF HeapInv, Schedule, Apart
  <2> QED
    BY <2>2, <2>3, <2>4
<1>13. x \in Reach(0) /\ 0 \in Jobs
  BY <1>1, <1>4 DEF Reach
<1>14. CASE Registering(0)
  <2>1. x \in ToRegister
    BY <1>4, <1>13, <1>14 DEF ToRegister
  <2>2. ToRegister' = ToRegister \ {x}
    BY <1>12, <1>14 DEF ToRegister
  <2>3. ToForget' = ToForget
    BY <1>12, <1>14 DEF ToForget
  <2> QED
    BY <1>4, <1>7, <1>8, <1>9, <1>10, <1>11, <1>14, <2>1, <2>2, <2>3 DEF Schedule
<1>15. CASE ~Registering(0)
  <2>1. x \in ToForget
    BY <1>4, <1>13, <1>15 DEF ToForget
  <2>2. ToRegister' = ToRegister
    BY <1>12, <1>15 DEF ToRegister
  <2>3. ToForget \ {x} \subseteq ToForget' /\ ToForget' \subseteq ToForget
    BY <1>12, <1>15 DEF ToForget
  <2> QED
    BY <1>4, <1>7, <1>8, <1>9, <1>10, <1>11, <1>15, <2>1, <2>2, <2>3 DEF Schedule
<1> QED
  BY <1>14, <1>15
-----------------------------------------------------------------------------
(* The emitted calls. *)

LEMMA ShiftReach ==
  ASSUME HeapInv, NEW op, Due(op), todo' = Tail(todo),
         \A j \in 2 .. Len(todo), c \in PendingCall :
           c = todo[j] => ReachOf(c)' = ReachOf(c) /\ (c.op = "remove" => Lookup(c.addr)' = Lookup(c.addr))
  PROVE  /\ \A j \in 2 .. Len(todo) : Reach(j - 1)' = Reach(j)
         /\ \A j \in 2 .. Len(todo) :
              todo[j].op = "remove" => (Lookup(todo[j - 1].addr))' = Lookup(todo[j].addr)
<1> SUFFICES ASSUME NEW j \in 2 .. Len(todo)
             PROVE  /\ Reach(j - 1)' = Reach(j)
                    /\ todo[j].op = "remove" => (Lookup(todo[j - 1].addr))' = Lookup(todo[j].addr)
  OBVIOUS
<1>1. HeapTypeOK
  BY DEF HeapInv, HeapTyped
<1>2. /\ j - 1 \in 1 .. Len(todo) - 1 /\ (j - 1) + 1 = j /\ j - 1 # 0 /\ j # 0 /\ j \in 1 .. Len(todo)
  BY <1>1, TailJobs
<1>3. PICK c \in PendingCall : c = todo[j]
  BY <1>1, <1>2, PendingFields
<1>4. (todo[j - 1])' = c
  BY <1>1, <1>2, <1>3, TailJobs
<1>5. ReachOf(c)' = ReachOf(c) /\ (c.op = "remove" => Lookup(c.addr)' = Lookup(c.addr))
  BY <1>3
<1>6. Reach(j) = ReachOf(c)
  BY <1>2, <1>3 DEF Reach
<1>7. Reach(j - 1)' = ReachOf(c)'
  BY <1>2, <1>4 DEF Reach, ReachOf, Width, Elems, Elem, Lookup, InfoOf, FindEntry
<1>8. (Lookup(todo[j - 1].addr))' = Lookup(c.addr)'
  BY <1>2, <1>4 DEF Lookup, InfoOf, FindEntry
<1> QED
  BY <1>3, <1>5, <1>6, <1>7, <1>8

LEMMA FirstJob ==
  ASSUME HeapInv, NEW op, Due(op), NEW c, c = todo[1]
  PROVE  /\ Reach(1) = ReachOf(c) /\ c.op = op /\ (Registering(1) <=> op \in {"update", "add"})
         /\ 1 \in Jobs /\ 1 \in 1 .. Len(todo) /\ c = Head(todo) /\ call = Idle /\ InfoOfJob(1) = InfoDue(c)
         /\ (Registering(1) => ToForget = {}) /\ Reach(0) = {} /\ ~Registering(0)
<1>1. HeapTypeOK
  BY DEF HeapInv, HeapTyped
<1>2. Len(todo) \in Nat \ {0} /\ call = Idle /\ c = Head(todo) /\ c.op = op
  BY <1>1, FirstDue DEF Due
<1>3. Reach(0) = {} /\ ~Registering(0)
  BY <1>2, IdleReach DEF Reach
<1>4. Registering(1) => ToForget = {}
  <2>1. \A j \in Jobs : j = 0 \/ j = 1 \/ 1 < j
    BY <1>2 DEF Jobs
  <2>2. 1 \in Jobs
    BY <1>2 DEF Jobs
  <2> QED
    BY <1>3, <2>1, <2>2 DEF HeapInv, Schedule, InOrder, ToForget
<1> QED
  BY <1>2, <1>3, <1>4 DEF Reach, Registering, Adds, InfoOfJob, Jobs

(* __update_oinfo is entered: it reaches what it was emitted for.           *)
LEMMA UpdateBegins ==
  ASSUME HeapInv, HeapTyped', ServeUpdate
  PROVE  HeapInv'
<1>0. Due("update") /\ todo' = Tail(todo) /\ Traced' = Traced
  BY SameBlocks DEF ServeUpdate, Done
<1>1. HeapTypeOK
  BY DEF HeapInv, HeapTyped
<1>2. PICK c \in PendingCall : c = todo[1]
  BY <1>0, <1>1, FirstDue
<1>3. /\ Reach(1) = ReachOf(c) /\ c.op = "update" /\ Registering(1) /\ c = Head(todo)
      /\ call = Idle /\ 1 \in 1 .. Len(todo)
  BY <1>0, <1>2, FirstJob
<1>4. /\ call' = [op |-> "update", addr |-> c.addr, size |-> c.size, n |-> c.n, i |-> 0,
                  info |-> [type |-> c.type, offset |-> c.offset, count |-> c.n % Word]]
      /\ UNCHANGED <<slot, tree>>
  BY <1>3 DEF ServeUpdate, BeginUpdate
<1>5. c.n % Word = c.n
  BY <1>1, <1>2, <1>3, PendingFields, SmallModulo
<1>6. Rest' = Reach(1) /\ call'.info = InfoDue(c) /\ Registering(0)' /\ call' # Idle
  BY <1>3, <1>4, <1>5 DEF Rest, ReachOf, Width, Elems, Elem, InfoDue, Registering, Idle
<1>7. OneEach(call.addr, call.size, call.n)'
  <2>1. OneEach(c.addr, c.size, c.n)
    BY <1>2, <1>3 DEF HeapInv, Schedule, Distinct
  <2> QED
    BY <1>4, <2>1 DEF OneEach, Elem
<1>8. \A d : ReachOf(d)' = ReachOf(d) /\ (d.op = "remove" => Lookup(d.addr)' = Lookup(d.addr))
  BY <1>4, SameReach, SameTables
<1>9. /\ \A j \in 2 .. Len(todo) : Reach(j - 1)' = Reach(j)
      /\ \A j \in 2 .. Len(todo) :
           todo[j].op = "remove" => (Lookup(todo[j - 1].addr))' = Lookup(todo[j].addr)
  BY <1>0, <1>8, ShiftReach
<1>10. Schedule' /\ ToRegister' = ToRegister /\ ToForget' = ToForget
  BY <1>0, <1>2, <1>3, <1>6, <1>7, <1>9, JobShift
<1> QED
  BY <1>0, <1>4, <1>10, StepQuiet

(* __remove_oinfo is entered: the count it takes from the map is the one    *)
(* the block was registered with.                                           *)
LEMMA RemoveBegins ==
  ASSUME HeapInv, HeapTyped', ServeRemove
  PROVE  HeapInv'
<1>0. Due("remove") /\ todo' = Tail(todo) /\ Traced' = Traced
  BY SameBlocks DEF ServeRemove, Done
<1>1. HeapTypeOK
  BY DEF HeapInv, HeapTyped
<1>2. PICK c \in PendingCall : c = todo[1]
  BY <1>0, <1>1, FirstDue
<1>3. /\ Reach(1) = ReachOf(c) /\ c.op = "remove" /\ ~Registering(1) /\ c = Head(todo)
      /\ call = Idle /\ 1 \in 1 .. Len(todo)
  BY <1>0, <1>2, FirstJob
<1> DEFINE m == RemoveCount(c.addr, c.n, TRUE)
<1>4. /\ call' = [op |-> "remove", addr |-> c.addr, info |-> NoInfo, size |-> c.size, n |-> m, i |-> 0]
      /\ UNCHANGED <<slot, tree>>
  BY <1>3 DEF ServeRemove, BeginRemove
<1>5. m = Lookup(c.addr).count
  <2>1. Lookup(c.addr) # NoInfo
    BY <1>2, <1>3 DEF HeapInv, Schedule, ToBeFound
  <2> QED
    BY <2>1 DEF RemoveCount, Lookup, InfoOf
<1> HIDE DEF m
<1>6. Rest' = Reach(1) /\ ~Registering(0)' /\ call' # Idle
  BY <1>3, <1>4, <1>5 DEF Rest, ReachOf, Width, Elems, Elem, Registering, Idle
<1>8. \A d : ReachOf(d)' = ReachOf(d) /\ (d.op = "remove" => Lookup(d.addr)' = Lookup(d.addr))
  BY <1>4, SameReach, SameTables
<1>9. /\ \A j \in 2 .. Len(todo) : Reach(j - 1)' = Reach(j)
      /\ \A j \in 2 .. Len(todo) :
           todo[j].op = "remove" => (Lookup(todo[j - 1].addr))' = Lookup(todo[j].addr)
  BY <1>0, <1>8, ShiftReach
<1>10. Schedule' /\ ToRegister' = ToRegister /\ ToForget' = ToForget
  BY <1>0, <1>3, <1>6, <1>9, JobShift
<1> QED
  BY <1>0, <1>4, <1>10, StepQuiet

LEMMA OneAddress ==
  ASSUME HeapInv, NEW c \in PendingCall, c.op \in {"add", "del"}
  PROVE  ReachOf(c) = {c.addr} /\ c.addr \in Addr /\ c.type \in Type /\ c.offset \in Offset
<1>1. c \in ElementCallDue
  BY DEF PendingCall, ArrayCallDue
<1>2. c.addr \in Addr /\ c.type \in Type /\ c.offset \in Offset /\ c.size = 0 /\ c.n = 1
  BY <1>1 DEF ElementCallDue
<1>3. Elem(c.addr, 0, 0) = c.addr /\ 0 .. 1 - 1 = {0}
  <2>1. c.addr \in Nat
    BY <1>2, AddrAssumption
  <2> QED
    BY <2>1, FirstElem
<1> QED
  BY <1>2, <1>3 DEF ReachOf, Width, Elems

(* A subobject on the stack is registered.                                  *)
LEMMA AddServed ==
  ASSUME HeapInv, KeysDistinct, HeapTyped', ServeAdd
  PROVE  HeapInv' /\ \E x \in Addr, info \in Info : Store(x, info) /\ Lookup(x) = NoInfo
<1>0. Due("add") /\ todo' = Tail(todo) /\ Traced' = Traced
  BY SameBlocks DEF ServeAdd, Done
<1>1. HeapTypeOK /\ TypeOK /\ EntriesAtHome
  BY DEF HeapInv, HeapTyped, HeapTypeOK
<1>2. PICK c \in PendingCall : c = todo[1]
  BY <1>0, <1>1, FirstDue
<1>3. /\ Reach(1) = ReachOf(c) /\ c.op = "add" /\ Registering(1) /\ c = Head(todo) /\ 1 \in Jobs
      /\ call = Idle /\ 1 \in 1 .. Len(todo) /\ InfoOfJob(1) = InfoDue(c) /\ ToForget = {}
  BY <1>0, <1>2, FirstJob
<1>4. Reach(1) = {c.addr} /\ c.addr \in Addr /\ c.type \in Type /\ c.offset \in Offset
  BY <1>3, OneAddress
<1>5. PICK k \in 0 .. MaxCount : Store(c.addr, [type |-> c.type, offset |-> c.offset, count |-> k]) /\ call' = Idle
  <2>1. 1 \in 0 .. MaxCount /\ SlotCount(getHash(c.addr)) \in 0 .. MaxCount
    BY <1>1, <1>4, Geometry, CountAssumption DEF SlotCount, TypeOK, Info
  <2> QED
    BY <1>3, <2>1 DEF ServeAdd, UpdateInline, UpdateDirect
<1> DEFINE info == [type |-> c.type, offset |-> c.offset, count |-> k]
<1>6. info \in Info
  BY <1>4 DEF Info
<1>7. PICK s \in Traced : s.addr = c.addr /\ Fits(InfoDue(c), s) /\ s.n = 0
  <2>1. c.addr \in Reach(1)
    BY <1>4
  <2>2. PICK s \in Traced :
          s.addr = c.addr /\ Fits(InfoOfJob(1), s) /\ (1 # 0 /\ todo[1].op = "add" => s.n = 0)
    BY <1>3, <2>1 DEF HeapInv, Schedule, Owed
  <2>3. s.n = 0
    BY <1>2, <1>3, <2>2
  <2>4. Fits(InfoDue(c), s)
    BY <1>3, <2>2
  <2> QED
    BY <2>2, <2>3, <2>4
<1>8. Fits(info, s)
  <2>1. info # NoInfo
    BY <1>6, NoInfoAssumption
  <2> QED
    BY <1>7, <2>1 DEF Fits, InfoDue
<1>9. \A y \in Addr : y # c.addr => Lookup(y)' = Lookup(y)
  BY <1>1, <1>4, <1>5, <1>6, StoreLookup
<1>10. \A j \in 2 .. Len(todo), d \in PendingCall :
         d = todo[j] => ReachOf(d)' = ReachOf(d) /\ (d.op = "remove" => Lookup(d.addr)' = Lookup(d.addr))
  <2>1. \A j \in 2 .. Len(todo) : 1 < j /\ j \in 1 .. Len(todo)
    BY <1>0, <1>1, TailJobs
  <2> QED
    BY <1>3, <1>4, <1>9, <2>1, LaterJobs
<1>11. /\ \A j \in 2 .. Len(todo) : Reach(j - 1)' = Reach(j)
       /\ \A j \in 2 .. Len(todo) :
            todo[j].op = "remove" => (Lookup(todo[j - 1].addr))' = Lookup(todo[j].addr)
  BY <1>0, <1>10, ShiftReach
<1>12. Schedule' /\ ToRegister' = ToRegister \ {c.addr} /\ ToForget' = ToForget
  BY <1>0, <1>3, <1>4, <1>5, <1>11, JobShift
<1>13. c.addr \in ToRegister
  BY <1>3, <1>4 DEF ToRegister
<1>14. Lookup(c.addr) = NoInfo
  BY <1>3, <1>4, <1>13 DEF HeapInv, NoneLeft
<1> HIDE DEF info
<1>15. PICK x \in Addr : x = c.addr
  BY <1>4
<1>16. Store(x, info)
  BY <1>5, <1>15 DEF info
<1>17. HeapInv'
  BY <1>0, <1>3, <1>6, <1>7, <1>8, <1>12, <1>13, <1>15, <1>16, StepRegister
<1> QED
  BY <1>6, <1>14, <1>15, <1>16, <1>17

(* A subobject on the stack is forgotten.                                   *)
LEMMA DelServed ==
  ASSUME HeapInv, KeysDistinct, HeapTyped', ServeDel
  PROVE  HeapInv' /\ \E x \in Addr : Erase(x)
<1>0. Due("del") /\ todo' = Tail(todo) /\ Traced' = Traced
  BY SameBlocks DEF ServeDel, Done
<1>1. HeapTypeOK /\ TypeOK /\ EntriesAtHome
  BY DEF HeapInv, HeapTyped, HeapTypeOK
<1>2. PICK c \in PendingCall : c = todo[1]
  BY <1>0, <1>1, FirstDue
<1>3. /\ Reach(1) = ReachOf(c) /\ c.op = "del" /\ ~Registering(1) /\ c = Head(todo) /\ 1 \in Jobs
      /\ call = Idle /\ 1 \in 1 .. Len(todo)
  BY <1>0, <1>2, FirstJob
<1>4. Reach(1) = {c.addr} /\ c.addr \in Addr
  BY <1>3, OneAddress
<1>5. PICK x \in Addr : x = c.addr
  BY <1>4
<1>6. Erase(x) /\ call' = Idle
  BY <1>3, <1>5 DEF ServeDel, RemoveDirect
<1>7. \A y \in Addr : y # x => Lookup(y)' = Lookup(y)
  BY <1>1, <1>6, EraseLookup
<1>8. \A j \in 2 .. Len(todo), d \in PendingCall :
         d = todo[j] => ReachOf(d)' = ReachOf(d) /\ (d.op = "remove" => Lookup(d.addr)' = Lookup(d.addr))
  <2>1. \A j \in 2 .. Len(todo) : 1 < j /\ j \in 1 .. Len(todo)
    BY <1>0, <1>1, TailJobs
  <2> QED
    BY <1>3, <1>4, <1>5, <1>7, <2>1, LaterJobs
<1>9. /\ \A j \in 2 .. Len(todo) : Reach(j - 1)' = Reach(j)
      /\ \A j \in 2 .. Len(todo) :
            todo[j].op = "remove" => (Lookup(todo[j - 1].addr))' = Lookup(todo[j].addr)
  BY <1>0, <1>8, ShiftReach
<1>10. Schedule' /\ ToRegister' = ToRegister /\ ToForget' = ToForget \ {x}
  BY <1>0, <1>3, <1>4, <1>5, <1>6, <1>9, JobShift
<1>11. x \in ToForget
  BY <1>3, <1>4, <1>5 DEF ToForget
<1>12. HeapInv'
  BY <1>0, <1>6, <1>10, <1>11, StepErase
<1> QED
  BY <1>6, <1>12

LEMMA SameReaches ==
  ASSUME HeapInv, UNCHANGED todo,
         \A j \in 1 .. Len(todo), c \in PendingCall :
           c = todo[j] => ReachOf(c)' = ReachOf(c) /\ (c.op = "remove" => Lookup(c.addr)' = Lookup(c.addr))
  PROVE  /\ \A j \in 1 .. Len(todo) : Reach(j)' = Reach(j)
         /\ \A j \in 1 .. Len(todo) :
              todo[j].op = "remove" => (Lookup(todo[j].addr))' = Lookup(todo[j].addr)
<1> SUFFICES ASSUME NEW j \in 1 .. Len(todo)
             PROVE  /\ Reach(j)' = Reach(j)
                    /\ todo[j].op = "remove" => (Lookup(todo[j].addr))' = Lookup(todo[j].addr)
  OBVIOUS
<1>1. PICK c \in PendingCall : c = todo[j]
  BY PendingFields DEF HeapInv, HeapTyped
<1>2. j # 0 /\ Reach(j) = ReachOf(c) /\ (todo[j])' = c
  <2>1. j # 0
    BY DEF HeapInv, HeapTyped, HeapTypeOK
  <2> QED
    BY <1>1, <2>1 DEF Reach
<1>3. ReachOf(c)' = ReachOf(c) /\ (c.op = "remove" => Lookup(c.addr)' = Lookup(c.addr))
  BY <1>1
<1>4. Reach(j)' = ReachOf(c)'
  BY <1>2 DEF Reach, ReachOf, Width, Elems, Elem, Lookup, InfoOf, FindEntry
<1>5. (Lookup(todo[j].addr))' = Lookup(c.addr)'
  BY <1>2 DEF Lookup, InfoOf, FindEntry
<1> QED
  BY <1>1, <1>2, <1>3, <1>4, <1>5

LEMMA RunningCall ==
  ASSUME HeapInv, call.op \in {"update", "remove"}, call.i < call.n
  PROVE  /\ Element \in Addr /\ Element \in Reach(0) /\ 0 \in Jobs
         /\ Registering(0) => /\ ToForget = {} /\ call.info \in Info /\ Lookup(Element) = NoInfo
                              /\ \E s \in Traced : s.addr = Element /\ Fits(call.info, s)
<1>1. /\ call \in ArrayCall /\ call.i \in 0 .. call.n - 1 /\ call # Idle /\ TypeOK /\ call.i \in Nat
      /\ call.n \in Nat /\ Len(todo) \in Nat
  BY CountAssumption DEF HeapInv, HeapTyped, HeapTypeOK, TypeOK, Idle, ArrayCall
<1>2. 0 \in Jobs /\ \A j \in Jobs : j = 0 \/ 0 < j
  BY <1>1 DEF Jobs
<1>3. Element \in Addr /\ Element \in Reach(0)
  <2>1. call.i \in call.i .. call.n - 1
    BY <1>1
  <2> QED
    BY <1>1, <2>1, ElementInCall DEF Element, Reach, Rest
<1>4. ASSUME Registering(0)
      PROVE  ToForget = {} /\ call.info \in Info
  <2>1. ToForget = {}
    BY <1>2, <1>4 DEF HeapInv, Schedule, InOrder, ToForget
  <2>2. call.op = "update"
    BY <1>4 DEF Registering
  <2> QED
    BY <1>1, <2>1, <2>2 DEF TypeOK, ArrayCall
<1>5. ASSUME Registering(0)
      PROVE  Lookup(Element) = NoInfo
  <2>1. Element \in ToRegister
    BY <1>2, <1>3, <1>5 DEF ToRegister
  <2> QED
    BY <1>3, <1>4, <1>5, <2>1 DEF HeapInv, NoneLeft
<1>6. ASSUME Registering(0)
      PROVE  \E s \in Traced : s.addr = Element /\ Fits(call.info, s)
  BY <1>2, <1>3, <1>6 DEF HeapInv, Schedule, Owed, InfoOfJob
<1> QED
  BY <1>2, <1>3, <1>4, <1>5, <1>6

(* __update_oinfo registers one element.                                    *)
LEMMA ElementUpdated ==
  ASSUME HeapInv, KeysDistinct, HeapTyped', UpdateElem, UNCHANGED <<block, todo>>
  PROVE  HeapInv' /\ \E x \in Addr, info \in Info : Store(x, info) /\ Lookup(x) = NoInfo
<1>1. call.op = "update" /\ call.i < call.n /\ Registering(0) /\ Traced' = Traced /\ NextElement
  BY SameBlocks DEF UpdateElem, Registering
<1>2. PICK x \in Addr, info \in Info : x = Element /\ info = call.info
  BY <1>1, RunningCall
<1>3. Store(x, info) /\ Lookup(x) = NoInfo /\ ToForget = {} /\ x \in Reach(0) /\ 0 \in Jobs
  BY <1>1, <1>2, RunningCall DEF UpdateElem
<1>4. \A y \in Addr : y # x => Lookup(y)' = Lookup(y)
  BY <1>3, StoreLookup DEF HeapInv, HeapTyped, HeapTypeOK
<1>5. \A j \in 1 .. Len(todo), c \in PendingCall :
         c = todo[j] => ReachOf(c)' = ReachOf(c) /\ (c.op = "remove" => Lookup(c.addr)' = Lookup(c.addr))
  <2>1. \A j \in 1 .. Len(todo) : 0 < j
    BY DEF HeapInv, HeapTyped, HeapTypeOK
  <2> QED
    BY <1>3, <1>4, <2>1, LaterJobs
<1>6. /\ \A j \in 1 .. Len(todo) : Reach(j)' = Reach(j)
      /\ \A j \in 1 .. Len(todo) :
           todo[j].op = "remove" => (Lookup(todo[j].addr))' = Lookup(todo[j].addr)
  BY <1>5, SameReaches
<1>7. Schedule' /\ x \in ToRegister /\ ToRegister' = ToRegister \ {x} /\ ToForget' = ToForget
  BY <1>1, <1>2, <1>6, JobShrink
<1>8. PICK s \in Traced : s.addr = x /\ Fits(info, s)
  BY <1>1, <1>2, RunningCall
<1>9. HeapInv'
  BY <1>1, <1>3, <1>7, <1>8, StepRegister
<1> QED
  BY <1>3, <1>9

(* __remove_oinfo forgets one element.                                      *)
LEMMA ElementRemoved ==
  ASSUME HeapInv, KeysDistinct, HeapTyped', RemoveElem, UNCHANGED <<block, todo>>
  PROVE  HeapInv' /\ \E x \in Addr : Erase(x)
<1>1. call.op = "remove" /\ call.i < call.n /\ ~Registering(0) /\ Traced' = Traced /\ NextElement
  BY SameBlocks DEF RemoveElem, Registering
<1>2. PICK x \in Addr : x = Element
  BY <1>1, RunningCall
<1>3. Erase(x) /\ x \in Reach(0) /\ 0 \in Jobs
  BY <1>1, <1>2, RunningCall DEF RemoveElem
<1>4. \A y \in Addr : y # x => Lookup(y)' = Lookup(y)
  BY <1>3, EraseLookup DEF HeapInv, HeapTyped, HeapTypeOK
<1>5. \A j \in 1 .. Len(todo), c \in PendingCall :
         c = todo[j] => ReachOf(c)' = ReachOf(c) /\ (c.op = "remove" => Lookup(c.addr)' = Lookup(c.addr))
  <2>1. \A j \in 1 .. Len(todo) : 0 < j
    BY DEF HeapInv, HeapTyped, HeapTypeOK
  <2> QED
    BY <1>3, <1>4, <2>1, LaterJobs
<1>6. /\ \A j \in 1 .. Len(todo) : Reach(j)' = Reach(j)
      /\ \A j \in 1 .. Len(todo) :
           todo[j].op = "remove" => (Lookup(todo[j].addr))' = Lookup(todo[j].addr)
  BY <1>5, SameReaches
<1>7. /\ Schedule' /\ x \in ToForget /\ ToRegister' = ToRegister
      /\ ToForget \ {x} \subseteq ToForget' /\ ToForget' \subseteq ToForget
  BY <1>1, <1>2, <1>6, JobShrink
<1>8. HeapInv'
  BY <1>1, <1>3, <1>7, StepErase
<1> QED
  BY <1>3, <1>8

(* A call that is over leaves nothing to do. *)
LEMMA CallReturns ==
  ASSUME HeapInv, HeapTyped', Return, UNCHANGED <<block, todo>>
  PROVE  HeapInv'
<1>1. UNCHANGED <<slot, tree>> /\ call' = Idle /\ call # Idle /\ call.i >= call.n /\ Traced' = Traced
  BY SameBlocks DEF Return, Idle
<1>2. Rest = {} /\ Rest' = {} /\ ~Registering(0)'
  <2>1. call.i .. call.n - 1 = {}
    BY <1>1 DEF HeapInv, HeapTyped, HeapTypeOK, TypeOK, ArrayCall
  <2>2. Rest' = {} /\ ~Registering(0)'
    BY <1>1 DEF Rest, Idle, Registering
  <2> QED
    BY <2>1, <2>2 DEF Rest
<1>3. \A d : ReachOf(d)' = ReachOf(d) /\ (d.op = "remove" => Lookup(d.addr)' = Lookup(d.addr))
  BY <1>1, SameReach, SameTables
<1>4. /\ \A j \in 1 .. Len(todo) : Reach(j)' = Reach(j)
      /\ \A j \in 1 .. Len(todo) :
           todo[j].op = "remove" => (Lookup(todo[j].addr))' = Lookup(todo[j].addr)
  BY <1>3, SameReaches
<1>5. /\ Jobs' = Jobs /\ Reach(0) = {} /\ Reach(0)' = {}
      /\ \A j \in Jobs : /\ Reach(j)' = Reach(j)
                         /\ j # 0 => /\ Registering(j)' <=> Registering(j)
                                     /\ InfoOfJob(j)' = InfoOfJob(j)
  <2>1. \A j \in Jobs : j = 0 \/ j \in 1 .. Len(todo)
    BY DEF Jobs, HeapInv, HeapTyped, HeapTypeOK
  <2>2. Reach(0) = {} /\ Reach(0)' = {}
    BY <1>2 DEF Reach
  <2>3. \A j \in Jobs : j # 0 => (Registering(j)' <=> Registering(j)) /\ InfoOfJob(j)' = InfoOfJob(j)
    BY DEF Registering, Adds, InfoOfJob, InfoDue
  <2>4. Jobs' = Jobs
    BY DEF Jobs
  <2> QED
    BY <1>4, <2>1, <2>2, <2>3, <2>4
<1>6. InOrder'
  <2>1. \A j \in Jobs, i \in Jobs : i < j => j # 0
    BY DEF Jobs, HeapInv, HeapTyped, HeapTypeOK
  <2> QED
    BY <1>2, <1>5, <2>1 DEF HeapInv, Schedule, InOrder
<1>7. Apart'
  BY <1>5 DEF HeapInv, Schedule, Apart
<1>8. Distinct'
  BY <1>1 DEF HeapInv, Schedule, Distinct, OneEach, Elem, Idle
<1>9. ToBeFound'
  BY <1>4 DEF HeapInv, Schedule, ToBeFound
<1>10. Owed'
  BY <1>1, <1>2, <1>5 DEF HeapInv, Schedule, Owed, Fits
<1>11. ToRegister' = ToRegister /\ ToForget' = ToForget
  BY <1>5 DEF ToRegister, ToForget
<1> QED
  BY <1>1, <1>6, <1>7, <1>8, <1>9, <1>10, <1>11, StepQuiet DEF Schedule

(* A look-up changes nothing that matters.                                  *)
LEMMA NothingDone ==
  ASSUME HeapInv, HeapTyped', UNCHANGED <<slot, tree, call, block, todo>>
  PROVE  HeapInv'
<1>1. Traced' = Traced
  BY SameBlocks
<1>2. \A d : ReachOf(d)' = ReachOf(d) /\ (d.op = "remove" => Lookup(d.addr)' = Lookup(d.addr))
  BY SameReach, SameTables
<1>3. /\ \A j \in 1 .. Len(todo) : Reach(j)' = Reach(j)
      /\ \A j \in 1 .. Len(todo) :
           todo[j].op = "remove" => (Lookup(todo[j].addr))' = Lookup(todo[j].addr)
  BY <1>2, SameReaches
<1>4. /\ Jobs' = Jobs
      /\ \A j \in Jobs : /\ Reach(j)' = Reach(j) /\ (Registering(j)' <=> Registering(j))
                         /\ InfoOfJob(j)' = InfoOfJob(j)
  <2>1. \A j \in Jobs : j = 0 \/ j \in 1 .. Len(todo)
    BY DEF Jobs, HeapInv, HeapTyped, HeapTypeOK
  <2>2. Reach(0)' = Reach(0)
    BY DEF Reach, Rest, Elem
  <2>3. \A j \in Jobs : (Registering(j)' <=> Registering(j)) /\ InfoOfJob(j)' = InfoOfJob(j)
    BY DEF Registering, Adds, InfoOfJob, InfoDue
  <2>4. Jobs' = Jobs
    BY DEF Jobs
  <2> QED
    BY <1>3, <2>1, <2>2, <2>3, <2>4
<1>5. InOrder' /\ Apart'
  BY <1>4 DEF HeapInv, Schedule, InOrder, Apart
<1>6. Distinct'
  BY DEF HeapInv, Schedule, Distinct, OneEach, Elem
<1>7. ToBeFound'
  BY <1>3 DEF HeapInv, Schedule, ToBeFound
<1>8. Owed'
  BY <1>1, <1>4 DEF HeapInv, Schedule, Owed, Fits
<1>9. ToRegister' = ToRegister /\ ToForget' = ToForget
  BY <1>4 DEF ToRegister, ToForget
<1> QED
  BY <1>1, <1>5, <1>6, <1>7, <1>8, <1>9, StepQuiet DEF Schedule
-----------------------------------------------------------------------------
(* The program's own steps: what is known of Old is to be forgotten, what   *)
(* is to be known of New is to be registered.                               *)

Plans(s, Old, New) ==
  /\ \A i, j \in 1 .. Len(s) : i < j /\ Adds(s[i]) => Adds(s[j])
  /\ \A i, j \in 1 .. Len(s) :
       i # j /\ (Adds(s[i]) <=> Adds(s[j])) => ReachOf(s[i]) \cap ReachOf(s[j]) = {}
  /\ \A j \in 1 .. Len(s) : s[j].op = "update" => OneEach(s[j].addr, s[j].size, s[j].n)
  /\ \A j \in 1 .. Len(s) :
       s[j].op = "remove" => Lookup(s[j].addr) # NoInfo /\ Lookup(s[j].addr).count > 0
  /\ \A j \in 1 .. Len(s) : Adds(s[j]) =>
       \A x \in ReachOf(s[j]) : \E r \in New :
         r.addr = x /\ Fits(InfoDue(s[j]), r) /\ (s[j].op = "add" => r.n = 0)
  /\ \A r \in New : \E j \in 1 .. Len(s) : Adds(s[j]) /\ r.addr \in ReachOf(s[j])
  /\ \A r \in Old : \E j \in 1 .. Len(s) : ~Adds(s[j]) /\ r.addr \in ReachOf(s[j])
  /\ \A j \in 1 .. Len(s) : ~Adds(s[j]) => \A x \in ReachOf(s[j]) : \E r \in Old : r.addr = x

(* A step of the program that emits a plan for what it changes keeps the    *)
(* invariant.                                                               *)
LEMMA ProgramStep ==
  ASSUME HeapInv, AtProgram, HeapTyped', UNCHANGED vars, NEW s \in Seq(PendingCall), todo' = s,
         NEW Old, NEW New, Old \subseteq Traced, Traced' = (Traced \ Old) \cup New,
         \A r \in New : r.addr \in Addr /\ \A q \in Traced \ Old : r.addr # q.addr,
         Plans(s, Old, New)
  PROVE  HeapInv'
<1> DEFINE n == Len(s)
<1>1. /\ n \in Nat /\ Jobs' = 0 .. n /\ call' = Idle /\ call = Idle /\ UNCHANGED <<slot, tree>>
      /\ todo = <<>> /\ \A j \in 1 .. n : j # 0
  BY DEF Jobs, AtProgram, vars
<1>2. Reach(0)' = {} /\ ~Registering(0)'
  BY <1>1 DEF Reach, Rest, Idle, Registering
<1>3. ASSUME NEW j \in 1 .. n
      PROVE  /\ Reach(j)' = ReachOf(s[j]) /\ (Registering(j)' <=> Adds(s[j]))
             /\ InfoOfJob(j)' = InfoDue(s[j]) /\ (todo[j])' = s[j]
             /\ (Lookup(todo[j].addr))' = Lookup(s[j].addr)
  <2>1. PICK c : c = s[j]
    OBVIOUS
  <2>2. (todo[j])' = c
    BY <2>1
  <2>3. ReachOf(c)' = ReachOf(c) /\ Lookup(c.addr)' = Lookup(c.addr)
    BY <1>1, SameReach, SameTables
  <2>4. Reach(j)' = ReachOf(c)'
    BY <1>1, <2>2 DEF Reach, ReachOf, Width, Elems, Elem, Lookup, InfoOf, FindEntry
  <2>5. (Lookup(todo[j].addr))' = Lookup(c.addr)'
    BY <2>2 DEF Lookup, InfoOf, FindEntry
  <2>6. (Registering(j)' <=> Adds(c)) /\ InfoOfJob(j)' = InfoDue(c)
    BY <1>1, <2>2 DEF Registering, Adds, InfoOfJob, InfoDue
  <2> QED
    BY <2>1, <2>2, <2>3, <2>4, <2>5, <2>6
<1>4. \A j \in Jobs' : j = 0 \/ j \in 1 .. n
  BY <1>1
<1>5. \A j \in 1 .. n : j \in Jobs'
  BY <1>1
<1>6. ToRegister = {} /\ ToForget = {}
  <2>1. Jobs = {0} /\ Reach(0) = {}
    BY <1>1, IdleReach DEF Jobs, Reach
  <2> QED
    BY <2>1 DEF ToRegister, ToForget
<1>7. InOrder'
  <2> SUFFICES ASSUME NEW i \in Jobs', NEW j \in Jobs', i < j, Registering(i)' PROVE Registering(j)'
    BY DEF InOrder
  <2>1. i \in 1 .. n /\ j \in 1 .. n
    BY <1>1, <1>2, <1>4
  <2> QED
    BY <1>3, <2>1 DEF Plans
<1>8. Apart'
  <2> SUFFICES ASSUME NEW i \in Jobs', NEW j \in Jobs', i # j, Registering(i)' <=> Registering(j)',
                      NEW x \in Reach(i)', x \in Reach(j)'
               PROVE  FALSE
    BY DEF Apart
  <2>1. i \in 1 .. n /\ j \in 1 .. n
    BY <1>2, <1>4
  <2>2. (Adds(s[i]) <=> Adds(s[j])) /\ x \in ReachOf(s[i]) /\ x \in ReachOf(s[j])
    BY <1>3, <2>1
  <2>3. ReachOf(s[i]) \cap ReachOf(s[j]) = {}
    BY <2>1, <2>2 DEF Plans
  <2> QED
    BY <2>2, <2>3
<1>9. Distinct'
  <2>1. ASSUME NEW j \in 1 .. n, (todo[j])'.op = "update"
        PROVE  OneEach(todo[j].addr, todo[j].size, todo[j].n)'
    <3>1. OneEach(s[j].addr, s[j].size, s[j].n) /\ (todo[j])' = s[j]
      BY <1>3, <2>1 DEF Plans
    <3> QED
      BY <3>1 DEF OneEach, Elem
  <2> QED
    BY <1>1, <2>1 DEF Distinct, Idle
<1>10. ToBeFound'
  BY <1>3 DEF ToBeFound, Plans
<1>11. Owed'
  <2> SUFFICES ASSUME NEW j \in Jobs', Registering(j)', NEW x \in Reach(j)'
               PROVE  \E r \in Traced' : /\ r.addr = x /\ Fits(InfoOfJob(j)', r)
                                         /\ j # 0 /\ (todo[j])'.op = "add" => r.n = 0
    BY DEF Owed, Fits
  <2>1. j \in 1 .. n
    BY <1>2, <1>4
  <2>2. Adds(s[j]) /\ x \in ReachOf(s[j]) /\ (todo[j])' = s[j] /\ InfoOfJob(j)' = InfoDue(s[j])
    BY <1>3, <2>1
  <2>3. PICK r \in New : r.addr = x /\ Fits(InfoDue(s[j]), r) /\ (s[j].op = "add" => r.n = 0)
    BY <2>1, <2>2 DEF Plans
  <2> QED
    BY <2>2, <2>3
<1>12. ASSUME NEW r \in New
       PROVE  r.addr \in ToRegister'
  <2>1. PICK j \in 1 .. n : Adds(s[j]) /\ r.addr \in ReachOf(s[j])
    BY DEF Plans
  <2> QED
    BY <1>3, <1>5, <2>1 DEF ToRegister
<1>13. \A x \in ToRegister' : \E r \in New : r.addr = x
  <2> SUFFICES ASSUME NEW x \in ToRegister' PROVE \E r \in New : r.addr = x
    OBVIOUS
  <2>1. PICK j \in Jobs' : Registering(j)' /\ x \in Reach(j)'
    BY DEF ToRegister
  <2>2. j \in 1 .. n
    BY <1>2, <1>4, <2>1
  <2> QED
    BY <1>3, <2>1, <2>2 DEF Plans
<1>14. ASSUME NEW r \in Old
       PROVE  r.addr \in ToForget'
  <2>1. PICK j \in 1 .. n : ~Adds(s[j]) /\ r.addr \in ReachOf(s[j])
    BY DEF Plans
  <2>2. r.addr \in Addr
    BY TracedUnique DEF HeapInv
  <2> QED
    BY <1>3, <1>5, <2>1, <2>2 DEF ToForget
<1>15. \A x \in ToForget' : \E r \in Old : r.addr = x
  <2> SUFFICES ASSUME NEW x \in ToForget' PROVE \E r \in Old : r.addr = x
    OBVIOUS
  <2>1. PICK j \in Jobs' : ~Registering(j)' /\ x \in Reach(j)'
    BY DEF ToForget
  <2>2. j \in 1 .. n
    BY <1>2, <1>4, <2>1
  <2> QED
    BY <1>3, <2>1, <2>2 DEF Plans
<1>16. \A y : Lookup(y)' = Lookup(y)
  BY <1>1, SameTables
<1>17. NoneMissing'
  <2> SUFFICES ASSUME NEW r \in Traced', r.addr \notin ToRegister'
               PROVE  r.addr \notin ToForget' /\ Fits(Lookup(r.addr)', r)
    BY DEF NoneMissing, Fits
  <2>1. r \in Traced \ Old
    BY <1>12
  <2>2. Fits(Lookup(r.addr), r)
    BY <1>6, <2>1 DEF HeapInv, NoneMissing
  <2>3. r.addr \notin ToForget'
    BY <1>15, <2>1, TracedUnique DEF HeapInv
  <2> QED
    BY <1>16, <2>2, <2>3
<1>18. NoneLeft'
  <2> SUFFICES ASSUME NEW x \in Addr, Lookup(x)' # NoInfo, x \notin ToForget'
               PROVE  x \notin ToRegister' /\ \E r \in Traced' : r.addr = x
    BY DEF NoneLeft
  <2>1. PICK r \in Traced : r.addr = x
    BY <1>6, <1>16 DEF HeapInv, NoneLeft
  <2>2. r \in Traced \ Old
    BY <1>14, <2>1
  <2> QED
    BY <1>13, <2>1, <2>2
<1>19. EntriesAtHome' /\ OneHome'
  BY <1>1 DEF HeapInv, EntriesAtHome, OneHome
<1> QED
  BY <1>7, <1>8, <1>9, <1>10, <1>11, <1>17, <1>18, <1>19 DEF HeapInv, Schedule

(* When nothing is left to do, the map is exact.                            *)
LEMMA AllKnown ==
  ASSUME HeapInv, AtProgram
  PROVE  /\ \A s \in Traced : Fits(Lookup(s.addr), s)
         /\ \A x \in Addr : Lookup(x) # NoInfo => \E s \in Traced : s.addr = x
<1>1. Jobs = {0} /\ Reach(0) = {}
  BY IdleReach DEF AtProgram, Jobs, Reach
<1>2. ToRegister = {} /\ ToForget = {}
  BY <1>1 DEF ToRegister, ToForget
<1> QED
  BY <1>2 DEF HeapInv, NoneMissing, NoneLeft

Spots(a, t, k, n) == {Spot(a, t, k, i) : i \in 0 .. n - 1}
Objects(a, t, n, count) == {Object(a, t, k, i, count) : k \in DOMAIN Elements[t], i \in 0 .. n - 1}

LEMMA KnownObjects ==
  ASSUME NEW a, NEW blk
  PROVE  Known(a, blk) = Objects(a, blk.type, Extent(blk), Count(blk))
BY DEF Known, Objects

LEMMA ObjectOf ==
  ASSUME NEW a, NEW t, NEW n, NEW count, NEW k \in DOMAIN Elements[t], NEW i \in 0 .. n - 1
  PROVE  Object(a, t, k, i, count) \in Objects(a, t, n, count)
BY DEF Objects

LEMMA ObjectFields ==
  ASSUME NEW a, NEW t, NEW k, NEW i, NEW count, NEW r, r = Object(a, t, k, i, count)
  PROVE  /\ r.addr = Spot(a, t, k, i) /\ r.type = Elements[t][k].type
         /\ r.offset = Elements[t][k].offset /\ r.n = count
BY DEF Object

LEMMA ObjectPlace ==
  ASSUME NEW a, NEW t, NEW n, NEW count, NEW r \in Objects(a, t, n, count)
  PROVE  \E k \in DOMAIN Elements[t] : r.addr \in Spots(a, t, k, n)
<1>1. PICK k \in DOMAIN Elements[t], i \in 0 .. n - 1 : r = Object(a, t, k, i, count)
  BY DEF Objects
<1>2. r.addr = Spot(a, t, k, i)
  BY <1>1, ObjectFields
<1> QED
  BY <1>2 DEF Spots

LEMMA InfoFits ==
  ASSUME NEW t \in Type, NEW k \in DOMAIN Elements[t], NEW n \in 0 .. MaxCount, NEW r,
         r.type = Elements[t][k].type, r.offset = Elements[t][k].offset, r.n = 0 \/ r.n = n
  PROVE  Fits([type |-> Elements[t][k].type, offset |-> Elements[t][k].offset, count |-> n], r)
<1> DEFINE info == [type |-> Elements[t][k].type, offset |-> Elements[t][k].offset, count |-> n]
<1>1. Elements[t][k].type \in Type /\ Elements[t][k].offset \in Offset
  BY ElementsLaidOut
<1>2. info \in Info
  BY <1>1 DEF Info
<1>3. info # NoInfo
  BY <1>2, NoInfoAssumption
<1> QED
  BY <1>3 DEF Fits

(* An array call for one subobject reaches it in every element.             *)
LEMMA ArrayReach ==
  ASSUME NEW a \in Addr, NEW t \in Type, NEW bytes \in 1 .. MaxBytes, Cells(a, bytes) \subseteq Addr,
         NEW k \in DOMAIN Elements[t], NEW c, c.addr = a + Elements[t][k].offset, c.size = TypeSize[t],
         Width(c) = ArraySize(t, bytes)
  PROVE  /\ ReachOf(c) = Spots(a, t, k, ArraySize(t, bytes))
         /\ OneEach(c.addr, c.size, ArraySize(t, bytes))
<1>1. \A i \in 0 .. ArraySize(t, bytes) - 1 : Elem(c.addr, c.size, i) = Spot(a, t, k, i)
  BY SpotInside
<1>2. ReachOf(c) = Spots(a, t, k, ArraySize(t, bytes))
  BY <1>1 DEF ReachOf, Elems, Spots
<1>3. \A i \in 0 .. ArraySize(t, bytes) - 1 : i \in Nat
  BY ExtentBound
<1>4. \A i, j \in 0 .. ArraySize(t, bytes) - 1 : Spot(a, t, k, i) = Spot(a, t, k, j) => i = j
  BY <1>3, SpotUnique
<1> QED
  BY <1>1, <1>2, <1>4 DEF OneEach

LEMMA SpotsApart ==
  ASSUME NEW a \in Addr, NEW t \in Type, NEW bytes \in 1 .. MaxBytes,
         NEW j \in DOMAIN Elements[t], NEW k \in DOMAIN Elements[t], j # k
  PROVE  Spots(a, t, j, ArraySize(t, bytes)) \cap Spots(a, t, k, ArraySize(t, bytes)) = {}
<1>1. \A i \in 0 .. ArraySize(t, bytes) - 1 : i \in Nat
  BY ExtentBound
<1>2. \A i, l \in 0 .. ArraySize(t, bytes) - 1 : Spot(a, t, j, i) # Spot(a, t, k, l)
  BY <1>1, SpotUnique
<1> QED
  BY <1>2 DEF Spots

OnlyAdds(s) == \A j \in 1 .. Len(s) : s[j].op \in {"update", "add"}
OnlyDels(s) == \A j \in 1 .. Len(s) : s[j].op \in {"remove", "del"}
AllDistinct(s) == \A j \in 1 .. Len(s) : s[j].op = "update" => OneEach(s[j].addr, s[j].size, s[j].n)
AllFound(s) ==
  \A j \in 1 .. Len(s) : s[j].op = "remove" => Lookup(s[j].addr) # NoInfo /\ Lookup(s[j].addr).count > 0
AllApart(s) == \A i, j \in 1 .. Len(s) : i # j => ReachOf(s[i]) \cap ReachOf(s[j]) = {}
Supplied(c, x, R) == \E r \in R : r.addr = x /\ Fits(InfoDue(c), r) /\ (c.op = "add" => r.n = 0)
Supplies(s, R) == \A j \in 1 .. Len(s) : \A x \in ReachOf(s[j]) : Supplied(s[j], x, R)
Within(s, R) == \A j \in 1 .. Len(s) : \A x \in ReachOf(s[j]) : \E r \in R : r.addr = x
Covers(s, R) == \A r \in R : \E j \in 1 .. Len(s) : r.addr \in ReachOf(s[j])

(* Calls that register R, each address of it once.                          *)
LEMMA AddsPlan ==
  ASSUME NEW s, NEW R, OnlyAdds(s), AllDistinct(s), AllApart(s), Supplies(s, R), Covers(s, R)
  PROVE  Plans(s, {}, R)
<1>1. \A j \in 1 .. Len(s) : Adds(s[j]) /\ s[j].op # "remove"
  BY DEF Adds, OnlyAdds
<1> QED
  BY <1>1 DEF Plans, AllDistinct, AllApart, Supplies, Supplied, Covers

(* Calls that forget R, each address of it once.                            *)
LEMMA DelsPlan ==
  ASSUME NEW s, NEW R, OnlyDels(s), AllFound(s), AllApart(s), Within(s, R), Covers(s, R)
  PROVE  Plans(s, R, {})
<1>1. \A j \in 1 .. Len(s) : ~Adds(s[j]) /\ s[j].op # "update"
  BY DEF Adds, OnlyDels
<1> QED
  BY <1>1 DEF Plans, AllFound, AllApart, Within, Covers

(* One __update_oinfo for one subobject of a block of n objects.            *)
LEMMA UpdateCall ==
  ASSUME NEW a \in Addr, NEW t \in Type, NEW bytes \in 1 .. MaxBytes, Cells(a, bytes) \subseteq Addr,
         NEW k \in DOMAIN Elements[t], NEW n, n = ArraySize(t, bytes), NEW c,
         c.addr = a + Elements[t][k].offset, c.size = TypeSize[t], c.n = n, c.op = "update",
         c.type = Elements[t][k].type, c.offset = Elements[t][k].offset
  PROVE  /\ c.op = "update" /\ OneEach(c.addr, c.size, c.n) /\ ReachOf(c) = Spots(a, t, k, n)
         /\ \A x \in ReachOf(c) : Supplied(c, x, Objects(a, t, n, n))
<1>1. /\ c.addr = a + Elements[t][k].offset /\ c.size = TypeSize[t] /\ c.n = n /\ c.op = "update"
      /\ c.type = Elements[t][k].type /\ c.offset = Elements[t][k].offset
  OBVIOUS
<1>2. Width(c) = n
  BY DEF Width
<1>3. ReachOf(c) = Spots(a, t, k, n) /\ OneEach(c.addr, c.size, c.n)
  BY <1>1, <1>2, ArrayReach
<1>4. n \in 0 .. MaxCount /\ n \in Nat
  BY ExtentBound, CountAssumption
<1>5. ASSUME NEW x \in ReachOf(c)
      PROVE  Supplied(c, x, Objects(a, t, n, n))
  <2>1. PICK i \in 0 .. n - 1 : x = Spot(a, t, k, i)
    BY <1>3, <1>5 DEF Spots
  <2> DEFINE r == Object(a, t, k, i, n)
  <2>2. /\ r \in Objects(a, t, n, n) /\ r.addr = Spot(a, t, k, i) /\ r.type = Elements[t][k].type
        /\ r.offset = Elements[t][k].offset /\ r.n = n
    <3>1. r \in Objects(a, t, n, n)
      BY ObjectOf
    <3> QED
      BY <3>1, ObjectFields
  <2> HIDE DEF r
  <2>3. Fits([type |-> Elements[t][k].type, offset |-> Elements[t][k].offset, count |-> n], r)
    BY <1>4, <2>2, InfoFits
  <2> QED
    BY <1>1, <2>1, <2>2, <2>3 DEF InfoDue, Supplied
<1> QED
  BY <1>1, <1>3, <1>5

(* What insertUpdate emits registers the objects of the block.              *)
LEMMA UpdatesPlan ==
  ASSUME NEW a \in Addr, NEW t \in Type, NEW bytes \in 1 .. MaxBytes, Cells(a, bytes) \subseteq Addr,
         NEW n, n = ArraySize(t, bytes), n > 0, NEW s, s = EmitUpdates(a, t, n)
  PROVE  Plans(s, {}, Objects(a, t, n, n)) /\ s \in Seq(PendingCall)
<1>1. /\ s \in Seq(PendingCall) /\ Len(s) = Len(Elements[t])
      /\ \A k \in 1 .. Len(s) :
           s[k] = Call("update", a + Elements[t][k].offset, Elements[t][k].type,
                       Elements[t][k].offset, TypeSize[t], n)
  BY UpdatesEmitted
<1>2. DOMAIN Elements[t] = 1 .. Len(s) /\ n \in Nat
  BY <1>1, ElementsLaidOut, ExtentBound
<1>3. ASSUME NEW k \in 1 .. Len(s)
      PROVE  /\ s[k].op = "update" /\ OneEach(s[k].addr, s[k].size, s[k].n) /\ ReachOf(s[k]) = Spots(a, t, k, n)
             /\ \A x \in ReachOf(s[k]) : Supplied(s[k], x, Objects(a, t, n, n))
  <2>1. PICK c : c = s[k]
    OBVIOUS
  <2>2. c = Call("update", a + Elements[t][k].offset, Elements[t][k].type,
                 Elements[t][k].offset, TypeSize[t], n)
    BY <1>1, <2>1
  <2>3. /\ c.addr = a + Elements[t][k].offset /\ c.size = TypeSize[t] /\ c.n = n /\ c.op = "update"
        /\ c.type = Elements[t][k].type /\ c.offset = Elements[t][k].offset
    BY <2>2 DEF Call
  <2>4. /\ c.op = "update" /\ OneEach(c.addr, c.size, c.n) /\ ReachOf(c) = Spots(a, t, k, n)
        /\ \A x \in ReachOf(c) : Supplied(c, x, Objects(a, t, n, n))
    BY <1>2, <2>3, UpdateCall
  <2> QED
    BY <2>1, <2>4
<1>4. OnlyAdds(s) /\ AllDistinct(s)
  BY <1>3 DEF OnlyAdds, AllDistinct
<1>5. AllApart(s)
  <2>1. \A k \in 1 .. Len(s) : ReachOf(s[k]) = Spots(a, t, k, n)
    BY <1>3
  <2>2. \A j, k \in 1 .. Len(s) : j # k => Spots(a, t, j, n) \cap Spots(a, t, k, n) = {}
    BY <1>2, SpotsApart
  <2> QED
    BY <2>1, <2>2 DEF AllApart
<1>6. Supplies(s, Objects(a, t, n, n))
  BY <1>3 DEF Supplies
<1>7. Covers(s, Objects(a, t, n, n))
  <2> SUFFICES ASSUME NEW r \in Objects(a, t, n, n) PROVE \E k \in 1 .. Len(s) : r.addr \in ReachOf(s[k])
    BY DEF Covers
  <2>1. PICK k \in DOMAIN Elements[t] : r.addr \in Spots(a, t, k, n)
    BY ObjectPlace
  <2>2. k \in 1 .. Len(s) /\ r.addr \in Spots(a, t, k, n)
    BY <1>2, <2>1
  <2>3. ReachOf(s[k]) = Spots(a, t, k, n)
    BY <1>3, <2>2
  <2> QED
    BY <2>2, <2>3
<1> QED
  BY <1>1, <1>4, <1>5, <1>6, <1>7, AddsPlan

(* One __remove_oinfo for one subobject, while the map knows it.            *)
LEMMA RemoveCall ==
  ASSUME HeapInv, AtProgram, NEW a \in Allocated, block[a].kind = "heap",
         NEW t, t = block[a].type, NEW n, n = Extent(block[a]), NEW k \in DOMAIN Elements[t], NEW c,
         c.addr = a + Elements[t][k].offset, c.size = TypeSize[t], c.op = "remove"
  PROVE  /\ ReachOf(c) = Spots(a, t, k, n)
         /\ Lookup(c.addr) # NoInfo /\ Lookup(c.addr).count > 0
<1>1. a \in Addr /\ t \in Type /\ block[a].bytes \in 1 .. MaxBytes /\ n = ArraySize(t, block[a].bytes)
  BY BlockFields DEF Extent, HeapInv, HeapTyped
<1>2. Cells(a, block[a].bytes) \subseteq Addr /\ n > 0 /\ n \in Nat
  <2>1. Cells(a, block[a].bytes) \subseteq Addr /\ n > 0
    BY DEF HeapInv, HeapTyped, Blocks
  <2>2. n \in 0 .. MaxCount
    BY <1>1, ExtentBound
  <2> QED
    BY <2>1, <2>2, CountAssumption
<1>3. 0 \in 0 .. n - 1
  BY <1>2
<1> DEFINE r == Object(a, t, k, 0, n)
<1>4. r.addr = Spot(a, t, k, 0) /\ r.n = n
  BY ObjectFields
<1>5. r \in Traced
  <2>1. r \in Objects(a, t, n, n)
    BY <1>3, ObjectOf
  <2>2. Known(a, block[a]) = Objects(a, t, n, n)
    BY KnownObjects DEF Count
  <2> QED
    BY <2>1, <2>2 DEF Traced
<1> HIDE DEF r
<1>6. r.addr = c.addr
  BY <1>1, <1>2, <1>4, FirstSpot
<1>7. Lookup(c.addr) # NoInfo /\ Lookup(c.addr).count = n
  BY <1>2, <1>4, <1>5, <1>6, AllKnown DEF Fits
<1>8. Width(c) = ArraySize(t, block[a].bytes)
  BY <1>1, <1>7 DEF Width
<1>9. ReachOf(c) = Spots(a, t, k, n)
  BY <1>1, <1>2, <1>8, ArrayReach
<1> QED
  BY <1>2, <1>7, <1>9

(* What insertRemove emits forgets the objects of the block, all of them,   *)
(* though it passes 1 for their number.                                     *)
LEMMA RemovesPlan ==
  ASSUME HeapInv, AtProgram, NEW a \in Allocated, block[a].kind = "heap",
         NEW t, t = block[a].type, NEW n, n = Extent(block[a]), NEW s, s = EmitRemoves(a, t)
  PROVE  Plans(s, Objects(a, t, n, n), {}) /\ s \in Seq(PendingCall)
<1>1. a \in Addr /\ t \in Type /\ block[a].bytes \in 1 .. MaxBytes /\ n = ArraySize(t, block[a].bytes)
  BY BlockFields DEF Extent, HeapInv, HeapTyped
<1>2. Cells(a, block[a].bytes) \subseteq Addr /\ n > 0 /\ n \in Nat
  <2>1. Cells(a, block[a].bytes) \subseteq Addr /\ n > 0
    BY DEF HeapInv, HeapTyped, Blocks
  <2>2. n \in 0 .. MaxCount
    BY <1>1, ExtentBound
  <2> QED
    BY <2>1, <2>2, CountAssumption
<1>3. /\ s \in Seq(PendingCall) /\ Len(s) = Len(Elements[t])
      /\ \A k \in 1 .. Len(s) :
           s[k] = Call("remove", a + Elements[t][k].offset, Elements[t][k].type,
                       Elements[t][k].offset, TypeSize[t], 1)
  <2>1. ArraySize(t, block[a].bytes) > 0
    BY <1>1, <1>2
  <2> QED
    BY <1>1, <1>2, <2>1, RemovesEmitted
<1>4. DOMAIN Elements[t] = 1 .. Len(s)
  BY <1>1, <1>3, ElementsLaidOut
<1>5. ASSUME NEW k \in 1 .. Len(s)
      PROVE  /\ ReachOf(s[k]) = Spots(a, t, k, n) /\ s[k].op = "remove"
             /\ Lookup(s[k].addr) # NoInfo /\ Lookup(s[k].addr).count > 0
  <2>1. PICK c : c = s[k]
    OBVIOUS
  <2>2. c.addr = a + Elements[t][k].offset /\ c.size = TypeSize[t] /\ c.op = "remove"
    <3>1. c = Call("remove", a + Elements[t][k].offset, Elements[t][k].type,
                   Elements[t][k].offset, TypeSize[t], 1)
      BY <1>3, <2>1
    <3> QED
      BY <3>1 DEF Call
  <2>3. ReachOf(c) = Spots(a, t, k, n) /\ Lookup(c.addr) # NoInfo /\ Lookup(c.addr).count > 0
    BY <1>4, <2>2, RemoveCall
  <2> QED
    BY <2>1, <2>2, <2>3
<1>6. OnlyDels(s) /\ AllFound(s)
  BY <1>5 DEF OnlyDels, AllFound
<1>7. \A k \in 1 .. Len(s) : ReachOf(s[k]) = Spots(a, t, k, n)
  BY <1>5
<1>8. AllApart(s)
  <2>1. \A j, k \in 1 .. Len(s) : j # k => Spots(a, t, j, n) \cap Spots(a, t, k, n) = {}
    BY <1>1, <1>4, SpotsApart
  <2> QED
    BY <1>7, <2>1 DEF AllApart
<1>9. Within(s, Objects(a, t, n, n))
  <2> SUFFICES ASSUME NEW k \in 1 .. Len(s), NEW x \in ReachOf(s[k])
               PROVE  \E r \in Objects(a, t, n, n) : r.addr = x
    BY DEF Within
  <2>1. PICK i \in 0 .. n - 1 : x = Spot(a, t, k, i)
    <3>1. x \in Spots(a, t, k, n)
      BY <1>7
    <3> QED
      BY <3>1 DEF Spots
  <2>2. k \in DOMAIN Elements[t]
    BY <1>4
  <2> DEFINE r == Object(a, t, k, i, n)
  <2>3. r \in Objects(a, t, n, n)
    BY <2>2, ObjectOf
  <2>4. r.addr = Spot(a, t, k, i)
    BY ObjectFields
  <2> HIDE DEF r
  <2> QED
    BY <2>1, <2>3, <2>4
<1>10. Covers(s, Objects(a, t, n, n))
  <2> SUFFICES ASSUME NEW r \in Objects(a, t, n, n) PROVE \E k \in 1 .. Len(s) : r.addr \in ReachOf(s[k])
    BY DEF Covers
  <2>1. PICK k \in DOMAIN Elements[t] : r.addr \in Spots(a, t, k, n)
    BY ObjectPlace
  <2>2. k \in 1 .. Len(s) /\ r.addr \in Spots(a, t, k, n)
    BY <1>4, <2>1
  <2> QED
    BY <1>7, <2>2
<1> QED
  BY <1>3, <1>6, <1>8, <1>9, <1>10, DelsPlan

(* One call for one subobject of one object of the stack.                   *)
LEMMA ElementCall ==
  ASSUME NEW a \in Addr, NEW t \in Type, NEW k \in DOMAIN Elements[t], NEW i, Spot(a, t, k, i) \in Addr,
         NEW R, Object(a, t, k, i, 0) \in R, NEW c,
         c.addr = Spot(a, t, k, i), c.size = 0, c.n = 1, c.op # "remove",
         c.type = Elements[t][k].type, c.offset = Elements[t][k].offset
  PROVE  ReachOf(c) = {Spot(a, t, k, i)} /\ Supplied(c, Spot(a, t, k, i), R)
<1>1. /\ c.addr = Spot(a, t, k, i) /\ c.size = 0 /\ c.n = 1 /\ c.op # "remove"
      /\ c.type = Elements[t][k].type /\ c.offset = Elements[t][k].offset
  OBVIOUS
<1>2. Width(c) = 1
  BY <1>1 DEF Width
<1>3. Elem(c.addr, 0, 0) = c.addr
  BY <1>1, AddrAssumption, FirstElem
<1>4. ReachOf(c) = {Spot(a, t, k, i)}
  <2>1. 0 .. 1 - 1 = {0}
    OBVIOUS
  <2> QED
    BY <1>1, <1>2, <1>3, <2>1 DEF ReachOf, Elems
<1> DEFINE r == Object(a, t, k, i, 0)
<1>5. /\ r \in R /\ r.addr = Spot(a, t, k, i) /\ r.type = Elements[t][k].type
      /\ r.offset = Elements[t][k].offset /\ r.n = 0
  BY ObjectFields
<1> HIDE DEF r
<1>6. Fits([type |-> Elements[t][k].type, offset |-> Elements[t][k].offset, count |-> 1], r)
  BY <1>5, InfoFits, CountAssumption
<1> QED
  BY <1>1, <1>4, <1>5, <1>6 DEF InfoDue, Supplied

(* What is emitted for a local array registers, or forgets, its objects.    *)
LEMMA ElementsPlan ==
  ASSUME NEW a \in Addr, NEW t \in Type, NEW bytes \in 1 .. MaxBytes, Cells(a, bytes) \subseteq Addr,
         NEW n, n = ArraySize(t, bytes), NEW op \in {"add", "del"}, NEW s, s = PerElement(op, a, t, n)
  PROVE  /\ s \in Seq(PendingCall)
         /\ op = "add" => Plans(s, {}, Objects(a, t, n, 0))
         /\ op = "del" => Plans(s, Objects(a, t, n, 0), {})
<1>1. s \in Seq(PendingCall)
  BY ElementsEmitted
<1>2. PICK K, I : Places(s, op, a, t, n, K, I)
  BY ElementsEmitted
<1>3. /\ n \in Nat /\ \A i \in 0 .. n - 1 : i \in Nat
      /\ \A k \in DOMAIN Elements[t], i \in 0 .. n - 1 : Spot(a, t, k, i) \in Addr
  BY ExtentBound, SpotInside
<1>4. ASSUME NEW j \in 1 .. Len(s)
      PROVE  /\ s[j].op = op /\ ReachOf(s[j]) = {Spot(a, t, K[j], I[j])}
             /\ Supplied(s[j], Spot(a, t, K[j], I[j]), Objects(a, t, n, 0))
  <2>1. PICK k \in DOMAIN Elements[t], i \in 0 .. n - 1 : k = K[j] /\ i = I[j]
    BY <1>2 DEF Places
  <2> DEFINE c == s[j]
  <2>2. c = Call(op, Spot(a, t, k, i), Elements[t][k].type, Elements[t][k].offset, 0, 1)
    BY <1>2, <2>1 DEF Places
  <2> HIDE DEF c
  <2>3. Spot(a, t, k, i) \in Addr /\ op # "remove" /\ n \in Nat
    BY <1>3
  <2>4. /\ c.addr = Spot(a, t, k, i) /\ c.size = 0 /\ c.n = 1 /\ c.op = op
        /\ c.type = Elements[t][k].type /\ c.offset = Elements[t][k].offset
    BY <2>2 DEF Call
  <2>5. Object(a, t, k, i, 0) \in Objects(a, t, n, 0)
    BY ObjectOf
  <2>6. ReachOf(c) = {Spot(a, t, k, i)} /\ Supplied(c, Spot(a, t, k, i), Objects(a, t, n, 0))
    BY <2>3, <2>4, <2>5, ElementCall
  <2> QED
    BY <2>1, <2>4, <2>6 DEF c
<1>5. /\ \A j \in 1 .. Len(s) : s[j].op = op
      /\ \A j \in 1 .. Len(s) : ReachOf(s[j]) = {Spot(a, t, K[j], I[j])}
  BY <1>4
<1>6. AllApart(s)
  <2>1. ASSUME NEW j \in 1 .. Len(s), NEW l \in 1 .. Len(s), Spot(a, t, K[j], I[j]) = Spot(a, t, K[l], I[l])
        PROVE  j = l
    <3>1. /\ K[j] \in DOMAIN Elements[t] /\ I[j] \in Nat
          /\ K[l] \in DOMAIN Elements[t] /\ I[l] \in Nat
      BY <1>2, <1>3 DEF Places
    <3>2. K[j] = K[l] /\ I[j] = I[l]
      BY <2>1, <3>1, SpotUnique
    <3> QED
      BY <1>2, <3>2 DEF Places
  <2> QED
    BY <1>5, <2>1 DEF AllApart
<1>7. Covers(s, Objects(a, t, n, 0))
  <2> SUFFICES ASSUME NEW r \in Objects(a, t, n, 0) PROVE \E j \in 1 .. Len(s) : r.addr \in ReachOf(s[j])
    BY DEF Covers
  <2>1. PICK k \in DOMAIN Elements[t] : r.addr \in Spots(a, t, k, n)
    BY ObjectPlace
  <2>2. PICK i \in 0 .. n - 1 : r.addr = Spot(a, t, k, i)
    BY <2>1 DEF Spots
  <2>3. PICK j \in 1 .. Len(s) : K[j] = k /\ I[j] = i
    BY <1>2 DEF Places
  <2> QED
    BY <1>5, <2>2, <2>3
<1>8. Supplies(s, Objects(a, t, n, 0))
  <2> SUFFICES ASSUME NEW j \in 1 .. Len(s), NEW x \in ReachOf(s[j])
               PROVE  Supplied(s[j], x, Objects(a, t, n, 0))
    BY DEF Supplies
  <2>1. x = Spot(a, t, K[j], I[j])
    BY <1>5
  <2> QED
    BY <1>4, <2>1
<1>9. Within(s, Objects(a, t, n, 0))
  BY <1>8 DEF Within, Supplies, Supplied
<1>10. (OnlyAdds(s) /\ AllDistinct(s)) \/ op # "add"
  BY <1>5 DEF OnlyAdds, AllDistinct
<1>11. (OnlyDels(s) /\ AllFound(s)) \/ op # "del"
  BY <1>5 DEF OnlyDels, AllFound
<1> QED
  BY <1>1, <1>6, <1>7, <1>8, <1>9, <1>10, <1>11, AddsPlan, DelsPlan

(* A removal, then a registration. *)
LEMMA MovePlan ==
  ASSUME NEW s, Len(s) = 2, NEW c, NEW d, s[1] = c, s[2] = d, c.op = "remove", d.op = "update",
         OneEach(d.addr, d.size, d.n), Lookup(c.addr) # NoInfo, Lookup(c.addr).count > 0,
         NEW Old, NEW New,
         \A x \in ReachOf(d) : Supplied(d, x, New), \A r \in New : r.addr \in ReachOf(d),
         \A r \in Old : r.addr \in ReachOf(c), \A x \in ReachOf(c) : \E r \in Old : r.addr = x
  PROVE  Plans(s, Old, New)
<1>1. \A j \in 1 .. Len(s) : j = 1 \/ j = 2
  OBVIOUS
<1>2. 1 \in 1 .. Len(s) /\ 2 \in 1 .. Len(s) /\ ~(2 < 1) /\ ~(1 < 1)
  OBVIOUS
<1>3. ~Adds(c) /\ Adds(d)
  BY DEF Adds
<1>4. \A i, j \in 1 .. Len(s) : i < j /\ Adds(s[i]) => Adds(s[j])
  BY <1>1, <1>2, <1>3
<1>5. \A i, j \in 1 .. Len(s) :
        i # j /\ (Adds(s[i]) <=> Adds(s[j])) => ReachOf(s[i]) \cap ReachOf(s[j]) = {}
  BY <1>1, <1>3
<1>6. \A j \in 1 .. Len(s) : s[j].op = "update" => OneEach(s[j].addr, s[j].size, s[j].n)
  BY <1>1
<1>7. \A j \in 1 .. Len(s) :
        s[j].op = "remove" => Lookup(s[j].addr) # NoInfo /\ Lookup(s[j].addr).count > 0
  BY <1>1
<1>8. \A j \in 1 .. Len(s) : Adds(s[j]) => \A x \in ReachOf(s[j]) : Supplied(s[j], x, New)
  BY <1>1, <1>3
<1>9. \A r \in New : \E j \in 1 .. Len(s) : Adds(s[j]) /\ r.addr \in ReachOf(s[j])
  BY <1>2, <1>3
<1>10. \A r \in Old : \E j \in 1 .. Len(s) : ~Adds(s[j]) /\ r.addr \in ReachOf(s[j])
  BY <1>2, <1>3
<1>11. \A j \in 1 .. Len(s) : ~Adds(s[j]) => \A x \in ReachOf(s[j]) : \E r \in Old : r.addr = x
  BY <1>1, <1>3
<1> QED
  BY <1>4, <1>5, <1>6, <1>7, <1>8, <1>9, <1>10, <1>11 DEF Plans, Supplied

(* What is emitted for a realloc forgets the old objects and registers the  *)
(* new ones.                                                                *)
LEMMA ReallocPlan ==
  ASSUME HeapInv, AtProgram, NEW a \in Allocated, block[a].kind = "heap",
         NEW b \in Addr, NEW bytes \in 1 .. MaxBytes, Cells(b, bytes) \subseteq Addr,
         NEW t, t = block[a].type, OneEntry(t), NEW n, n = ArraySize(t, bytes), n > 0,
         NEW old, old = Extent(block[a]), NEW s, s = EmitRealloc(a, b, t, n)
  PROVE  Plans(s, Objects(a, t, old, old), Objects(b, t, n, n)) /\ s \in Seq(PendingCall)
<1>1. a \in Addr /\ t \in Type /\ block[a].bytes \in 1 .. MaxBytes /\ old = ArraySize(t, block[a].bytes)
  BY BlockFields DEF Extent, HeapInv, HeapTyped
<1> DEFINE o == Elements[t][1].offset
<1>2. /\ s \in Seq(PendingCall) /\ Len(s) = 2 /\ DOMAIN Elements[t] = {1}
      /\ s[1] = Call("remove", a + o, Elements[t][1].type, o, TypeSize[t], n)
      /\ s[2] = Call("update", b + o, Elements[t][1].type, o, TypeSize[t], n)
  BY ReallocEmitted DEF HeapInv
<1>3. PICK c, d : c = s[1] /\ d = s[2]
  OBVIOUS
<1>4. c.addr = a + o /\ c.size = TypeSize[t] /\ c.op = "remove"
  BY <1>2, <1>3 DEF Call
<1>5. /\ d.addr = b + o /\ d.size = TypeSize[t] /\ d.n = n /\ d.op = "update"
      /\ d.type = Elements[t][1].type /\ d.offset = o
  BY <1>2, <1>3 DEF Call
<1>6. 1 \in DOMAIN Elements[t] /\ \A k \in DOMAIN Elements[t] : k = 1
  BY <1>2
<1>7. ReachOf(c) = Spots(a, t, 1, old) /\ Lookup(c.addr) # NoInfo /\ Lookup(c.addr).count > 0
  BY <1>4, <1>6, RemoveCall
<1>8. /\ OneEach(d.addr, d.size, d.n) /\ ReachOf(d) = Spots(b, t, 1, n)
      /\ \A x \in ReachOf(d) : Supplied(d, x, Objects(b, t, n, n))
  BY <1>1, <1>5, <1>6, UpdateCall
<1>9. \A r \in Objects(b, t, n, n) : r.addr \in ReachOf(d)
  BY <1>6, <1>8, ObjectPlace
<1>10. \A r \in Objects(a, t, old, old) : r.addr \in ReachOf(c)
  BY <1>6, <1>7, ObjectPlace
<1>11. ASSUME NEW x \in ReachOf(c)
       PROVE  \E r \in Objects(a, t, old, old) : r.addr = x
  <2>1. x \in Spots(a, t, 1, old)
    BY <1>7
  <2>2. PICK i \in 0 .. old - 1 : x = Spot(a, t, 1, i)
    BY <2>1 DEF Spots
  <2> QED
    BY <1>6, <2>2, ObjectOf, ObjectFields
<1>12. c.op = "remove" /\ d.op = "update" /\ s[1] = c /\ s[2] = d /\ Len(s) = 2
  BY <1>2, <1>3, <1>4, <1>5
<1>13. Plans(s, Objects(a, t, old, old), Objects(b, t, n, n))
  BY <1>7, <1>8, <1>9, <1>10, <1>11, <1>12, MovePlan
<1> QED
  BY <1>2, <1>13

(* The blocks that a step keeps keep their objects; Old are those of the    *)
(* others, New those of the blocks it makes.                                *)
Keeps(Keep) == Keep \subseteq Allocated /\ Keep \subseteq Allocated' /\ \A c \in Keep : block'[c] = block[c]
Loses(Keep, Old) == \A r : r \in Old <=> \E c \in Allocated \ Keep : r \in Known(c, block[c])
Gains(Keep, New) == \A r : r \in New <=> \E c \in Allocated' \ Keep : r \in Known(c, block'[c])

(* How the objects of the program change with its blocks.                   *)
LEMMA TracedAfter ==
  ASSUME HeapTyped, HeapTyped', NEW Keep, NEW Old, NEW New, Keeps(Keep), Loses(Keep, Old), Gains(Keep, New)
  PROVE  /\ Old \subseteq Traced /\ Traced' = (Traced \ Old) \cup New
         /\ \A r \in New : r.addr \in Addr /\ \A q \in Traced \ Old : r.addr # q.addr
<1>1. ASSUME NEW c \in Allocated, NEW r \in Known(c, block[c])
      PROVE  r.addr \in Cells(c, block[c].bytes)
  BY BlockFields, KnownInside DEF HeapTyped
<1>2. ASSUME NEW c \in Allocated', NEW r \in Known(c, block'[c])
      PROVE  r.addr \in Cells(c, block'[c].bytes) /\ r.addr \in Addr
  <2>1. c \in Addr /\ block'[c] \in Block /\ Cells(c, block'[c].bytes) \subseteq Addr
    BY DEF HeapTyped, HeapTypeOK, Allocated, Blocks
  <2> QED
    BY <2>1, KnownInside
<1>3. \A r : r \in Traced <=> \E c \in Allocated : r \in Known(c, block[c])
  BY DEF Traced
<1>4. \A r : r \in Traced' <=> \E c \in Allocated' : r \in Known(c, block'[c])
  BY DEF Traced
<1>5. ASSUME NEW c \in Allocated, NEW d \in Allocated,
             NEW x \in Cells(c, block[c].bytes), x \in Cells(d, block[d].bytes)
      PROVE  c = d
  BY <1>5 DEF HeapTyped, Blocks
<1>6. ASSUME NEW c \in Allocated', NEW d \in Allocated',
             NEW x \in Cells(c, block'[c].bytes), x \in Cells(d, block'[d].bytes)
      PROVE  c = d
  BY <1>6 DEF HeapTyped, Blocks
<1>7. Old \subseteq Traced
  BY <1>3 DEF Loses
<1>8. ASSUME NEW r \in Traced'
      PROVE  r \in (Traced \ Old) \cup New
  <2>1. PICK c \in Allocated' : r \in Known(c, block'[c])
    BY <1>4
  <2>2. CASE c \in Keep
    <3>1. r \in Known(c, block[c]) /\ c \in Allocated
      BY <2>1, <2>2 DEF Keeps
    <3>2. \A d \in Allocated \ Keep : r \notin Known(d, block[d])
      BY <1>1, <1>5, <2>2, <3>1
    <3> QED
      BY <1>3, <3>1, <3>2 DEF Loses
  <2>3. CASE c \notin Keep
    BY <2>1, <2>3 DEF Gains
  <2> QED
    BY <2>2, <2>3
<1>9. ASSUME NEW q \in Traced \ Old
      PROVE  \E d \in Keep : q \in Known(d, block'[d])
  BY <1>3 DEF Keeps, Loses
<1>10. ASSUME NEW r \in New
       PROVE  r.addr \in Addr /\ \A q \in Traced \ Old : r.addr # q.addr
  <2>1. PICK c \in Allocated' \ Keep : r \in Known(c, block'[c])
    BY DEF Gains
  <2>2. r.addr \in Addr /\ r.addr \in Cells(c, block'[c].bytes)
    BY <1>2, <2>1
  <2>3. ASSUME NEW q \in Traced \ Old
        PROVE  r.addr # q.addr
    <3>1. PICK d \in Keep : q \in Known(d, block'[d])
      BY <1>9
    <3>2. q.addr \in Cells(d, block'[d].bytes) /\ d \in Allocated' /\ d # c
      BY <1>2, <2>1, <3>1 DEF Keeps
    <3> QED
      BY <1>6, <2>2, <3>2
  <2> QED
    BY <2>2, <2>3
<1>11. (Traced \ Old) \cup New \subseteq Traced'
  BY <1>4, <1>9 DEF Gains, Keeps
<1> QED
  BY <1>7, <1>8, <1>10, <1>11

(* A new block: a heap block or a local variable.                           *)
LEMMA BlockBegins ==
  ASSUME HeapInv, AtProgram, HeapTyped', UNCHANGED vars, NEW a \in Addr, NEW blk \in Block,
         Free(a, blk.bytes), Extent(blk) > 0, block' = [block EXCEPT ![a] = blk],
         NEW s \in Seq(PendingCall), todo' = s, Plans(s, {}, Known(a, blk))
  PROVE  HeapInv'
<1>1. /\ Allocated' = Allocated \cup {a} /\ block'[a] = blk
      /\ a \notin Allocated /\ \A b \in Allocated : block'[b] = block[b]
  BY BlockAdded DEF HeapInv, HeapTyped
<1>2. PICK Old, New : Old = {} /\ New = Known(a, blk)
  OBVIOUS
<1>3. PICK Keep : Keep = Allocated
  OBVIOUS
<1>4. /\ Keeps(Keep)
      /\ Allocated \ Keep = {} /\ Allocated' \ Keep = {a}
  BY <1>1, <1>3 DEF Keeps
<1>5. Loses(Keep, Old)
  BY <1>2, <1>4 DEF Loses
<1>6. Gains(Keep, New)
  BY <1>1, <1>2, <1>4 DEF Gains
<1>7. /\ Old \subseteq Traced /\ Traced' = (Traced \ Old) \cup New
      /\ \A r \in New : r.addr \in Addr /\ \A q \in Traced \ Old : r.addr # q.addr
  BY <1>4, <1>5, <1>6, TracedAfter DEF HeapInv
<1>8. Plans(s, Old, New)
  BY <1>2
<1> QED
  BY <1>7, <1>8, ProgramStep

(* A block that goes: freed, or a local variable out of scope.              *)
LEMMA BlockEnds ==
  ASSUME HeapInv, AtProgram, HeapTyped', UNCHANGED vars, NEW a \in Allocated,
         block' = [block EXCEPT ![a] = NoBlock],
         NEW s \in Seq(PendingCall), todo' = s, Plans(s, Known(a, block[a]), {})
  PROVE  HeapInv'
<1>1. Allocated' = Allocated \ {a} /\ \A b \in Allocated' : block'[b] = block[b]
  BY BlockDropped DEF HeapInv, HeapTyped
<1>2. PICK Old, New : Old = Known(a, block[a]) /\ New = {}
  OBVIOUS
<1>3. PICK Keep : Keep = Allocated \ {a}
  OBVIOUS
<1>4. /\ Keeps(Keep)
      /\ Allocated \ Keep = {a} /\ Allocated' \ Keep = {}
  BY <1>1, <1>3 DEF Keeps
<1>5. Loses(Keep, Old)
  BY <1>2, <1>4 DEF Loses
<1>6. Gains(Keep, New)
  BY <1>2, <1>4 DEF Gains
<1>7. /\ Old \subseteq Traced /\ Traced' = (Traced \ Old) \cup New
      /\ \A r \in New : r.addr \in Addr /\ \A q \in Traced \ Old : r.addr # q.addr
  BY <1>4, <1>5, <1>6, TracedAfter DEF HeapInv
<1>8. Plans(s, Old, New)
  BY <1>2
<1> QED
  BY <1>7, <1>8, ProgramStep

(* The steps of the program.                                                *)
LEMMA MallocStep ==
  ASSUME HeapInv, HeapTyped', NEW a \in Addr, NEW t \in Type, NEW bytes \in 1 .. MaxBytes, Malloc(a, t, bytes)
  PROVE  HeapInv'
<1> DEFINE blk == [kind |-> "heap", type |-> t, bytes |-> bytes]
           n == ArraySize(t, bytes)
           s == EmitUpdates(a, t, n)
<1>1. /\ AtProgram /\ Free(a, bytes) /\ n > 0 /\ block' = [block EXCEPT ![a] = blk]
      /\ todo' = s /\ UNCHANGED vars
  BY DEF Malloc
<1>2. blk \in Block /\ blk.bytes = bytes /\ Extent(blk) = n /\ Count(blk) = n /\ blk.type = t
  BY DEF Block, Extent, Count
<1> HIDE DEF blk, n, s
<1>3. Cells(a, bytes) \subseteq Addr
  BY <1>1 DEF Free
<1>4. Plans(s, {}, Objects(a, t, n, n)) /\ s \in Seq(PendingCall)
  BY <1>1, <1>3, UpdatesPlan DEF n, s
<1>5. Known(a, blk) = Objects(a, t, n, n)
  BY <1>2, KnownObjects
<1> QED
  BY <1>1, <1>2, <1>4, <1>5, BlockBegins

LEMMA EnterScopeStep ==
  ASSUME HeapInv, HeapTyped', NEW a \in Addr, NEW t \in Type, NEW n \in 1 .. MaxCount, EnterScope(a, t, n)
  PROVE  HeapInv'
<1> DEFINE bytes == n * TypeSize[t]
           blk == [kind |-> "stack", type |-> t, bytes |-> bytes]
           s == PerElement("add", a, t, n)
<1>1. /\ AtProgram /\ Free(a, bytes) /\ bytes \in 1 .. MaxBytes /\ block' = [block EXCEPT ![a] = blk]
      /\ todo' = s /\ UNCHANGED vars
  BY DEF EnterScope
<1>2. ArraySize(t, bytes) = n /\ n > 0
  BY LocalArray, CountAssumption
<1> HIDE DEF bytes
<1>3. blk \in Block /\ blk.bytes = bytes /\ Extent(blk) = n /\ Count(blk) = 0 /\ blk.type = t
  BY <1>1, <1>2 DEF Block, Extent, Count
<1> HIDE DEF blk, s
<1>4. Cells(a, bytes) \subseteq Addr
  BY <1>1 DEF Free
<1>5. Plans(s, {}, Objects(a, t, n, 0)) /\ s \in Seq(PendingCall)
  BY <1>1, <1>2, <1>4, ElementsPlan DEF s
<1>6. Known(a, blk) = Objects(a, t, n, 0)
  BY <1>3, KnownObjects
<1> QED
  BY <1>1, <1>2, <1>3, <1>5, <1>6, BlockBegins

LEMMA FreeStep ==
  ASSUME HeapInv, HeapTyped', NEW a \in Addr, FreeBlock(a)
  PROVE  HeapInv'
<1>1. /\ AtProgram /\ a \in Allocated /\ block[a].kind = "heap" /\ block' = [block EXCEPT ![a] = NoBlock]
      /\ todo' = EmitRemoves(a, block[a].type) /\ UNCHANGED vars
  BY DEF FreeBlock, Allocated
<1>2. PICK t, n, s : t = block[a].type /\ n = Extent(block[a]) /\ s = EmitRemoves(a, t)
  OBVIOUS
<1>3. Plans(s, Objects(a, t, n, n), {}) /\ s \in Seq(PendingCall)
  BY <1>1, <1>2, RemovesPlan
<1>4. Known(a, block[a]) = Objects(a, t, n, n)
  BY <1>1, <1>2, KnownObjects DEF Count
<1>5. todo' = s
  BY <1>1, <1>2
<1> QED
  BY <1>1, <1>3, <1>4, <1>5, BlockEnds

LEMMA LeaveScopeStep ==
  ASSUME HeapInv, HeapTyped', NEW a \in Addr, LeaveScope(a)
  PROVE  HeapInv'
<1>1. /\ AtProgram /\ a \in Allocated /\ block[a].kind = "stack" /\ block' = [block EXCEPT ![a] = NoBlock]
      /\ todo' = PerElement("del", a, block[a].type, Extent(block[a])) /\ UNCHANGED vars
  BY DEF LeaveScope, Allocated, Extent
<1>2. PICK t, n, s : t = block[a].type /\ n = Extent(block[a]) /\ s = PerElement("del", a, t, n)
  OBVIOUS
<1>3. t \in Type /\ block[a].bytes \in 1 .. MaxBytes /\ n = ArraySize(t, block[a].bytes)
  BY <1>1, <1>2, BlockFields DEF Extent, HeapInv, HeapTyped
<1>4. Cells(a, block[a].bytes) \subseteq Addr
  BY <1>1 DEF HeapInv, HeapTyped, Blocks
<1>5. Plans(s, Objects(a, t, n, 0), {}) /\ s \in Seq(PendingCall)
  BY <1>2, <1>3, <1>4, ElementsPlan
<1>6. Known(a, block[a]) = Objects(a, t, n, 0)
  BY <1>1, <1>2, KnownObjects DEF Count
<1>7. todo' = s
  BY <1>1, <1>2
<1> QED
  BY <1>1, <1>5, <1>6, <1>7, BlockEnds

LEMMA ReallocStep ==
  ASSUME HeapInv, HeapTyped', NEW a \in Addr, NEW b \in Addr, NEW bytes \in 1 .. MaxBytes, Realloc(a, b, bytes)
  PROVE  HeapInv'
<1>1. /\ AtProgram /\ block[a].kind = "heap" /\ OneEntry(block[a].type)
      /\ ArraySize(block[a].type, bytes) > 0 /\ UNCHANGED vars
      /\ todo' = EmitRealloc(a, b, block[a].type, ArraySize(block[a].type, bytes))
  BY DEF Realloc
<1>2. /\ a \in Allocated /\ (a # b => b \notin Allocated)
      /\ Allocated' = (Allocated \ {a}) \cup {b}
      /\ block'[b] = [block[a] EXCEPT !.bytes = bytes] /\ block'[b] \in Block
      /\ \A c \in Allocated \ {a} : block'[c] = block[c]
  BY BlockMoved DEF HeapInv, HeapTyped
<1>3. PICK t, n, old, s : /\ t = block[a].type /\ n = ArraySize(t, bytes) /\ old = Extent(block[a])
                          /\ s = EmitRealloc(a, b, t, n)
  OBVIOUS
<1>4. block'[b].type = t /\ block'[b].bytes = bytes /\ block'[b].kind = "heap"
  <2>1. block[a] \in Block
    BY <1>2, BlockFields DEF HeapInv, HeapTyped
  <2> QED
    BY <1>1, <1>2, <1>3, <2>1 DEF Block
<1>5. Cells(b, bytes) \subseteq Addr
  BY <1>2, <1>4 DEF HeapTyped, Blocks
<1>6. Plans(s, Objects(a, t, old, old), Objects(b, t, n, n)) /\ s \in Seq(PendingCall)
  BY <1>1, <1>2, <1>3, <1>5, ReallocPlan
<1>7. Known(a, block[a]) = Objects(a, t, old, old)
  BY <1>1, <1>3, KnownObjects DEF Count
<1>8. Known(b, block'[b]) = Objects(b, t, n, n)
  <2>1. PICK blk : blk = block'[b]
    OBVIOUS
  <2>2. Extent(blk) = n /\ Count(blk) = n /\ blk.type = t
    BY <1>3, <1>4, <2>1 DEF Extent, Count
  <2> QED
    BY <2>1, <2>2, KnownObjects
<1>9. PICK Old, New : Old = Objects(a, t, old, old) /\ New = Objects(b, t, n, n)
  OBVIOUS
<1>10. PICK Keep : Keep = Allocated \ {a}
  OBVIOUS
<1>11. /\ Keeps(Keep)
       /\ Allocated \ Keep = {a} /\ Allocated' \ Keep = {b}
  BY <1>2, <1>10 DEF Keeps
<1>12. Loses(Keep, Old)
  BY <1>7, <1>9, <1>11 DEF Loses
<1>13. Gains(Keep, New)
  BY <1>8, <1>9, <1>11 DEF Gains
<1>14. /\ Old \subseteq Traced /\ Traced' = (Traced \ Old) \cup New
       /\ \A r \in New : r.addr \in Addr /\ \A q \in Traced \ Old : r.addr # q.addr
  BY <1>11, <1>12, <1>13, TracedAfter DEF HeapInv
<1>15. Plans(s, Old, New) /\ todo' = s
  BY <1>1, <1>3, <1>6, <1>9
<1> QED
  BY <1>1, <1>6, <1>14, <1>15, ProgramStep
-----------------------------------------------------------------------------
(* The invariant, and what follows from it. *)

LEMMA NothingKnownYet ==
  ASSUME Init
  PROVE  \A a \in Addr : Lookup(a) = NoInfo
BY Geometry, EntryFields DEF Init, Lookup, InfoOf, FindEntry

(* Nothing is allocated, registered or owed at first.                       *)
LEMMA HeapStarts ==
  ASSUME HeapInit
  PROVE  HeapInv
<1>1. Init /\ block = [a \in Addr |-> NoBlock] /\ todo = <<>>
  BY DEF HeapInit
<1>2. TypeOK
  BY <1>1 DEF Init, TypeOK, Idle
<1>3. Allocated = {}
  BY <1>1 DEF Allocated
<1>4. HeapTyped
  BY <1>1, <1>2, <1>3 DEF HeapTyped, HeapTypeOK, Blocks
<1>5. EntriesAtHome /\ OneHome
  BY <1>1 DEF Init, EntriesAtHome, OneHome
<1>6. Jobs = {0} /\ Reach(0) = {} /\ ~Registering(0) /\ Traced = {} /\ Len(todo) = 0 /\ call = Idle
  <2>1. call = Idle
    BY <1>1 DEF Init
  <2>2. Len(todo) = 0
    BY <1>1
  <2>3. 0 .. 0 = {0}
    OBVIOUS
  <2> QED
    BY <1>3, <2>1, <2>2, <2>3, IdleReach DEF Jobs, Reach, Traced
<1>7. ToRegister = {} /\ ToForget = {}
  BY <1>6 DEF ToRegister, ToForget
<1>8. 1 .. 0 = {}
  OBVIOUS
<1>9. Schedule
  <2>1. InOrder /\ Apart /\ Owed
    BY <1>6 DEF InOrder, Apart, Owed
  <2>2. Distinct
    BY <1>6, <1>8 DEF Distinct, Idle
  <2>3. ToBeFound
    BY <1>6, <1>8 DEF ToBeFound
  <2> QED
    BY <2>1, <2>2, <2>3 DEF Schedule
<1>10. NoneMissing /\ NoneLeft
  BY <1>1, <1>6, NothingKnownYet DEF NoneMissing, NoneLeft
<1> QED
  BY <1>4, <1>5, <1>9, <1>10 DEF HeapInv

(* Every step keeps the invariant.                                          *)
LEMMA HeapInvStep ==
  ASSUME KeysDistinct, HeapInv, [HeapNext]_hvars
  PROVE  HeapInv'
<1>0. HeapTyped'
  BY HeapTypeStep DEF HeapInv
<1>1. ASSUME NEW a \in Addr, NEW t \in Type, NEW bytes \in 1 .. MaxBytes, Malloc(a, t, bytes)
      PROVE  HeapInv'
  BY <1>0, <1>1, MallocStep
<1>2. ASSUME NEW a \in Addr, NEW t \in Type, NEW n \in 1 .. MaxCount, EnterScope(a, t, n)
      PROVE  HeapInv'
  BY <1>0, <1>2, EnterScopeStep
<1>3. ASSUME NEW a \in Addr, FreeBlock(a)
      PROVE  HeapInv'
  BY <1>0, <1>3, FreeStep
<1>4. ASSUME NEW a \in Addr, LeaveScope(a)
      PROVE  HeapInv'
  BY <1>0, <1>4, LeaveScopeStep
<1>5. ASSUME NEW a \in Addr, NEW b \in Addr, NEW bytes \in 1 .. MaxBytes, Realloc(a, b, bytes)
      PROVE  HeapInv'
  BY <1>0, <1>5, ReallocStep
<1>6. ASSUME NEW a \in Addr, Cast(a)
      PROVE  HeapInv'
  BY <1>0, <1>6, NothingDone DEF Cast, Find
<1>7. CASE ServeUpdate
  BY <1>0, <1>7, UpdateBegins
<1>8. CASE ServeRemove
  BY <1>0, <1>8, RemoveBegins
<1>9. CASE ServeAdd
  BY <1>0, <1>9, AddServed
<1>10. CASE ServeDel
  BY <1>0, <1>10, DelServed
<1>11. CASE Run
  BY <1>0, <1>11, ElementUpdated, ElementRemoved, CallReturns DEF Run
<1>12. CASE UNCHANGED hvars
  BY <1>0, <1>12, NothingDone DEF hvars, vars
<1> QED
  BY <1>1, <1>2, <1>3, <1>4, <1>5, <1>6, <1>7, <1>8, <1>9, <1>10, <1>11, <1>12 DEF HeapNext, Serve

(* Between two steps of the program, emitted calls still to be made and the *)
(* map together account for every tracked subobject of the live blocks.     *)
THEOREM HeapInvariant ==
  ASSUME KeysDistinct
  PROVE  HeapSpec => []HeapInv
<1>1. HeapInit => HeapInv
  BY HeapStarts
<1>2. HeapInv /\ [HeapNext]_hvars => HeapInv'
  BY HeapInvStep
<1> QED
  BY <1>1, <1>2, PTL DEF HeapSpec

(* Live and Traced name the same subobjects.                                *)
LEMMA LiveTraced ==
  ASSUME HeapTyped
  PROVE  /\ \A s \in Live : \E r \in Traced : r.addr = s.addr /\ r.type = s.type /\ r.offset = s.offset
         /\ \A r \in Traced : \E s \in Live : s.addr = r.addr
<1>1. ASSUME NEW s \in Live
      PROVE  \E r \in Traced : r.addr = s.addr /\ r.type = s.type /\ r.offset = s.offset
  <2>1. PICK a \in Allocated : s \in Subobjects(a, block[a].type, block[a].bytes)
    BY DEF Live, Allocated
  <2>2. PICK k \in DOMAIN Elements[block[a].type], i \in 0 .. Extent(block[a]) - 1 :
          s = [addr |-> a + Elements[block[a].type][k].offset + TypeSize[block[a].type] * i,
               type |-> Elements[block[a].type][k].type, offset |-> Elements[block[a].type][k].offset]
    BY <2>1 DEF Subobjects, Extent
  <2> DEFINE r == Object(a, block[a].type, k, i, Count(block[a]))
  <2>3. r \in Known(a, block[a])
    BY DEF Known
  <2>4. r \in Traced
    BY <2>3 DEF Traced
  <2>5. r.addr = s.addr /\ r.type = s.type /\ r.offset = s.offset
    BY <2>2 DEF Object, Spot
  <2> QED
    BY <2>4, <2>5
<1>2. ASSUME NEW r \in Traced
      PROVE  \E s \in Live : s.addr = r.addr
  <2>1. PICK a \in Allocated : r \in Known(a, block[a])
    BY DEF Traced
  <2>2. PICK k \in DOMAIN Elements[block[a].type], i \in 0 .. Extent(block[a]) - 1 :
          r = Object(a, block[a].type, k, i, Count(block[a]))
    BY <2>1 DEF Known
  <2> DEFINE s == [addr |-> a + Elements[block[a].type][k].offset + TypeSize[block[a].type] * i,
                   type |-> Elements[block[a].type][k].type, offset |-> Elements[block[a].type][k].offset]
  <2>3. s \in Subobjects(a, block[a].type, block[a].bytes)
    BY DEF Subobjects, Extent
  <2>4. s \in Live
    BY <2>3 DEF Live, Allocated
  <2>5. s.addr = r.addr
    BY <2>2 DEF Object, Spot
  <2> QED
    BY <2>4, <2>5
<1> QED
  BY <1>1, <1>2

(* Whenever the program itself runs, the map knows exactly the tracked      *)
(* subobjects of the live blocks: nothing is missing, wrong or left behind, *)
(* for any layout of the types and any history of allocations.              *)
THEOREM HeapTracedExactly ==
  ASSUME KeysDistinct
  PROVE  HeapSpec => []TracedExactly
<1>1. ASSUME HeapInv PROVE TracedExactly
  <2>1. HeapTyped /\ HeapTypeOK
    BY <1>1 DEF HeapInv, HeapTyped
  <2>2. ASSUME AtProgram, NEW s \in Live
        PROVE  LET i == Lookup(s.addr) IN i # NoInfo /\ i.type = s.type /\ i.offset = s.offset
    <3>1. PICK r \in Traced : r.addr = s.addr /\ r.type = s.type /\ r.offset = s.offset
      BY <2>1, LiveTraced
    <3>2. Fits(Lookup(r.addr), r)
      BY <1>1, <2>2, AllKnown
    <3> QED
      BY <3>1, <3>2 DEF Fits
  <2>3. ASSUME AtProgram, NEW a \in Addr, Lookup(a) # NoInfo
        PROVE  \E s \in Live : s.addr = a
    BY <1>1, <2>1, <2>3, AllKnown, LiveTraced
  <2> QED
    BY <2>1, <2>2, <2>3 DEF TracedExactly
<1> QED
  BY <1>1, HeapInvariant, PTL
-----------------------------------------------------------------------------
(* What the runtime assumes of its callers. *)

(* When an update is served, none of its elements is registered.            *)
LEMMA UpdateIsFree ==
  ASSUME HeapInv, ServeUpdate, NEW c, c = Head(todo)
  PROVE  /\ c.addr \in Addr /\ c.type \in Type /\ c.offset \in Offset /\ c.size \in Size /\ c.n \in 0 .. MaxCount
         /\ \A x \in Elems(c.addr, c.size, c.n) : Lookup(x) = NoInfo
         /\ OneEach(c.addr, c.size, c.n)
<1>1. Due("update") /\ HeapTypeOK /\ Elems(c.addr, c.size, c.n) \subseteq Addr
  BY DEF ServeUpdate, HeapInv, HeapTyped, BeginUpdate
<1>2. c \in PendingCall /\ c = todo[1]
  BY <1>1, FirstDue
<1>3. /\ Reach(1) = ReachOf(c) /\ c.op = "update" /\ Registering(1) /\ 1 \in Jobs /\ 1 \in 1 .. Len(todo)
      /\ ToForget = {}
  BY <1>1, <1>2, FirstJob
<1>4. c.addr \in Addr /\ c.type \in Type /\ c.offset \in Offset /\ c.size \in Size /\ c.n \in 0 .. MaxCount
  BY <1>2, <1>3 DEF PendingCall, ArrayCallDue, ElementCallDue
<1>5. ReachOf(c) = Elems(c.addr, c.size, c.n)
  BY <1>3 DEF ReachOf, Width
<1>6. ASSUME NEW x \in Elems(c.addr, c.size, c.n)
      PROVE  Lookup(x) = NoInfo
  <2>1. x \in Addr /\ x \in ToRegister
    BY <1>1, <1>3, <1>5 DEF ToRegister
  <2> QED
    BY <1>3, <2>1 DEF HeapInv, NoneLeft
<1>7. OneEach(c.addr, c.size, c.n)
  BY <1>2, <1>3 DEF HeapInv, Schedule, Distinct
<1> QED
  BY <1>4, <1>6, <1>7

(* When a subobject on the stack is registered, it is not registered yet.   *)
LEMMA AddIsFree ==
  ASSUME HeapInv, ServeAdd, NEW c, c = Head(todo)
  PROVE  c.addr \in Addr /\ c.type \in Type /\ c.offset \in Offset /\ Lookup(c.addr) = NoInfo
<1>1. Due("add") /\ HeapTypeOK
  BY DEF ServeAdd, HeapInv, HeapTyped
<1>2. c \in PendingCall /\ c = todo[1]
  BY <1>1, FirstDue
<1>3. /\ Reach(1) = ReachOf(c) /\ c.op = "add" /\ Registering(1) /\ 1 \in Jobs /\ ToForget = {}
  BY <1>1, <1>2, FirstJob
<1>4. ReachOf(c) = {c.addr} /\ c.addr \in Addr /\ c.type \in Type /\ c.offset \in Offset
  BY <1>2, <1>3, OneAddress
<1>5. c.addr \in ToRegister
  BY <1>3, <1>4 DEF ToRegister
<1> QED
  BY <1>3, <1>4, <1>5 DEF HeapInv, NoneLeft

(* ObjTypeMap with Reregister FALSE differs in its guards only.             *)
LEMMA SameOperations ==
  /\ \A a, i : Assumed!Store(a, i) <=> Store(a, i)
  /\ \A a : (Assumed!Erase(a) <=> Erase(a)) /\ Assumed!Vacant(a) = Vacant(a) /\ Assumed!FindEntry(a) = FindEntry(a)
  /\ \A a : Assumed!Lookup(a) = Lookup(a) /\ Assumed!getHash(a) = getHash(a)
  /\ \A b : Assumed!SlotCount(b) = SlotCount(b)
  /\ \A a, s, n : Assumed!Elems(a, s, n) = Elems(a, s, n) /\ Assumed!Elem(a, s, n) = Elem(a, s, n)
  /\ Assumed!Idle = Idle /\ Assumed!Element = Element /\ (Assumed!NextElement <=> NextElement)
BY DEF Assumed!Store, Assumed!Evict, Assumed!Vacant, Assumed!getHash, Assumed!TreeKey, Assumed!Null,
       Assumed!Erase, Assumed!FindEntry, Assumed!Lookup, Assumed!InfoOf, Assumed!SlotCount,
       Assumed!Elems, Assumed!Elem, Assumed!Idle, Assumed!Element, Assumed!NextElement,
       Store, Evict, Vacant, getHash, TreeKey, Null, Erase, FindEntry, Lookup, InfoOf, SlotCount,
       Elems, Elem, Idle, Element, NextElement

(* Every step is one of ObjTypeMap with Reregister FALSE.                   *)
LEMMA OrderlySteps ==
  ASSUME HeapInv, [HeapNext]_hvars
  PROVE  [Assumed!Next]_(Assumed!vars)
<1>1. ASSUME ServeUpdate
      PROVE  Assumed!Next
  <2> DEFINE c == Head(todo)
  <2>1. /\ c.addr \in Addr /\ c.type \in Type /\ c.offset \in Offset /\ c.size \in Size /\ c.n \in 0 .. MaxCount
        /\ \A x \in Elems(c.addr, c.size, c.n) : Lookup(x) = NoInfo
        /\ OneEach(c.addr, c.size, c.n)
    BY <1>1, UpdateIsFree
  <2>2. BeginUpdate(c.addr, c.type, c.offset, c.size, c.n)
    BY <1>1 DEF ServeUpdate
  <2> HIDE DEF c
  <2>3. Assumed!MayRegister(Elems(c.addr, c.size, c.n))
    BY <2>1, SameOperations DEF Assumed!MayRegister
  <2>4. Assumed!BeginUpdate(c.addr, c.type, c.offset, c.size, c.n)
    BY <2>1, <2>2, <2>3, SameOperations DEF Assumed!BeginUpdate, BeginUpdate, OneEach
  <2> QED
    BY <2>1, <2>4 DEF Assumed!Next
<1>2. ASSUME ServeRemove
      PROVE  Assumed!Next
  <2> DEFINE c == Head(todo)
  <2>1. c.addr \in Addr /\ c.size \in Size /\ c.n \in 0 .. MaxCount
    <3>1. HeapTypeOK /\ Due("remove")
      BY <1>2 DEF HeapInv, HeapTyped, ServeRemove
    <3> QED
      BY <3>1, FirstDue DEF PendingCall, ArrayCallDue, ElementCallDue
  <2>2. BeginRemove(c.addr, c.size, c.n, TRUE)
    BY <1>2 DEF ServeRemove
  <2> HIDE DEF c
  <2>3. Assumed!RemoveCount(c.addr, c.n, TRUE) = RemoveCount(c.addr, c.n, TRUE)
    BY SameOperations DEF Assumed!RemoveCount, RemoveCount, Assumed!TreeIsEmpty, TreeIsEmpty, Assumed!Key, Key
  <2>4. Assumed!BeginRemove(c.addr, c.size, c.n, TRUE)
    BY <2>2, <2>3, SameOperations DEF Assumed!BeginRemove, BeginRemove
  <2> QED
    BY <2>1, <2>4 DEF Assumed!Next
<1>3. ASSUME ServeAdd
      PROVE  Assumed!Next
  <2> DEFINE c == Head(todo)
  <2>1. c.addr \in Addr /\ c.type \in Type /\ c.offset \in Offset /\ Lookup(c.addr) = NoInfo
    BY <1>3, AddIsFree
  <2>2. UpdateInline(c.addr, c.type, c.offset) \/ UpdateDirect(c.addr, c.type, c.offset)
    BY <1>3 DEF ServeAdd
  <2> HIDE DEF c
  <2>3. Assumed!MayRegister({c.addr})
    BY <2>1, SameOperations DEF Assumed!MayRegister
  <2>4. \/ Assumed!UpdateInline(c.addr, c.type, c.offset)
        \/ Assumed!UpdateDirect(c.addr, c.type, c.offset)
    BY <2>2, <2>3, SameOperations
    DEF UpdateInline, UpdateDirect, Assumed!UpdateInline, Assumed!UpdateDirect
  <2> QED
    BY <2>1, <2>4 DEF Assumed!Next
<1>4. ASSUME ServeDel
      PROVE  Assumed!Next
  <2>1. HeapTypeOK /\ Due("del")
    BY <1>4 DEF HeapInv, HeapTyped, ServeDel
  <2>2. PICK a \in Addr : a = Head(todo).addr
    BY <2>1, FirstDue DEF PendingCall, ArrayCallDue, ElementCallDue
  <2>3. Assumed!RemoveDirect(a)
    BY <1>4, <2>2, SameOperations DEF ServeDel, RemoveDirect, Assumed!RemoveDirect
  <2> QED
    BY <2>3 DEF Assumed!Next
<1>5. ASSUME Run
      PROVE  Assumed!Next
  BY <1>5, SameOperations
  DEF Run, UpdateElem, RemoveElem, Return, Assumed!UpdateElem, Assumed!RemoveElem, Assumed!Return, Assumed!Next
<1>6. ASSUME NEW a \in Addr, Cast(a)
      PROVE  Assumed!Next
  <2>1. Assumed!Find(a)
    BY <1>6, SameOperations DEF Cast, Find, Assumed!Find
  <2> QED
    BY <2>1 DEF Assumed!Next
<1>7. ASSUME UNCHANGED vars
      PROVE  UNCHANGED Assumed!vars
  BY <1>7 DEF vars, Assumed!vars
<1>8. ASSUME NEW a \in Addr, FreeBlock(a) \/ LeaveScope(a)
      PROVE  UNCHANGED vars
  BY <1>8 DEF FreeBlock, LeaveScope
<1>9. ASSUME NEW a \in Addr, NEW t \in Type, NEW n, Malloc(a, t, n) \/ EnterScope(a, t, n)
      PROVE  UNCHANGED vars
  BY <1>9 DEF Malloc, EnterScope
<1>10. ASSUME NEW a \in Addr, NEW b \in Addr, NEW n, Realloc(a, b, n)
       PROVE  UNCHANGED vars
  BY <1>10 DEF Realloc
<1>11. UNCHANGED hvars => UNCHANGED vars
  BY DEF hvars
<1> QED
  BY <1>1, <1>2, <1>3, <1>4, <1>5, <1>6, <1>7, <1>8, <1>9, <1>10, <1>11 DEF HeapNext, Serve

(* The emitted calls keep what the runtime takes for granted: no address is *)
(* registered while it is registered, the elements of one array included,   *)
(* and so the program is one for which ObjTypeMap was shown correct.        *)
THEOREM EmittedCallsKeepWord ==
  ASSUME KeysDistinct
  PROVE  HeapSpec => CallersKeepWord
<1>1. HeapInit => Assumed!Init
  BY DEF HeapInit, Init, Assumed!Init, Bucket, Key, Assumed!Bucket, Assumed!Key, Idle, Assumed!Idle,
         Null, Assumed!Null
<1>2. HeapInv /\ [HeapNext]_hvars => [Assumed!Next]_(Assumed!vars)
  BY OrderlySteps
<1> QED
  BY <1>1, <1>2, HeapInvariant, PTL DEF HeapSpec, CallersKeepWord, Assumed!Spec
-----------------------------------------------------------------------------
(* The registry. *)

(* Storing an entry registers it in the abstract map.                       *)
LEMMA StoreRegisters ==
  ASSUME HeapInv, KeysDistinct, NEW a \in Addr, NEW info \in Info, Store(a, info)
  PROVE  Abstract!Register(a, info)
<1>1. \A x \in Addr : Lookup(x)' = IF x = a THEN info ELSE Lookup(x)
  BY StoreLookup DEF HeapInv, HeapTyped, HeapTypeOK
<1>2. Found' = [Found EXCEPT ![a] = info]
  BY <1>1 DEF Found
<1> QED
  BY <1>2 DEF Store, Abstract!Register

(* Erasing an entry forgets it in the abstract map.                         *)
LEMMA EraseForgets ==
  ASSUME HeapInv, KeysDistinct, NEW a \in Addr, Erase(a)
  PROVE  Abstract!Forget(a)
<1>1. \A x \in Addr : Lookup(x)' = IF x = a THEN NoInfo ELSE Lookup(x)
  BY EraseLookup DEF HeapInv, HeapTyped, HeapTypeOK
<1>2. Found' = [Found EXCEPT ![a] = NoInfo]
  BY <1>1 DEF Found
<1> QED
  BY <1>2 DEF Erase, Abstract!Forget

(* Run by a program the pass instrumented, the table and its trees are one  *)
(* map from addresses to what was registered last: what TablesImplement-    *)
(* Registry asks of the program, the emitted calls are shown to give.       *)
THEOREM HeapImplementsRegistry ==
  ASSUME KeysDistinct
  PROVE  HeapSpec => ImplementsRegistry
<1>1. HeapInit => Abstract!Init
  <2> SUFFICES ASSUME HeapInit PROVE Abstract!Init
    OBVIOUS
  <2>1. Found = [a \in Addr |-> NoInfo]
    BY NothingKnownYet DEF HeapInit, Found
  <2> QED
    BY <2>1 DEF HeapInit, Init, Abstract!Init, Abstract!Unregistered, Null
<1>2. HeapInv /\ [HeapNext]_hvars => [Abstract!Next]_<<Found, last>>
  <2> SUFFICES ASSUME HeapInv, [HeapNext]_hvars PROVE [Abstract!Next]_<<Found, last>>
    OBVIOUS
  <2>1. TypeOK /\ [Next]_vars
    BY HeapSteps DEF HeapInv, HeapTyped, HeapTypeOK
  <2>2. ASSUME NEW a \in Addr, NEW info \in Info, Registers(a, info)
        PROVE  Abstract!Register(a, info)
    BY <2>2, StoreRegisters DEF Registers
  <2>3. ASSUME NEW a \in Addr, Erase(a)
        PROVE  Abstract!Forget(a)
    BY <2>3, EraseForgets
  <2>4. ASSUME UNCHANGED <<slot, tree>>, Looks
        PROVE  UNCHANGED <<Found, last>> \/ \E a \in Addr : Abstract!Find(a)
    <3>1. Found' = Found
      BY <2>4, SameTables DEF Found
    <3> QED
      BY <2>4, <3>1 DEF Looks, Abstract!Find, Found
  <2> QED
    BY <2>1, <2>2, <2>3, <2>4, StepKinds DEF Abstract!Next
<1> QED
  BY <1>1, <1>2, HeapInvariant, PTL DEF HeapSpec, ImplementsRegistry, Abstract!Spec
===============================================================================
