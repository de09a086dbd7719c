------------------------------ MODULE ObjTypeMap ------------------------------
(***************************************************************************)
(* The object type map of the HexType runtime (hextype.cc): a direct       *)
(* mapped table of NumMap slots indexed by bits of the address, each slot  *)
(* with a red-black tree for the entries it evicted, and the entry points  *)
(* the instrumented program calls to register, look up and forget objects. *)
(* A tree is modelled as the finite map it implements (HexTree models its  *)
(* nodes), keyed as its compare() sees a pointer: by the low Word bits     *)
(* only.  Type stands for the pair <TypeHashValue, RuleAddr>, which every  *)
(* entry point writes together.  An array call is one step per element.    *)
(***************************************************************************)
EXTENDS Integers

CONSTANTS
  Addr,         \* addresses the calls can name, array elements included
  Type,         \* types the program registers
  Offset,       \* byte offsets of a tracked subobject in its object
  Size,         \* TypeSize values of the array calls
  MaxCount,     \* bound: the longest array of a call
  Grain,        \* 2^3 in the code: addresses that share a slot index
  NumMap,       \* 2^28 in the code: the values of getHash
  Word,         \* 2^32 in the code: the values of a uint32_t or an int
  NoEntry, NoInfo,
  Inline,       \* the module was compiled with inline-opt
  Reinterpret,  \* the module was compiled with handle-reinterpret-cast
  Reregister    \* calls may register an address that is still registered

ASSUME AddrAssumption == Addr \subseteq Nat \ {0}
ASSUME OffsetAssumption == Offset \subseteq Nat
ASSUME SizeAssumption == Size \subseteq Nat
ASSUME GeometryAssumption ==
  Grain \in Nat \ {0} /\ NumMap \in Nat \ {0} /\ Word \in Nat \ {0}
ASSUME CountAssumption == MaxCount \in Nat \ {0} /\ MaxCount < Word
ASSUME OptionAssumption == {Inline, Reinterpret, Reregister} \subseteq BOOLEAN

Null == 0            \* nullptr
Weak == -1           \* Offset of an entry made by __handle_reinterpret_cast

Bucket == 0 .. NumMap - 1
Key == 0 .. Word - 1
Info == [type : Type, offset : Offset \cup {Weak}, count : 0 .. MaxCount]
Entry == [addr : Addr, info : Info]

ASSUME NoEntryAssumption == NoEntry \notin Entry
ASSUME NoInfoAssumption == NoInfo \notin Info

VARIABLES
  slot,    \* ObjTypeMap[b] without HexTree: an address, Null when free, its info
  tree,    \* ObjTypeMap[b].HexTree
  call,    \* the array call in progress
  last     \* the element operation served last, as in Registry

vars == <<slot, tree, call, last>>

getHash(a) == (a \div Grain) % NumMap

(* What compare() keeps of a pointer. *)
TreeKey(a) == a % Word

(* findObjInfo: the slot first, then the slot's tree. *)
FindEntry(a) ==
  LET s == slot[getHash(a)]
  IN  IF s.addr = a THEN s ELSE tree[getHash(a)][TreeKey(a)]

InfoOf(e) == IF e = NoEntry THEN NoInfo ELSE e.info

Lookup(a) == InfoOf(FindEntry(a))

Idle == [op |-> "idle", addr |-> Null, info |-> NoInfo, size |-> 0, n |-> 0, i |-> 0]

(* Address of element i: TypeSize*i is a product of two uint32_t. *)
Elem(a, size, i) == a + ((size * i) % Word)

Elems(a, size, n) == {Elem(a, size, i) : i \in 0 .. n - 1}

(* The program's side of a registration: memory that is being given an      *)
(* object holds no registered object, unless Reregister.                    *)
MayRegister(as) == Reregister \/ \A a \in as : Lookup(a) = NoInfo

Init ==
  /\ slot = [b \in Bucket |-> [addr |-> Null, info |-> NoInfo]]
  /\ tree = [b \in Bucket |-> [k \in Key |-> NoEntry]]
  /\ call = Idle
  /\ last = [op |-> "none", addr |-> Null, info |-> NoInfo]
-----------------------------------------------------------------------------
(* Registering one address. *)

AlwaysVacant(a) == TRUE  \* mutant of Vacant: the incumbent is overwritten

Vacant(a) == slot[getHash(a)].addr \in {Null, a}

EvictUnderNewKey(a) ==  \* mutant of Evict: inserts under the newcomer's address
  tree' = IF Vacant(a) THEN tree
          ELSE [tree EXCEPT ![getHash(a)][TreeKey(a)] = slot[getHash(a)]]

EvictFreeSlot(a) ==  \* mutant of Evict: a free slot is evicted too
  tree' = LET s == slot[getHash(a)]
          IN  [tree EXCEPT ![getHash(a)][TreeKey(s.addr)] = s]

(* The incumbent of the slot moves to the tree under its own address. *)
Evict(a) ==
  tree' = IF Vacant(a) THEN tree
          ELSE LET s == slot[getHash(a)]
               IN  [tree EXCEPT ![getHash(a)][TreeKey(s.addr)] = s]

Store(a, info) ==
  /\ Evict(a)
  /\ slot' = [slot EXCEPT ![getHash(a)] = [addr |-> a, info |-> info]]
  /\ last' = [op |-> "register", addr |-> a, info |-> info]

(* __update_direct_oinfo *)
UpdateDirect(a, t, o) ==
  /\ call = Idle
  /\ MayRegister({a})
  /\ Store(a, [type |-> t, offset |-> o, count |-> 1])
  /\ UNCHANGED call

(* HeapArraySize of a slot nobody has filled yet: the table is zero. *)
SlotCount(b) == IF slot[b].info = NoInfo THEN 0 ELSE slot[b].info.count

(* The code inline-opt emits in place of the call: a free slot, or the      *)
(* address's own, gets ObjAddr, RuleAddr, TypeHashValue and Offset stored   *)
(* and keeps its HeapArraySize; else __update_direct_oinfo_inline.          *)
UpdateInline(a, t, o) ==
  /\ Inline
  /\ call = Idle
  /\ MayRegister({a})
  /\ LET kept == IF Vacant(a) THEN SlotCount(getHash(a)) ELSE 1
     IN  Store(a, [type |-> t, offset |-> o, count |-> kept])
  /\ UNCHANGED call

(* __handle_reinterpret_cast: registers unless a real object is there. *)
HandleReinterpret(a, t) ==
  /\ Reinterpret
  /\ call = Idle
  /\ LET e == FindEntry(a)
     IN  IF e # NoEntry /\ e.info.offset # Weak
         THEN UNCHANGED <<slot, tree, last>>
         ELSE Store(a, [type |-> t, offset |-> Weak, count |-> 1])
  /\ UNCHANGED call

(* __update_oinfo, one iteration of its loop per UpdateElem. *)
BeginUpdate(a, t, o, size, n) ==
  /\ call = Idle
  /\ Elems(a, size, n) \subseteq Addr
  /\ MayRegister(Elems(a, size, n))
  /\ Reregister \/ \A i, j \in 0 .. n - 1 : Elem(a, size, i) = Elem(a, size, j) => i = j
  /\ call' = [op |-> "update", addr |-> a, size |-> size, n |-> n, i |-> 0,
              info |-> [type |-> t, offset |-> o, count |-> n % Word]]
  /\ UNCHANGED <<slot, tree, last>>

Element == Elem(call.addr, call.size, call.i)

NextElementNarrow ==  \* mutant of NextElement: the index has fewer bits than the sum
  call' = [call EXCEPT !.i = (@ + 1) % (Word \div 4)]

NextElement == call' = [call EXCEPT !.i = (@ + 1) % Word]

UpdateElem ==
  /\ call.op = "update" /\ call.i < call.n
  /\ Store(Element, call.info)
  /\ NextElement
-----------------------------------------------------------------------------
(* Forgetting. *)

EraseUnchecked(a) ==  \* mutant of Erase: clears the slot without comparing addresses
  /\ slot' = [slot EXCEPT ![getHash(a)].addr = Null]
  /\ UNCHANGED tree
  /\ last' = [op |-> "forget", addr |-> a, info |-> NoInfo]

(* A slot keeps its other fields; a tree loses the node compare() finds. *)
Erase(a) ==
  /\ LET b == getHash(a)
     IN  IF slot[b].addr = a
         THEN slot' = [slot EXCEPT ![b].addr = Null] /\ UNCHANGED tree
         ELSE tree' = [tree EXCEPT ![b][TreeKey(a)] = NoEntry] /\ UNCHANGED slot
  /\ last' = [op |-> "forget", addr |-> a, info |-> NoInfo]

(* __remove_direct_oinfo; with inline-opt the slot is compared and cleared  *)
(* by emitted code and __remove_direct_oinfo_inline does the rest.          *)
RemoveDirect(a) ==
  /\ call = Idle
  /\ Erase(a)
  /\ UNCHANGED call

TreeIsEmpty(b) == \A k \in Key : tree[b][k] = NoEntry

(* The number of elements __remove_oinfo goes over: for a heap block what   *)
(* is stored with its first element, whatever the caller passed.            *)
RemoveCount(a, n, heap) ==
  IF heap /\ FindEntry(a) # NoEntry THEN FindEntry(a).info.count
  ELSE IF heap /\ TreeIsEmpty(getHash(a)) THEN 1
  ELSE n

(* __remove_oinfo, one iteration of its loop per RemoveElem.  heap: the     *)
(* AllocType is HEAPALLOC or REALLOC.                                       *)
BeginRemove(a, size, n, heap) ==
  /\ call = Idle
  /\ LET m == RemoveCount(a, n, heap)
     IN  /\ Elems(a, size, m) \subseteq Addr
         /\ call' = [op |-> "remove", addr |-> a, info |-> NoInfo,
                     size |-> size, n |-> m, i |-> 0]
  /\ UNCHANGED <<slot, tree, last>>

RemoveElem ==
  /\ call.op = "remove" /\ call.i < call.n
  /\ Erase(Element)
  /\ NextElement

(* The loop condition fails: return. *)
Return ==
  /\ call.op # "idle" /\ call.i >= call.n
  /\ call' = Idle
  /\ UNCHANGED <<slot, tree, last>>

(* findObjInfo, called by the cast checks. *)
Find(a) ==
  /\ call = Idle
  /\ last' = [op |-> "find", addr |-> a, info |-> Lookup(a)]
  /\ UNCHANGED <<slot, tree, call>>

Next ==
  \/ \E a \in Addr, t \in Type, o \in Offset :
       \/ UpdateDirect(a, t, o)
       \/ UpdateInline(a, t, o)
       \/ \E size \in Size, n \in 0 .. MaxCount : BeginUpdate(a, t, o, size, n)
  \/ \E a \in Addr, t \in Type : HandleReinterpret(a, t)
  \/ \E a \in Addr : RemoveDirect(a) \/ Find(a)
  \/ \E a \in Addr, size \in Size, n \in 0 .. MaxCount, heap \in BOOLEAN :
       BeginRemove(a, size, n, heap)
  \/ UpdateElem \/ RemoveElem \/ Return

Spec == Init /\ [][Next]_vars
-----------------------------------------------------------------------------
(* Two addresses of the program that share a slot differ in the bits the    *)
(* tree compares: what the red-black trees need to tell them apart.  It     *)
(* holds when no two objects lie a multiple of 2^32 bytes apart.            *)
KeysDistinct ==
  \A a, b \in Addr : getHash(a) = getHash(b) /\ TreeKey(a) = TreeKey(b) => a = b

ArrayCall ==
  [op : {"update", "remove"}, addr : Addr, info : Info \cup {NoInfo},
   size : Size, n : 0 .. MaxCount, i : 0 .. MaxCount]

(* Every variable has its shape; a call in progress names elements that lie *)
(* in Addr, and an update carries what it registers.                        *)
TypeOK ==
  /\ slot \in [Bucket -> [addr : Addr \cup {Null}, info : Info \cup {NoInfo}]]
  /\ \A b \in Bucket : slot[b].addr # Null => slot[b].info # NoInfo
  /\ tree \in [Bucket -> [Key -> Entry \cup {NoEntry}]]
  /\ call \in ArrayCall \cup {Idle}
  /\ call # Idle => Elems(call.addr, call.size, call.n) \subseteq Addr /\ call.i <= call.n
  /\ call.op = "update" => call.info # NoInfo

(* An entry never strays: the slot and the tree of a bucket hold addresses  *)
(* that hash there, and a tree finds each of its entries under its own key. *)
(* Evicting and erasing are keyed by different addresses, so neither alone  *)
(* shows it.                                                                *)
EntriesAtHome ==
  \A b \in Bucket :
    /\ slot[b].addr # Null => getHash(slot[b].addr) = b
    /\ \A k \in Key : tree[b][k] # NoEntry =>
         getHash(tree[b][k].addr) = b /\ TreeKey(tree[b][k].addr) = k

(* findObjInfo never answers with the entry of another object: the cast     *)
(* checks take the type of what it returns for the type of the address.     *)
FindsOwnEntry ==
  \A a \in Addr : FindEntry(a) # NoEntry => FindEntry(a).addr = a

(* No address is both in its slot and in the slot's tree.  Were it, erasing *)
(* it would clear the slot and leave the older registration to be found.    *)
OneHome ==
  \A b \in Bucket : slot[b].addr # Null => tree[b][TreeKey(slot[b].addr)] = NoEntry

(* While __update_oinfo runs, the elements it has passed are registered     *)
(* with what the call registers, however they evict one another.            *)
ArrayRegistered ==
  call.op = "update" =>
    \A j \in 0 .. call.i - 1 : Lookup(Elem(call.addr, call.size, j)) = call.info

(* While __remove_oinfo runs, no element it has passed is found again.      *)
ArrayForgotten ==
  call.op = "remove" =>
    \A j \in 0 .. call.i - 1 : Lookup(Elem(call.addr, call.size, j)) = NoInfo

(* No step changes what is found for an address other than the one it       *)
(* registers or forgets: evicting an entry, and deleting a node, are not    *)
(* observable at any other address.                                         *)
OnlyNamedAddress ==
  [][\A a \in Addr : Lookup(a)' # Lookup(a) => last'.addr = a]_vars

(* The table and its trees together behave as one map from addresses to     *)
(* what was registered last and not forgotten since.                        *)
Found == [a \in Addr |-> Lookup(a)]

Abstract == INSTANCE Registry WITH reg <- Found

ImplementsRegistry == Abstract!Spec
===============================================================================
