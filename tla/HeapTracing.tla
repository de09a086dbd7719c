------------------------------ MODULE HeapTracing ------------------------------
(***************************************************************************)
(* A program whose blocks are traced: the runtime calls that the pass puts *)
(* behind its allocations and deallocations (HexTypeTreePass.cpp:187-319,  *)
(* HexTypeUtil.cpp:587-1044), running on the object type map of            *)
(* ObjTypeMap.  The allocator is external: it hands out any free memory,   *)
(* a block that was just freed included.                                   *)
(*                                                                         *)
(* Assumed of the program: one thread; a block is freed, and reallocated,  *)
(* under the type it was allocated for; the instruction before the call    *)
(* that frees it is a bitcast from that type, the only place collectFree   *)
(* looks for one (HexTypeTreePass.cpp:223-236); what is reallocated has no *)
(* tracked subobjects (OneEntry); a block holds at least one object of its *)
(* type; no allocation fails.                                              *)
(***************************************************************************)
EXTENDS ObjTypeMap, SequencesExt

CONSTANTS
  Fields,     \* the fields of a type, nested arrays unrolled: [offset, type] in order
  Tracked,    \* types named "trackedtype.": they have virtual functions or are cast
  TypeSize,   \* DL.getTypeAllocSize
  MaxBytes,   \* bound: the size of a block
  NoBlock

ASSUME TypeSizeAssumption == TypeSize \in [Type -> Size \ {0}]
ASSUME FieldsAssumption == \A t \in Type : \A i \in DOMAIN Fields[t] :
                             Fields[t][i].type \in Type /\ Fields[t][i].offset \in Offset
ASSUME BytesAssumption == MaxBytes \in Nat /\ MaxBytes <= MaxCount

VARIABLES
  block,  \* the program's live blocks, by the address they start at
  todo    \* the runtime calls emitted for the operation the program is at

hvars == <<vars, block, todo>>

Block == [kind : {"heap", "stack"}, type : Type, bytes : 1 .. MaxBytes]
ASSUME NoBlockAssumption == NoBlock \notin Block

Cells(a, bytes) == a .. a + bytes - 1
Free(a, bytes) ==
  /\ Cells(a, bytes) \subseteq Addr
  /\ \A b \in Addr : block[b] # NoBlock => Cells(b, block[b].bytes) \cap Cells(a, bytes) = {}

Shift(entries, o) == [i \in DOMAIN entries |-> [entries[i] EXCEPT !.offset = @ + o]]

(* Every tracked subobject of a type, itself first.                         *)
Nested[t \in Type] ==
  (IF t \in Tracked THEN <<[offset |-> 0, type |-> t]>> ELSE <<>>)
    \o FlattenSeq([i \in DOMAIN Fields[t] |-> Shift(Nested[Fields[t][i].type], Fields[t][i].offset)])

(* The layout of a type: its subobjects lie inside it.                      *)
Part == [offset : Offset, type : Type]
ASSUME LayoutAssumption ==
  \A t \in Type : /\ Nested[t] \in Seq(Part)
                  /\ \A i \in DOMAIN Nested[t] : Nested[t][i].offset < TypeSize[t]

FirstAtOffset(s, i) == \A j \in 1 .. i - 1 : s[j].offset # s[i].offset

Ascending(K) ==
  CHOOSE f \in [1 .. Cardinality(K) -> K] : \A i, j \in DOMAIN f : i < j => f[i] < f[j]

(* getStructOffsets: the outermost object that starts at an offset is kept. *)
Elements ==
  [t \in Type |->
     LET s == Nested[t]
         kept == Ascending({i \in DOMAIN s : FirstAtOffset(s, i)})
     IN  [j \in DOMAIN kept |-> s[kept[j]]]]

(* ArraySizeF: the bytes asked for over the size of the type.               *)
ArraySize(t, bytes) == bytes \div TypeSize[t]

Call(op, a, t, o, size, n) ==
  [op |-> op, addr |-> a, type |-> t, offset |-> o, size |-> size, n |-> n]

(* insertUpdate for a heap block: one __update_oinfo per element.           *)
EmitUpdates(a, t, n) ==
  [i \in DOMAIN Elements[t] |->
     LET e == Elements[t][i] IN Call("update", a + e.offset, e.type, e.offset, TypeSize[t], n)]

(* insertRemove for a heap block: the count passed is 1.                    *)
EmitRemoves(a, t) ==
  [i \in DOMAIN Elements[t] |->
     LET e == Elements[t][i] IN Call("remove", a + e.offset, e.type, e.offset, TypeSize[t], 1)]

(* Objects on the stack have a constant count: each element of each object  *)
(* is a call.                                                               *)
PerElement(op, a, t, n) ==
  LET m == Len(Elements[t])
  IN  [k \in 1 .. n * m |->
         LET e == Elements[t][((k - 1) % m) + 1]
         IN  Call(op, a + e.offset + TypeSize[t] * ((k - 1) \div m), e.type, e.offset, 0, 1)]

HeapInit == Init /\ block = [a \in Addr |-> NoBlock] /\ todo = <<>>
-----------------------------------------------------------------------------
(* The program runs on when the emitted calls have returned.                *)
AtProgram == todo = <<>> /\ call = Idle

(* new, new[] of a type without destructor, malloc; calloc(TypeSize, n),    *)
(* whose second operand the pass takes for the number of elements.          *)
Malloc(a, t, bytes) ==
  /\ AtProgram /\ Free(a, bytes) /\ ArraySize(t, bytes) > 0
  /\ block' = [block EXCEPT ![a] = [kind |-> "heap", type |-> t, bytes |-> bytes]]
  /\ todo' = EmitUpdates(a, t, ArraySize(t, bytes))
  /\ UNCHANGED vars

(* free, delete, where the pass recognises them: the removal is emitted     *)
(* behind the call.                                                         *)
FreeBlock(a) ==
  /\ AtProgram /\ block[a] # NoBlock /\ block[a].kind = "heap"
  /\ block' = [block EXCEPT ![a] = NoBlock]
  /\ todo' = EmitRemoves(a, block[a].type)
  /\ UNCHANGED vars

OneEntry(t) == Len(Elements[t]) = 1

EmitReallocNoRemoval(a, b, t, n) ==  \* mutant of EmitRealloc
  EmitUpdates(b, t, n)

(* realloc: in place, or to free memory.  Only the first element has its    *)
(* old registrations removed; the count passed is that of the new block.    *)
EmitRealloc(a, b, t, n) ==
  LET e == Elements[t][1]
  IN  <<Call("remove", a + e.offset, e.type, e.offset, TypeSize[t], n)>> \o EmitUpdates(b, t, n)

FitsInPlace(a, bytes) ==
  \A c \in Cells(a, bytes) : c \in Addr /\ \A b \in Addr \ {a} :
    block[b] # NoBlock => c \notin Cells(b, block[b].bytes)

Realloc(a, b, bytes) ==
  /\ AtProgram /\ block[a] # NoBlock /\ block[a].kind = "heap" /\ OneEntry(block[a].type)
  /\ ArraySize(block[a].type, bytes) > 0
  /\ IF a = b THEN FitsInPlace(a, bytes) ELSE Free(b, bytes)
  /\ block' = [block EXCEPT ![a] = NoBlock, ![b] = [block[a] EXCEPT !.bytes = bytes]]
  /\ todo' = EmitRealloc(a, b, block[a].type, ArraySize(block[a].type, bytes))
  /\ UNCHANGED vars

(* A local object or array comes to life, and ends.                         *)
EnterScope(a, t, n) ==
  /\ AtProgram /\ Free(a, n * TypeSize[t]) /\ n * TypeSize[t] \in 1 .. MaxBytes
  /\ block' = [block EXCEPT ![a] = [kind |-> "stack", type |-> t, bytes |-> n * TypeSize[t]]]
  /\ todo' = PerElement("add", a, t, n)
  /\ UNCHANGED vars

LeaveScope(a) ==
  /\ AtProgram /\ block[a] # NoBlock /\ block[a].kind = "stack"
  /\ block' = [block EXCEPT ![a] = NoBlock]
  /\ todo' = PerElement("del", a, block[a].type, ArraySize(block[a].type, block[a].bytes))
  /\ UNCHANGED vars

Due(op) == todo # <<>> /\ call = Idle /\ Head(todo).op = op
Done == todo' = Tail(todo) /\ UNCHANGED block

ServeUpdate ==
  /\ Due("update") /\ Done
  /\ LET c == Head(todo) IN BeginUpdate(c.addr, c.type, c.offset, c.size, c.n)

(* AllocType is HEAPALLOC or REALLOC. *)
ServeRemove ==
  /\ Due("remove") /\ Done
  /\ LET c == Head(todo) IN BeginRemove(c.addr, c.size, c.n, TRUE)

ServeAdd ==
  /\ Due("add") /\ Done
  /\ LET c == Head(todo)
     IN  IF Inline THEN UpdateInline(c.addr, c.type, c.offset)
                   ELSE UpdateDirect(c.addr, c.type, c.offset)

ServeDel == Due("del") /\ Done /\ RemoveDirect(Head(todo).addr)

Run == (UpdateElem \/ RemoveElem \/ Return) /\ UNCHANGED <<block, todo>>

(* A cast looks its pointer up. *)
Cast(a) == AtProgram /\ Find(a) /\ UNCHANGED <<block, todo>>

Serve == ServeUpdate \/ ServeRemove \/ ServeAdd \/ ServeDel \/ Run

HeapNext ==
  \/ \E a \in Addr, t \in Type :
       \/ \E bytes \in 1 .. MaxBytes : Malloc(a, t, bytes)
       \/ \E n \in 1 .. MaxCount : EnterScope(a, t, n)
  \/ \E a \in Addr : FreeBlock(a) \/ LeaveScope(a) \/ Cast(a)
  \/ \E a, b \in Addr, bytes \in 1 .. MaxBytes : Realloc(a, b, bytes)
  \/ Serve

(* The emitted calls wait for nothing. *)
HeapSpec == HeapInit /\ [][HeapNext]_hvars /\ WF_hvars(Serve)
-----------------------------------------------------------------------------
ArrayCallDue ==
  [op : {"update", "remove"}, addr : Addr, type : Type, offset : Offset, size : Size, n : 0 .. MaxCount]
ElementCallDue ==
  [op : {"add", "del"}, addr : Addr, type : Type, offset : Offset, size : {0}, n : {1}]
PendingCall == ArrayCallDue \cup ElementCallDue

HeapTypeOK ==
  /\ block \in [Addr -> Block \cup {NoBlock}]
  /\ todo \in Seq(PendingCall)
  /\ TypeOK

(* Where the subobjects of a block lie, and what is to be known there.      *)
Subobjects(a, t, bytes) ==
  {[addr |-> a + Elements[t][k].offset + TypeSize[t] * i, type |-> Elements[t][k].type,
    offset |-> Elements[t][k].offset] : k \in DOMAIN Elements[t], i \in 0 .. ArraySize(t, bytes) - 1}

Live == UNION {Subobjects(a, block[a].type, block[a].bytes) : a \in {b \in Addr : block[b] # NoBlock}}

(* The map knows exactly the tracked subobjects of the live blocks, each    *)
(* with its type and offset, whenever the program itself runs: blocks come, *)
(* go, grow and move, share slots, and reuse each other's memory, and no    *)
(* registration is missing, wrong or left behind (hextype.cc:507-554 takes  *)
(* the number of elements to remove from the map itself).                   *)
TracedExactly ==
  /\ HeapTypeOK
  /\ AtProgram =>
       /\ \A s \in Live : LET i == Lookup(s.addr)
                          IN  i # NoInfo /\ i.type = s.type /\ i.offset = s.offset
       /\ \A a \in Addr : Lookup(a) # NoInfo => \E s \in Live : s.addr = a

(* What the runtime takes for granted of its callers: no address is         *)
(* registered while it is registered (ObjTypeMap with Reregister = FALSE).  *)
Assumed == INSTANCE ObjTypeMap WITH Reregister <- FALSE

CallersKeepWord == Assumed!Spec

(* The emitted calls return and the program goes on.                        *)
Settles == ~AtProgram ~> AtProgram
===============================================================================
