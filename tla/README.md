# HexType in TLA+

HexType detects type confusion in C++ programs. An extended clang/LLVM compiles
the type relations of a program into tables, and calls into it that register
every object with its type and verify every cast. A runtime library keeps the
objects and answers the calls. This directory holds TLA+ models of the parts
that do the work, TLC configurations that check them, and TLAPS proofs of what
matters most for every instance.

Paths are relative to the repository; `hextype.cc`, `hextype_rbtree.cc` and
`hextype_report.cc` are in `src/compiler-rt-files/`, `HexTypeUtil.cpp`,
`HexTypePass.cpp` and `HexTypeTreePass.cpp` in `src/llvm-files/`.

About 61,000 of the repository's 65,000 lines of implementation are clang and
LLVM sources that are kept whole because a few lines in each are HexType's. The
runtime, the passes and the script, some 3,700 lines, are what these models are
about, so the share of all lines they cover is small whatever they model.

## The system

| part | state | operations | interacts with |
| --- | --- | --- | --- |
| object type map (`hextype.cc`) | `ObjTypeMap`: 2^28 slots, each one entry and a tree of evicted entries | `__update_direct_oinfo`, `__update_oinfo`, `__handle_reinterpret_cast`, `__remove_direct_oinfo`, `__remove_oinfo`, `findObjInfo`, and code emitted in their place | instrumented program calls it; cast verification reads it |
| red-black tree (`hextype_rbtree.cc`) | nodes and a root | look up, insert, delete | used by every slot |
| cast verification (`hextype.cc`) | `VerifyResultCache`, 2^24 entries shared by all threads | `verifyTypeCasting` behind four entry points, `__type_casting_verification_inline`, emitted fast path | reads the map, a type's rule, the phantom types; counts and reports |
| rule search (`hextype.cc`) | local bounds | binary searches for the destination and for each of its phantom types | the rule is emitted by the compiler |
| phantom types (`hextype.cc`) | `ObjPhantomInfo`: a set object per type, shared between types | `__update_phantom_info`, from a constructor of every module | read by cast verification |
| type relations (`HexTypeUtil.cpp`) | `AllTypeInfo`: direct and transitive parents and phantom types | read the struct types and `typeinfo.txt`, resolve, extend | emits rules and phantom records |
| rule table (`HexTypeUtil.cpp`) | `typeInfoArray`, `typePhantomInfoArray` | write the records, find a type's rule | read by registration and at start-up |
| heap tracing (`HexTypeTreePass.cpp`) | allocations and frees found | emit registrations and removals | decides which calls the map sees |
| stack and global tracing (`HexTypePass.cpp`) | allocas, lifetime markers, returns, globals | emit registrations, removals, constructors | as above |
| compile-time verification (`HexTypeTreePass.cpp`) | none but the recursion | walk back from the source of a cast, erase its check | decides which casts are verified |
| filter of cast related types (`HexTypeUtil.cpp`, `src/scripts/merge_typecasting_related_type.py`) | `casting_obj*.txt` across builds, `CastingRelatedSet` | read, extend, merge, filter | decides which types are traced |
| reports and counters (`hextype_report.cc`) | atomic counters | count, report a confusion, print totals at exit | called by cast verification |
| clang hooks (`src/clang-files/`) | none | emit the calls for casts, placement new, `delete`; write type lines | source of all casts |

What is hard here: the program calls in any order, for addresses that share
slots and keys; entries move between slot and tree behind the caller's back;
the compiler emits shortcuts that have to agree with the calls they replace;
instrumentation is placed once for all the ways a function can be entered and
left; caches hold verdicts while memory is reused and modules are loaded; all
tables are shared by threads without a lock; and much arithmetic is on unsigned
or truncated numbers. What makes each part correct:

* map: a look-up returns what was registered last for that address and not
  removed since, whatever else was registered;
* tree: a map, red-black between calls, whose assertions hold;
* rule search: ends, reads only the rule, answers membership;
* cache: a cached verdict is the one a search would give;
* verification: no forbidden cast passes, no allowed cast is reported;
* phantom types: exactly what the modules said, in whatever order they load;
* type relations and tables: rules and phantom sets are what can be reached from
  a type, and are read back as they were written;
* tracing: every live object of a tracked type is registered, and no dead one;
* erased checks: were of pointers whose origin the function itself shows;
* filter: no object a cast can be about is left out, on any side of a module
  boundary.

`PROJECT.json` lists the hazards one by one with the line where each bites, the
properties that would catch it, and where there is none, why.

## The modules

**Registry** is what object tracing promises: a partial map from addresses to
registrations, changed at one address at a time.

**ObjTypeMap** models the table. `slot` and `tree` are `ObjTypeMap[b]` and its
`HexTree`, the tree as the finite map it implements, keyed like `compare()`
does, by the low `Word` bits of the address. `call` is an array call in
progress, one step per element, because elements of one array evict each other.
Each entry point is an action: `UpdateDirect`, `UpdateInline` (the emitted
code), `HandleReinterpret`, `BeginUpdate`/`UpdateElem`, `RemoveDirect`,
`BeginRemove`/`RemoveElem`, `Find`. `Type` stands for the type hash and the
address of its rule, which are always stored together. With `Reregister` off the
program registers free memory only. The slots are modelled for one thread. It
implements `Registry` with `reg` mapped to what `findObjInfo` finds.

**HeapTracing** composes the map with the program that calls it. It keeps the
program's live blocks (`block`) and the queue of runtime calls the passes have
emitted for the operation the program is at (`todo`). `Malloc`, `FreeBlock`,
`Realloc`, `EnterScope` and `LeaveScope` are the program's operations, each with
the calls `handleHeapAlloc`, `handleFree` and `emitInstForObjTrace` put behind
it; `ServeUpdate`, `ServeRemove`, `ServeAdd`, `ServeDel` run them as actions of
ObjTypeMap. `Elements` is `getStructOffsets`: which parts of a type are
registered, and at which offset. The allocator may hand out any free memory.
Of the layout of a type it is assumed that its parts lie inside it
(`LayoutAssumption`), and of a block that it is shorter than 2^32 bytes
(`BytesAssumption` with `CountAssumption`), so that the 32 bit products of
`__update_oinfo` do not wrap.
`CallersKeepWord` is a second refinement: the calls are a behaviour of
ObjTypeMap with `Reregister` off, the program it was proved about.

**StackTracing** models `HexTypePass.cpp`: which allocas and by-value parameters
it traces (`Traced`), where it puts registrations and removals (`Adds`,
`DeletesAtEnd`, `DeletesAtReturn`), and the constructors it appends, which run
by their priorities (`Precedes`) and, among equals, in the order the modules are
linked in (`link`, any order); `pending` are those that have still to run, and
`Due` the one that is next. A function is a
graph of blocks with successors, landing pads, calls, returns and resumes. Then
the program runs: constructors first, calls that nest, exceptions that unwind,
frames that come to lie where others were (`registered` is by depth).

**CompileTimeVerify** models `isSafeSrcValue` and its helpers on the
instructions of a function, the recursion as a stack of values yet to be looked
at, with a limit where the compiler's own stack ends. If the answer is "safe"
the function runs, instructions in any order, and `held` and `cell` say where
its pointers came from: from an object of its own or a global, from elsewhere, or
they are the address of a pointer variable. Such an address can be stored, cast,
indexed and passed on; a store through any pointer that is one changes the
variable, and so does code outside, at any time, once it has the address
(`exposed`). A GEP is where its base is.

**CastRelated** models the builds `cast-obj-opt` takes: `Compile` with the list
on disk, creating or filtering or both, and `Merge`, the script that makes the
next list.

**Dictionary** is what the three functions of the tree promise, and **HexTree**
models them node by node: every rebalancing function is an action, so the
intermediate shapes of a cascade are states. A node is named by its key, since
nothing outside a call keeps a node; inside `rbtree_delete` the name stays while
the key changes. `malloc` does not fail. The loops of `lookup_node` and
`maximum_node` are recursive functions on the nodes (`Visited`, `maximum_node`).
HexTree implements `Dictionary`, which justifies the finite map in ObjTypeMap.

**RuleSearch** models the two loops, first for the destination, then for each of
its phantom types, with `start`, `end` and `middle` as unsigned numbers. The
rule is a sorted array behind its size, as `getSortedAllParentSet` emits it. The
copy of the loops in `__type_casting_verification_inline` differs in nothing
the model sees.

**PhantomInfo** models `__update_phantom_info`, one step per word of a record.
Types share set objects and move from one to another; `sets` holds the objects,
`info` who uses which. Modules can be loaded in any order, and twice.

**CastVerifier** models the life of a cast: `CastUnknown`, `CastBelow`,
`CastBeyond`, `CastKnown` are the outcomes of looking up source and destination,
`CastInline` is the emitted fast path. Then the cache is read (`ProbeSrc`,
`ProbeDst`, `Hit`) or the rule decides (`Decide`) and the verdict is stored
(`StoreSrc`, `StoreDst`, `StoreResult`), one field a step, by any number of
threads. The type of an entry is read when the cast begins, its rule when it is
decided, from whatever is there by then: `rules` is the set of types whose rule
the cast may find, which every registration in the slot it reads from, and every
removal of the tree entry it reads from, changes (`NowFind`). Registration is one
step, the search of a rule one step, the arrival of one phantom type one step:
ObjTypeMap, RuleSearch and PhantomInfo justify these, and all of them can come
between any two steps of a cast. Counting and reporting belong to the step that
decides, but for a cached verdict that a call finds: it is read again to be
counted (`CountHit`). `contested` and `misjudged` are history variables: the
cache entries at which casts of two threads were once in progress together, and
the pairs of types that were once decided by the rule of another object.

**TypeRelation** models `createObjRelationInfo`: reading `typeinfo.txt`
(`ReadLine`), resolving names to indexes and finding types of one size
(`Resolve`), and the two graph searches (`ExtendParentSet`,
`ExtendPhantomSet`). The recursion is a set of calls still to be made. Two types
never have one hash. **RuleTable** extends it with the arrays of words that are
emitted from the result (`Emitted`, record by record), and how
`emitInstForObjTrace` and `__update_phantom_info` find their way in them.

Definitions marked as mutants in the modules are not part of the specification;
each is a plausible slip in one definition that a property must notice. The
`MC` modules hold the small instances.

## The runs

All runs are exhaustive over the stated bounds and take at most about two
minutes.

| run | expected | what it shows | bounds and why they are enough |
| --- | --- | --- | --- |
| `heap` | pass | `TracedExactly`: between the program's steps the map has exactly the tracked parts of live blocks; `ImplementsRegistry`, `CallersKeepWord`, `Settles` | three addresses of one slot, so that a tree holds two entries; a type that starts with its base and has a second one behind it, and an untracked type with a tracked part; blocks of up to three cells |
| `map_anycalls` | pass | `FindsOwnEntry`, `ArrayRegistered`, `OnlyNamedAddress` hold whatever is called, options on, addresses registered twice | three addresses of one slot and one of another: two entries can be in a tree while a third is in the slot |
| `tree` | pass | `PointersAgree`, `RedBlack`, `AssertionsHold`, `ImplementsDictionary` | eight keys: needed for a black-height of three, so that a cascade climbs more than one level; values alternate with the key and one key takes both |
| `rule_search` | pass | `IndexInRule`, `SearchDecides`, `SearchEnds` | all rules of up to five hashes of six, all sets of phantom types; hashes below, between and above the rule |
| `phantom_merge` | pass | `RecordsHonoured`, `PhantomsJustified`, `PhantomsOnlyGrow` | two loads of up to two records over four hashes: two classes can form apart and be joined |
| `cast_program` | pass | `CacheRight`, `AnswersRight`, `Accounted` | one thread, emitted code, two addresses of one slot, three types two of which collide in the cache, three casts: store, displace, ask again |
| `cast_threads` | pass | `MissesExplained`: a forbidden cast is let through in two ways only | two threads, calls and emitted code, three types two of which collide in the cache, three casts, one address that is registered anew under every type and removed, a phantom type that arrives late; threads are symmetric, and outcomes already counted are left out of the view since no step looks at them |
| `cast_race` | violation | `NoFalseReport`: a safe cast is reported | two threads, type pairs that do not collide |
| `stack` | pass | `LiveKnown`, `NoneLeft`, `GlobalsKnown` | eleven functions of up to four blocks: with and without markers, by value, with two ends, two starts, a pad before or behind the normal end, an alloca on one of two ways; two frames, so that one follows another at its depth; two modules, one without types, each with a constructor of its own; all options |
| `compile_time` | pass | `ErasedOnlyKnown`, `AnswersByReach`, `CrashOnlyOnCycle`, `AnalysisEnds` | functions of six instructions with up to two pointer variables: chains through two variables, stores behind loads, cycles, GEPs on objects, variables and pointers from elsewhere, the address of a variable stored in a global, in itself and in another variable, cast and written through, passed to a call; a stack that holds one call more than there are values. Each of the two ways `ErasedOnlyKnown` names occurs |
| `type_relation` | pass | `SetsExact`, `PhantomsAlike`, `TablesReadBack` | four types in any array order, acyclic containment, two sizes, a member of a type that is not tracked, a base that only clang names, tracked or not, a phantom line; hashes small enough to be mistaken for lengths and not in the order of the array |
| `cast_related` | pass | `ListExact`, `CastObjectsTraced`, `FreedAsAllocated` | two modules that share a chain of four types of which neither knows every link: the list needs a round for each |

Each component's type invariant is checked along with it; HexTree's and
HeapTracing's are conjuncts of `PointersAgree` and `TracedExactly`.
`CHECK_DEADLOCK FALSE` is used where the modelled activity ends: a bounded
number of casts or loads, a search that has its answer, a compilation that is
done, a program that has died of an exception.

**Fairness.** `SearchEnds` assumes weak fairness of the steps of a search,
`Settles` of the calls emitted for one operation, `AnalysisEnds` of the walk of
the compiler: each is the work of one thread that never waits, so the thread's
scheduling is all it needs. Nothing is assumed of the program: it need not
allocate, cast, return or end.

## What the violation shows, and other disagreements

* `cast_race` / `NoFalseReport`: between the stores of the destination hash and
  of the verdict another thread reads an old verdict, `BADCAST` in a fresh table
  (`hextype.cc:191`).

Seen while modelling, stated as hazards, without a run of their own:

* `compare()` casts pointers to `int` (`hextype_rbtree.cc:108`), and 2^32 is a
  multiple of the span of a slot index, so objects 4 GiB apart in one slot are
  one key. `FindsOwnEntry` is proved under `KeysDistinct`, which excludes this.
* The emitted fast path stores every field but `HeapArraySize`
  (`HexTypeUtil.cpp:798`). `TracedExactly` shows that stack objects, which alone
  take that path, are none the worse for it.
* Entries of struct elements and of `typeinfo.txt` start with index 0
  (`HexTypeUtil.cpp:1152`, `:247`), and only those that name a tracked parent get
  another. A class with a member or base of a type that is not tracked (from a
  library, a C struct, an anonymous union), or with a phantom line, so has the
  first type of the module for a parent, and the parents of that one: its objects
  may be cast to any of them unreported. `SetsExact` says which types come into
  a rule this way (`Misread`, `MisreadPhantom`) and that no others do.
* With several threads a type confusion can be missed, in the two ways
  `MissesExplained` names: casts of two pairs of types that collide in the cache
  can leave an entry with the types of one and the verdict of the other, and the
  rule read again at `hextype.cc:136` and `:244` can be that of another object.
  A cast can also be counted without an outcome, when the verdict turns to
  `BADCAST` between the two reads at `hextype.cc:117` and `:119`.
* A check is erased for a GEP whatever its base (`HexTypeTreePass.cpp:438`,
  whose comment says "if source type is array (not pointer)"), and for a value
  loaded from a variable whatever writes to it but stores that name it
  (`HexTypeTreePass.cpp:362`): a member of an argument, or a variable whose
  address was passed on, can hold anything. `ErasedOnlyKnown` says that there is
  no third way.
* The removal of a heap block is emitted only if the instruction before the call
  is a bitcast from a tracked type (`HexTypeTreePass.cpp:225`); otherwise the
  registrations stay.
* The emitted hit of a cached bad cast prints to the console only
  (`hextype.cc:325`), though `PRINT_BAD_CASTING_FILE` asks for a file.
* `calloc` is taken to have its count second (`HexTypeTreePass.cpp:285`);
  `realloc` forgets the first tracked part only (`HexTypeUtil.cpp:871`), and
  before it is known to have succeeded (`HexTypeTreePass.cpp:284`).
* `isSafeStackAlloca` counts uses by pointer, and the check of a cast takes an
  integer: with `safe-stack-opt` and without `inline-opt` an object that is only
  cast is not traced (`HexTypeUtil.cpp:216`). `LiveKnown` names the exception
  (`GivenUp`).
* By-value parameters behind one that is not are not traced
  (`HexTypePass.cpp:77`); all but the first marker of each kind are ignored
  (`HexTypePass.cpp:109`); a frame that an exception removes leaves its
  registrations (`HexTypePass.cpp:184`); an object returned by address is never
  removed (`HexTypePass.cpp:205`). `LiveKnown` and `NoneLeft` say precisely that
  nothing else goes wrong.
* A cast of a reference adds nothing to the list of cast related types: the type
  it is recorded by is the struct itself (`src/clang-files/CGExpr.cpp:3689`), and
  only pointers are written (`HexTypeUtil.cpp:541`). CastRelated is about casts
  of pointers.

## What is proved

The `_proofs` modules extend the component's module; every theorem is about its
`Spec` and holds for all constants that meet the named assumptions. No theorem
needs a bound on addresses, types, threads, functions, modules or the lengths of
anything except that `MaxCount` is below `Word`: a longer array never ends, since
the index is a `uint32_t`.

* **HeapTracing_proofs**, first part: ObjTypeMap. `TypeOK` and `EntriesAtHome`
  (an entry is in the bucket and under the key it is searched by) are inductive
  for all calls. With `KeysDistinct` (addresses of one slot differ in the key;
  false for objects 4 GiB apart) follow `FindsOwnEntry`, `OnlyNamedAddress` and
  `ArrayRegistered`. `OrderlyProgram` adds that neither re-registration nor
  reinterpret casts happen: then
  `Orderly == TypeOK /\ EntriesAtHome /\ OneHome /\ PendingFree` is inductive.
  `OneHome` (no address is both in its slot and in the tree) alone is not:
  storing an element of an array could meet that very element in the tree, and
  `PendingFree` says that the elements a registration has still to store are not
  found. From it come `OneHome`, `ArrayForgotten` (what an array removal has
  passed is not found) and the refinement of `Registry`: every step maps to one
  operation of the registry or to a stutter.
* **HeapTracing_proofs**, second part: the program and its emitted calls, for
  every layout of the types, every history of allocations, any slots. Of the
  constants only `KeysDistinct` is asked beyond the assumptions of the module.
  `HeapTyped` says that live blocks are disjoint, and makes every emitted call one
  the runtime allows (`HeapRunsTheMap`). The invariant is `HeapInv`. `Traced` is
  what is to be known: an object per subobject of a live block, with the count its
  heap block was registered with. Each emitted call, and the one in progress, is a
  job with a set of addresses it has still to reach (`Reach`); `ToForget` and
  `ToRegister` are the addresses the removals and the registrations have to reach.
  `NoneMissing` and `NoneLeft` say that the map is exact but for those, and
  `Schedule` that jobs do not get into each other's way: removals come first, no
  two registrations and no two removals reach one address, what is registered is
  what `Traced` has there, and a removal still finds its first element, whose count
  it goes by. That last part is what makes the removals of a heap block right
  although they pass 1 for the number of elements. `ElementsLaidOut` and
  `SpotUnique` give every subobject of every element an address of its own. With
  nothing left to do `HeapInv` is `TracedExactly` (`HeapTracedExactly`); at a
  registration it gives `CallersKeepWord` (`EmittedCallsKeepWord`); and the
  refinement of `Registry` needs no `OrderlyProgram` here (`HeapImplementsRegistry`).
* **HexTree_proofs**, for every set of keys and values and trees of any size: the
  four properties that the run checks, from one invariant `Inv`
  (`TreeInvariant`). "It is a red-black tree" is not inductive, since it is false
  within a call, and what is true there differs from case to case. A tree is seen
  as functions on its nodes, with the subtree of each (`Shape`), the order of the
  names (`Ordered`) and black heights (`Balanced`). `Balanced` leaves room for the
  faults the cases repair: a node `e` that may be red below a red parent, a node
  `d` whose subtree lacks a black node, a victim `v` that is still in the tree and
  counts for nothing. `InsertInv`, `DeleteInv` and `FinishInv` say for each
  function which of these the tree has and what the cases before have ruled out
  (`Below` keeps the victim under `d`); `Steady` is a tree without faults. The
  proof is in layers: what a rotation, a change of colours, a new leaf and a
  removal do to `Shape`, `Ordered` and `Balanced` (a case and its mirror image are
  one lemma with left and right exchanged); that `rotate_left`, `replace_node`,
  `TakeOver`, `Freed` and the others do this to the pointers; what each case makes
  of a tree; that each action keeps `Inv`. While a deletion runs the node that has
  taken over key and value keeps its name, so that names are in the order of the
  keys but for the victim (`NamedBy`), and `delete_finish` gives the rest their
  keys for names again (`Naming`). `Inv` gives `PointersAgree` and
  `AssertionsHold` at once, and `RedBlack` by comparing the heights with
  `BlackHeights` (`OneHeight`). For `ImplementsDictionary` a search is a path
  (`Path`) which, in an ordered tree, ends at the node of the key (`PathFinds`);
  hence what is read depends on the keys and values of the nodes alone
  (`ContentIs`), and no rotation shows.
* **PhantomInfo_proofs.** `Merged`: the set in hand belongs to the type of the
  record, and a class of types that no record leaves or enters keeps its sets to
  itself (`Sorted`). `RecordsHonoured` is part of it, `PhantomsJustified`
  follows, `PhantomsOnlyGrow` follows step by step.
* **CastVerifier_proofs.** `ConfusionsExplained` holds for any number of threads,
  with collisions, and with registrations, removals and phantom types at any
  time. `Trusted` says that a safe verdict, in the cache or in a frame, is of a
  pair that is allowed, unless that pair has been judged by another object's
  rule or shares an entry that is contested. At a shared entry that is not, one
  cast works at a time (`Alone`) and finds what it has written or compared
  (`Tracked`), so only it can see the entry half written. Phantom types only add
  to what is allowed.
  "No forbidden cast is let through" would be false: pairs that collide can be
  torn. `CacheStaysRight` and `AnswersAreRight` hold for one thread, all modules
  loaded: `Coherent` says that every entry is right except the one being
  written. These assume that every registered type has a rule (`RulesKnown`), as
  emitted code does. `Balanced` sets the casts that are verified but not yet
  settled off against the counters, the set of them growing and shrinking by one
  thread a step; it is inductive with `Coherent`, which rules out that a cached
  verdict changes between the two reads of a hit, and gives `CastsAccounted`.
  For any number of threads, without any hypothesis, one half of it is left
  (`Covered`): `OutcomesNeverExceed`. The module also
  holds the theorems about RuleSearch (`SearchSpec`), whose verdict each cast
  takes in one step. `Narrowed`: what the bounds have left behind below is smaller
  and above is larger than the target, the bounds cross by one at most, and a hash
  that is neither the target nor still to do is not in the rule. The arithmetic
  needs only that the rule fits the address space (`SizeAssumption`).
* **TypeRelation_proofs.** For every module: `Naming` follows the names of a type
  from the lines into its entries, `ParentsPlaced` and `PhantomsPlaced` say which
  of them have been given a place and that all others stand for the first type,
  so that the calls lead where the module's names lead (`CallsMatch`). `Explored`
  says that while a type is searched everything collected is reachable and
  everything adjacent to what is visited is collected or still to be called, so at
  the end the sets are exactly the reachable types (`RelationsExact`). Same-size is
  symmetric, hence `PhantomsInterchange`, for modules without phantom lines, which
  the property itself says. `TablesAreReadBack` holds of every module. `Laid` says
  where in an emitted array each record is: an array only grows while it is
  emitted (`Begins`), so a record stays where it was put (`EmittedLaid`). Whoever
  goes from length to length meets the records at these very positions
  (`StartsFound`) and reads the words that were written (`RecordRead`); hashes
  tell types apart, so the first record with the hash of a type is the type's.
  The one fact needed of the derivation is `OwnPhantom`: a type is among its own
  phantom types, so sets of one are exactly those left out of the array.
* **StackTracing_proofs.** For all programs of functions with matched markers:
  `Good`, stated depth by depth, says that a frame whose object is alive has it
  registered, that a registration of a completely instrumented function is the
  frame's own, and that while the object is alive the frame is inside the region
  its markers enclose. The region is what makes it inductive: without it a return
  could be reached with the object alive. `AliveIsKnown` and `NothingLeft`
  follow. `GlobalsComeFirst` rests on `Started`: a module's globals are registered
  exactly when their constructor has run, the constructor of its table has run
  before, and while code of the program runs none of these is pending. That the
  pass appends the two in this order is what `TableFirst` takes from the code.
* **CompileTimeVerify_proofs.** `IInv` has two parts. Of the walk: what it has met
  is needed by the source (`MetIsNeeded`), what it has passed needs only what it
  has met (`PassedIsSafe`); when nothing is pending what was met is closed, which
  gives `WalkDecidesReach`. Of the function that runs, whatever the walk did: the
  address of a variable that is only loaded from and stored to is nowhere else
  (`Contained`), and a set of values that is closed under everything a pointer
  can come from, bases of GEPs included, and has neither a value from elsewhere
  nor one loaded from a variable that escapes, never gets a pointer from
  elsewhere (`CleanIsKnown`). `ErasureIsSound` joins the two: what the source
  depends on, with what the bases of its GEPs come from, is such a set unless it
  holds one of the two ways the property names. For
  `OverflowMeansCycle` the stack is a path: each value on it is one the value below
  depends on. A path longer than the number of values has one twice
  (`FS_PigeonHole` on its positions), and the part between the two is a cycle.
* **CastRelated_proofs.** `Inv`: the files hold needed types only, every module
  compiled in this round has contributed what the list then gave it
  (`RoundDone`), and a list that a round has not changed covers itself. As
  `Needed` is the least set that covers, the list is exactly that.

Assumptions are of two kinds: `ASSUME`s in the component modules (shapes of the
constants; TLC evaluates them in the runs), and named hypotheses in the theorems
above, each a condition on the program that the code itself does not ensure.

## What is model-checked only

`SearchEnds`, `Settles` and `AnalysisEnds`, since liveness and `ENABLED` are
beyond the prover. The violation. Every other property of a run is stated by a
theorem.

Induction is not out of reach where what is to be shown is a first-order formula:
the library proves that `<` on the naturals is well founded, so a set of
counterexamples has a least member (`LeastNat` in HeapTracing_proofs and HexTree_proofs).
That is how enumerations in ascending order and the recursive functions of
RuleTable and HexTree are shown to exist, and what they compute; on trees it is
`TreeInduction`, by the size of a subtree.

## What the models assume of the program

* Threads: the map is used by one thread (ObjTypeMap, HeapTracing); a registration
  or removal is one step to the casts of other threads (CastVerifier), and a
  look-up in `ObjPhantomInfo` sees it before or after an insertion. Fields of a
  cache entry are stored in the order of the source. An entry freed while a cast
  reads from it may give the rule of any type; `cast_threads` has one address,
  whose entry never leaves the slot for the tree, so this case is covered by
  `ConfusionsExplained` only. `MaxCasts` bounds the casts of a run.
* Heap: a block is freed and reallocated under the type it was allocated for, the
  instruction before the call that frees it is a bitcast from that type
  (`collectFree` finds no other), it holds at least one object, what is
  reallocated has one tracked part (`OneEntry`), no allocation fails.
* Functions: lifetime markers are matched (`Matched`); operands have their types,
  and a variable that was never written is not looked at (CompileTimeVerify).
* Names: two types never have one hash.
* Builds: the list of cast related types is believed only after a round of
  builds that added nothing (`stable`), and casts are of pointers.

## Not modelled

* **Two threads on one slot.** Slots and trees are written without a lock or an
  atomic. A model would show that any field can be lost; there is no promise to
  check and no protocol to get right.
* **Object counters** (`hextype_report.cc`). They are totals printed at exit
  that nothing reads; that a difference of them can wrap (line 99) is plain to see.
* **`syncTypeName` and the hash of a name.** String rewriting whose only hazard,
  two types with one name, is excluded by assumption.
* **Running out of memory**, in the tree and the table.
* **The text of reports and the files they go to.**
* **The clang hooks** inside vendored sources: each emits a call where clang
  emits a cast or an allocation. What the calls are given is what the models
  take as their inputs; the code around them is clang's.
* **How the passes edit code**: splitting blocks, replacing calls, metadata.
  What the edited code does is modelled.
* **Build files, scripts other than the merge script, lists of types.** No
  behaviour.
