------------------------------ MODULE StackTracing ------------------------------
(***************************************************************************)
(* Where HexTypePass.cpp puts the registrations and removals of stack and  *)
(* global objects, and the program that then runs.  A function is a graph  *)
(* of blocks with one object on its frame: a local variable, between       *)
(* lifetime markers or without, or a parameter passed by value.  Constructors*)
(* run first, module by module, then main; functions call one another, and *)
(* exceptions unwind them.  A frame at a depth reuses the addresses of the *)
(* frames that were there before.                                          *)
(***************************************************************************)
EXTENDS Naturals, Sequences, FiniteSets

CONSTANTS
  Block,      \* blocks of a function, numbered in the order of the function
  Functions,  \* the functions of the program
  MaxDepth,   \* bound: frames on the stack
  Module, Typed,   \* the modules, and those with struct types, hence globals
  Ctor,            \* the constructor of a module, or
  None

Entry == 1

(* The object is a local, or a parameter by value; "late" when a parameter  *)
(* that is not by value comes before it.  Its uses: passed to a call, given *)
(* to a check of a cast, stored somewhere.                                  *)
Function ==
  [next : [Block -> SUBSET Block], pads : [Block -> SUBSET Block],
   calls : SUBSET Block, returns : SUBSET Block, resumes : SUBSET Block,
   object : {"local", "byval", "late"}, alloca : Block,
   starts : SUBSET Block, ends : SUBSET Block,
   returned : SUBSET Block, uses : SUBSET {"passed", "cast", "stored"}]

(* Markers come in pairs: in a region that is entered at its start no       *)
(* return is reached but through an end.                                    *)
Matched(f) ==
  \E Region \in SUBSET Block :
    /\ f.starts \subseteq Region
    /\ \A b \in Region : f.pads[b] \subseteq Region
    /\ \A b \in Region \ f.ends : f.next[b] \subseteq Region
    /\ f.returns \cap Region \subseteq f.ends

WellFormed(f) ==
  /\ f.starts = {} <=> f.ends = {}
  /\ Matched(f)
  /\ f.object # "local" => f.alloca = Entry /\ f.starts = {} /\ f.returned = {}
  /\ f.returned \subseteq f.returns
  /\ f.uses \cap {"passed", "cast"} # {} => f.calls # {}

ASSUME BlockAssumption == IsFiniteSet(Block) /\ Block \subseteq Nat /\ Entry \in Block
ASSUME FunctionsAssumption == \A f \in Functions : f \in Function /\ WellFormed(f)
ASSUME DepthAssumption == MaxDepth \in Nat \ {0}
ASSUME ModuleAssumption == Typed \subseteq Module /\ Ctor \in [Module -> Functions \cup {None}]
Frame == [f : Functions, at : Block, object : {"alive", "dead"}, throwing : BOOLEAN]

ASSUME NoneAssumption == None \notin Functions /\ None \notin Frame

VARIABLES
  opt,        \* the options stack-opt, safe-stack-opt and inline-opt
  link,       \* the place of each module in the order they are linked in
  pending,    \* constructors still to run
  table,      \* the object type map is allocated
  globals,    \* modules whose globals are registered
  depth, frame,  \* the stack
  registered, \* the registration at the object of each depth: whose, or None
  thrown      \* history: depths whose registration an exception has left

vars == <<opt, link, pending, table, globals, depth, frame, registered, thrown>>
startup == <<opt, link, pending, table, globals>>   \* all but the run itself

Depth == 1 .. MaxDepth
-----------------------------------------------------------------------------
(* What the pass emits for a function.                                      *)

(* isSafeStackAlloca: uses that end in a load, a store to the object or in  *)
(* an argument that is no pointer are safe.  A check of a cast is given an  *)
(* integer, on which the code of inline-opt computes.  A parameter's copy   *)
(* is passed to memcpy.                                                     *)
IsSafeStackAlloca(f) ==
  /\ f.object = "local"
  /\ f.uses \subseteq IF opt.inline THEN {} ELSE {"cast"}

UncastIsUntraced(f) ==  \* mutant of Traced: only checks in the function itself count
  /\ f.object # "late"
  /\ opt.stack => "cast" \in f.uses
  /\ ~(opt.safe /\ IsSafeStackAlloca(f))

(* stackObjTracing, collectAllocaInstInfo, handleFnPrameter; for mayCast    *)
(* any function that calls may cast.                                        *)
Traced(f) ==
  /\ f.object # "late"
  /\ opt.stack => f.calls # {}
  /\ ~(opt.safe /\ IsSafeStackAlloca(f))

(* collectLifeTimeInfo keeps the first marker of each kind.                 *)
First(markers) == {b \in markers : \A c \in markers : b <= c}

(* A path to b passes the alloca, or there is no path.                      *)
Dominated(f, b) ==
  \/ b = f.alloca
  \/ \E S \in SUBSET Block :
       /\ Entry \in S /\ b \notin S
       /\ \A c \in S \ {f.alloca} : f.next[c] \cup f.pads[c] \subseteq S

ReturnsIt(f) == \E b \in f.returned : Dominated(f, b)

(* handleAllocaAdd *)
Adds(f) ==
  IF ~Traced(f) THEN {} ELSE IF f.starts # {} THEN First(f.starts) ELSE {f.alloca}

(* handleAllocaDelete: at the end of its life, or where the frame returns.  *)
Marked(f) == Traced(f) /\ ~ReturnsIt(f) /\ f.ends # {}
DeletesAtEnd(f) == IF Marked(f) THEN First(f.ends) ELSE {}

DeletesAtFirstReturn(f) ==  \* mutant of DeletesAtReturn: one return is enough
  IF Traced(f) /\ ~ReturnsIt(f) /\ f.ends = {}
  THEN First({b \in f.returns : Dominated(f, b)}) ELSE {}

DeletesAtReturn(f) ==
  IF Traced(f) /\ ~ReturnsIt(f) /\ f.ends = {}
  THEN {b \in f.returns : Dominated(f, b)} ELSE {}
-----------------------------------------------------------------------------
(* Constructors: both of HexType's have priority 0, before those of the     *)
(* program.  The tree pass runs first and appends its own if the module has *)
(* types; of one module and priority they run as they were appended.        *)
Constructor(what, m) == [what |-> what, module |-> m]

GlobalsFirst(m) ==  \* mutant of Appended: the passes in the other order
  IF m \in Typed THEN <<Constructor("__init_global_object", m), Constructor("__init", m)>>
  ELSE <<Constructor("__init_global_object", m)>>

Appended(m) ==
  IF m \in Typed THEN <<Constructor("__init", m), Constructor("__init_global_object", m)>>
  ELSE <<Constructor("__init_global_object", m)>>

Constructors ==
  (UNION {{Appended(m)[i] : i \in DOMAIN Appended(m)} : m \in Module})
    \cup {Constructor("user", m) : m \in {k \in Module : Ctor[k] # None}}

(* The linker puts the modules in any order, and sorts by priority.         *)
LinkOrders ==
  {l \in [Module -> 1 .. Cardinality(Module)] : \A m, k \in Module : l[m] = l[k] => m = k}

Priority(c) == IF c.what = "user" THEN 1 ELSE 0

Precedes(c, d) ==
  \/ Priority(c) < Priority(d)
  \/ Priority(c) = Priority(d) /\ link[c.module] < link[d.module]
  \/ \E i, j \in DOMAIN Appended(d.module) :
       i < j /\ Appended(d.module)[i] = c /\ Appended(d.module)[j] = d

(* A constructor runs when all that precede it have run.                    *)
Due(c) == depth = 0 /\ c \in pending /\ \A d \in pending : ~Precedes(d, c)

Init ==
  /\ opt \in [stack : BOOLEAN, safe : BOOLEAN, inline : BOOLEAN]
  /\ link \in LinkOrders /\ pending = Constructors
  /\ table = FALSE /\ globals = {}
  /\ depth = 0
  /\ frame = [d \in Depth |-> None]
  /\ registered = [d \in Depth |-> None]
  /\ thrown = {}

(* __update_phantom_info allocates the table, once.                         *)
InitTable(m) ==
  LET c == Constructor("__init", m)
  IN  /\ Due(c)
      /\ pending' = pending \ {c} /\ table' = TRUE
      /\ UNCHANGED <<opt, link, globals, depth, frame, registered, thrown>>

InitAllGlobals(m) ==  \* mutant of InitGlobals: globals of any type
  LET c == Constructor("__init_global_object", m)
  IN  /\ Due(c)
      /\ pending' = pending \ {c} /\ globals' = globals \cup {m}
      /\ UNCHANGED <<opt, link, table, depth, frame, registered, thrown>>

InitGlobals(m) ==
  LET c == Constructor("__init_global_object", m)
  IN  /\ Due(c)
      /\ pending' = pending \ {c} /\ globals' = globals \cup ({m} \cap Typed)
      /\ UNCHANGED <<opt, link, table, depth, frame, registered, thrown>>
-----------------------------------------------------------------------------
(* The object is alive from the alloca or the start marker.                 *)
Begins(f, b) == IF f.starts = {} THEN b = f.alloca ELSE b \in f.starts

(* The frame at d enters block b of f, once what it leaves is done with.    *)
Arrive(d, f, b, object, reg) ==
  /\ frame' = [frame EXCEPT ![d] = [f |-> f, at |-> b, throwing |-> FALSE,
                                    object |-> IF Begins(f, b) THEN "alive" ELSE object]]
  /\ registered' = [reg EXCEPT ![d] = IF b \in Adds(f) THEN f ELSE @]
  /\ thrown' = IF b \in Adds(f) THEN thrown \ {d} ELSE thrown

Enter(d, f) ==
  /\ depth' = d
  /\ Arrive(d, f, Entry, "dead", registered)

Top == frame[depth]

(* A constructor of the program, then main and what runs after it.          *)
Start(f) ==
  /\ depth = 0
  /\ IF pending = {} THEN UNCHANGED pending
     ELSE \E c \in pending : /\ Due(c) /\ c.what = "user" /\ f = Ctor[c.module]
                            /\ pending' = pending \ {c}
  /\ Enter(1, f)
  /\ UNCHANGED <<opt, link, table, globals>>

Call(f) ==
  /\ depth \in 1 .. MaxDepth - 1
  /\ ~Top.throwing /\ Top.at \in Top.f.calls
  /\ Enter(depth + 1, f)
  /\ UNCHANGED startup

(* What is left registered, and alive, behind the end of a block.           *)
AtEnd(deletes) ==
  [registered EXCEPT ![depth] = IF Top.at \in deletes THEN None ELSE @]

Branch(b) ==
  /\ depth > 0
  /\ b \in IF Top.throwing THEN Top.f.pads[Top.at] ELSE Top.f.next[Top.at]
  /\ IF Top.throwing
     THEN Arrive(depth, Top.f, b, Top.object, registered)
     ELSE Arrive(depth, Top.f, b, IF Top.at \in Top.f.ends THEN "dead" ELSE Top.object,
                 AtEnd(DeletesAtEnd(Top.f)))
  /\ UNCHANGED <<startup, depth>>

Pop == /\ depth' = depth - 1
       /\ UNCHANGED startup

Return ==
  /\ depth > 0 /\ ~Top.throwing /\ Top.at \in Top.f.returns
  /\ registered' = AtEnd(DeletesAtEnd(Top.f) \cup DeletesAtReturn(Top.f))
  /\ frame' = [frame EXCEPT ![depth] = None]
  /\ Pop /\ UNCHANGED thrown

(* A function outside the program throws.                                   *)
Throw ==
  /\ depth > 0 /\ ~Top.throwing /\ Top.at \in Top.f.calls
  /\ frame' = [frame EXCEPT ![depth].throwing = TRUE]
  /\ UNCHANGED <<startup, depth, registered, thrown>>

(* The frame has no pad for the exception, or resumes it, and is gone.  An  *)
(* exception nobody catches ends the program.                               *)
Unwind ==
  /\ depth > 1
  /\ IF Top.throwing THEN Top.f.pads[Top.at] = {} ELSE Top.at \in Top.f.resumes
  /\ registered' = IF Top.throwing THEN registered ELSE AtEnd(DeletesAtEnd(Top.f))
  /\ thrown' = IF registered'[depth] = None THEN thrown ELSE thrown \cup {depth}
  /\ frame' = [frame EXCEPT ![depth] = None, ![depth - 1].throwing = TRUE]
  /\ Pop

Next ==
  \/ \E m \in Module : InitTable(m) \/ InitGlobals(m)
  \/ \E f \in Functions : Start(f) \/ Call(f)
  \/ \E b \in Block : Branch(b)
  \/ Return \/ Throw \/ Unwind

Spec == Init /\ [][Next]_vars
-----------------------------------------------------------------------------
TypeOK ==
  /\ opt \in [stack : BOOLEAN, safe : BOOLEAN, inline : BOOLEAN]
  /\ link \in LinkOrders /\ pending \subseteq Constructors
  /\ table \in BOOLEAN /\ globals \subseteq Typed
  /\ depth \in 0 .. MaxDepth
  /\ frame \in [Depth -> Frame \cup {None}]
  /\ \A d \in Depth : frame[d] # None <=> d <= depth
  /\ registered \in [Depth -> Functions \cup {None}]
  /\ thrown \subseteq Depth

(* safe-stack-opt without inline-opt gives up the checks a function makes   *)
(* of its own object.                                                       *)
GivenUp(f) == opt.safe /\ ~opt.inline /\ f.uses \subseteq {"cast"}

(* While a function calls, and its object is alive and can be reached by a  *)
(* check, the map has it, whichever way the function was entered and went   *)
(* and whatever the options leave out.  The exceptions: a parameter behind  *)
(* one that is not by value, and a local with two start markers.            *)
LiveKnown ==
  \A d \in 1 .. depth :
    LET f == frame[d].f IN
    frame[d].object = "alive" /\ frame[d].at \in f.calls /\ f.uses # {} /\ ~GivenUp(f)
      /\ f.object # "late" /\ Cardinality(f.starts) <= 1
    => registered[d] = f

(* Removed wherever the object's life may end.                              *)
Complete(f) ==
  /\ \A b \in f.returned : ~Dominated(f, b)
  /\ Cardinality(f.starts) <= 1 /\ Cardinality(f.ends) <= 1
  /\ f.ends = {} => \A b \in f.returns : Dominated(f, b)

(* A registration outlives its frame, to be found under the addresses of a  *)
(* later one, only if an exception unwound the frame, or the function       *)
(* returns the object, has several markers, or returns without passing the  *)
(* alloca.                                                                  *)
NoneLeft ==
  \A d \in Depth :
    d > depth /\ registered[d] # None /\ d \notin thrown => ~Complete(registered[d])

(* When the program's own code runs, constructors included, the map is      *)
(* there and has the globals of all modules.                                *)
GlobalsKnown == (globals # {} => table) /\ (depth > 0 => globals = Typed)
===============================================================================
