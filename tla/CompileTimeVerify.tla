--------------------------- MODULE CompileTimeVerify ---------------------------
(***************************************************************************)
(* The optimisation that erases casts at compile time                      *)
(* (HexTypeTreePass.cpp:344-498): isSafeSrcValue walks back from the       *)
(* source of a cast over the instructions of the function, and if all it   *)
(* meets are objects of the function's own making, the call that verifies  *)
(* the cast is erased.  Then the function runs, without that check.        *)
(*                                                                         *)
(* The walk trusts a GEP whatever its base, and knows of the stores that   *)
(* name a variable only: a function may compute a GEP from a pointer it    *)
(* was handed, and may let the address of a pointer variable out, to be    *)
(* written through another pointer, by another function or thread.         *)
(***************************************************************************)
EXTENDS Naturals, Sequences, FiniteSets

CONSTANTS
  Value,     \* the instructions, arguments and globals of a function
  Functions, \* the functions the compiler is given
  MaxDepth,  \* calls that fit on the stack of the compiler
  Nothing    \* no operand

Allocas == {"struct", "pointer", "scalar"}   \* by allocated type
Objects == {"global", "struct", "new"}
Ops == Allocas \cup Objects \cup {"gep", "call", "load", "store", "bitcast", "other"}
Instruction == [op : Ops, ptr : Value \cup {Nothing}, args : SUBSET Value]

(* Operands have their types: a variable that holds a pointer is a pointer  *)
(* variable, and a store is no value.  Other instructions and calls take    *)
(* what they like.                                                          *)
WellFormed(c) ==
  \A v \in Value :
    /\ c[v].op \in {"load", "store"} <=> c[v].ptr # Nothing
    /\ c[v].op \in {"store", "bitcast", "gep"} => \E a \in Value : c[v].args = {a}
    /\ c[v].op \in Allocas \cup Objects \cup {"load"} => c[v].args = {}
    /\ c[v].ptr # Nothing => c[c[v].ptr].op \notin {"store", "struct", "scalar"}
    /\ \A a \in c[v].args : c[a].op # "store"

ASSUME FunctionsAssumption == \A c \in Functions : c \in [Value -> Instruction] /\ WellFormed(c)
ASSUME DepthAssumption == MaxDepth \in Nat \ {0}
ASSUME ValueAssumption == Value \cap {Nothing, "unset", "known", "unknown"} = {}

VARIABLES
  code,     \* the function: op, pointer operand and value operands
  src,      \* the source of the cast
  stack,    \* calls of isSafeSrcValue in progress: what each has yet to look at
  visited,  \* history: the values answered true or being looked into
  answer,
  held,     \* the function runs: where the pointers it has computed came from
  cell,     \* and those its pointer variables hold
  exposed   \* pointer variables whose address others have

function == <<code, src>>
analysis == <<stack, visited, answer>>
running == <<held, cell, exposed>>
vars == <<code, src, stack, visited, answer, held, cell, exposed>>

Op(v) == code[v].op

(* isLocalPointer *)
IsLocalPointer(p) == p \in Value /\ Op(p) \in Allocas

(* isSafePointer looks at every value stored to the variable. *)
StoredTo(p) == UNION {code[s].args : s \in {x \in Value : Op(x) = "store" /\ code[x].ptr = p}}

(* Where a pointer came from: an object of the function's making or a       *)
(* global, a pointer variable whose address it is, or elsewhere; "unset"    *)
(* before the instruction runs.                                             *)
Origin == {"unset", "known", "unknown"} \cup Value

Start(v) == IF Op(v) = "pointer" THEN v
            ELSE IF Op(v) \in Objects \cup Allocas THEN "known" ELSE "unset"

Init ==
  /\ code \in Functions
  /\ src \in {v \in Value : Op(v) # "store"}
  /\ stack = <<{src}>> /\ visited = {} /\ answer = "none"
  /\ held = [v \in Value |-> Start(v)]
  /\ cell = [v \in Value |-> "unset"]
  /\ exposed = {}
-----------------------------------------------------------------------------
LoadTrusted(v) ==  \* mutant of Refused: a pointer loaded from anywhere is trusted
  Op(v) \in {"scalar", "call", "other"}

(* Answered false without looking further. *)
Refused(v) ==
  \/ Op(v) \in {"scalar", "call", "other"}
  \/ Op(v) = "load" /\ ~IsLocalPointer(code[v].ptr)

(* What the answer for a value depends on: all of it has to be safe. *)
Needs(v) ==
  CASE Op(v) = "load"    -> StoredTo(code[v].ptr)
    [] Op(v) = "pointer" -> StoredTo(v)
    [] Op(v) \in {"store", "bitcast"} -> code[v].args
    [] OTHER -> {}

Top == stack[Len(stack)]
Below == SubSeq(stack, 1, Len(stack) - 1)
Looking == answer = "none" /\ stack # <<>>

(* isSafeSrcValue(v) *)
Refuse(v) ==
  /\ Looking /\ v \in Top /\ Refused(v)
  /\ answer' = "unsafe"
  /\ UNCHANGED <<stack, visited, function, running>>

FirstIsEnough(v) ==  \* mutant of Descend: one safe store answers for all
  /\ Looking /\ v \in Top /\ ~Refused(v)
  /\ Len(stack) < MaxDepth
  /\ stack' = Append(Append(Below, {}), Needs(v))
  /\ visited' = visited \cup {v}
  /\ UNCHANGED <<answer, function, running>>

DescendIntoSelf(v) ==  \* mutant of Descend: a cast is passed on, not its operand
  /\ Looking /\ v \in Top /\ ~Refused(v)
  /\ Len(stack) < MaxDepth
  /\ stack' = Append(Append(Below, Top \ {v}), IF Op(v) = "bitcast" THEN {v} ELSE Needs(v))
  /\ visited' = visited \cup {v}
  /\ UNCHANGED <<answer, function, running>>

DescendUnbounded(v) ==  \* mutant of Descend
  /\ Looking /\ v \in Top /\ ~Refused(v)
  /\ stack' = Append(Append(Below, Top \ {v}), Needs(v))
  /\ visited' = visited \cup {v}
  /\ UNCHANGED <<answer, function, running>>

Descend(v) ==
  /\ Looking /\ v \in Top /\ ~Refused(v)
  /\ Len(stack) < MaxDepth
  /\ stack' = Append(Append(Below, Top \ {v}), Needs(v))
  /\ visited' = visited \cup {v}
  /\ UNCHANGED <<answer, function, running>>

OverflowRetries(v) ==  \* mutant of Overflow: the walk is neither answered nor given up
  /\ Looking /\ v \in Top /\ ~Refused(v)
  /\ Len(stack) = MaxDepth
  /\ UNCHANGED vars

(* The recursion has no record of where it has been. *)
Overflow(v) ==
  /\ Looking /\ v \in Top /\ ~Refused(v)
  /\ Len(stack) = MaxDepth
  /\ answer' = "crash"
  /\ UNCHANGED <<stack, visited, function, running>>

ReturnTrue ==
  /\ Looking /\ Top = {}
  /\ stack' = Below
  /\ answer' = IF Len(stack) = 1 THEN "safe" ELSE "none"
  /\ UNCHANGED <<visited, function, running>>

Analyse == ReturnTrue \/ \E v \in Value : Refuse(v) \/ Descend(v) \/ Overflow(v)
-----------------------------------------------------------------------------
(* What code elsewhere may hand over: a pointer of its own, or the address  *)
(* of a variable that was let out.                                          *)
Foreign(out) == {"unknown"} \cup out

(* Instructions run in any order and any number of times, as branches and   *)
(* loops may have it.                                                       *)
Compute(v) ==
  /\ \/ /\ Op(v) \in {"bitcast", "gep"}
        /\ \E a \in code[v].args : held' = [held EXCEPT ![v] = held[a]]
     \/ /\ Op(v) = "load" /\ held[code[v].ptr] \in Value
        /\ held' = [held EXCEPT ![v] = cell[held[code[v].ptr]]]
     \/ /\ Op(v) = "load" /\ held[code[v].ptr] \in {"known", "unknown"}
        /\ \E o \in Foreign(exposed) : held' = [held EXCEPT ![v] = o]
  /\ UNCHANGED <<cell, exposed>>

(* A store reaches a variable through any pointer that is its address; what *)
(* is stored in another place others can read.                              *)
Store(v) ==
  /\ Op(v) = "store"
  /\ \E a \in code[v].args :
       \/ /\ held[code[v].ptr] \in Value
          /\ cell' = [cell EXCEPT ![held[code[v].ptr]] = held[a]]
          /\ UNCHANGED exposed
       \/ /\ held[code[v].ptr] \in {"known", "unknown"}
          /\ exposed' = exposed \cup ({held[a]} \cap Value)
          /\ UNCHANGED cell
  /\ UNCHANGED held

(* A call, a phi, a conversion from an integer: others have the addresses   *)
(* that go in.                                                              *)
Leave(v) ==
  /\ Op(v) \in {"call", "other"}
  /\ exposed' = exposed \cup ({held[a] : a \in code[v].args} \cap Value)
  /\ \E o \in Foreign(exposed') : held' = [held EXCEPT ![v] = o]
  /\ UNCHANGED cell

(* They write the variables whose address they have, when they like.        *)
Elsewhere(p) ==
  /\ p \in exposed
  /\ \E o \in Foreign(exposed) : cell' = [cell EXCEPT ![p] = o]
  /\ UNCHANGED <<held, exposed>>

Execute(v) ==
  /\ answer = "safe"
  /\ Compute(v) \/ Store(v) \/ Leave(v) \/ Elsewhere(v)
  /\ UNCHANGED <<analysis, function>>

Next == Analyse \/ \E v \in Value : Execute(v)

(* The compiler goes on. *)
Spec == Init /\ [][Next]_vars /\ WF_vars(Analyse)
-----------------------------------------------------------------------------
TypeOK ==
  /\ WellFormed(code)
  /\ src \in Value
  /\ stack \in Seq(SUBSET Value) /\ Len(stack) \in 0 .. MaxDepth
  /\ visited \subseteq Value
  /\ answer \in {"none", "safe", "unsafe", "crash"}
  /\ held \in [Value -> Origin]
  /\ cell \in [Value -> Origin]
  /\ exposed \subseteq {v \in Value : Op(v) = "pointer"}

Closed(S) == \A w \in S : Needs(w) \subseteq S

(* Everything the answer for v depends on: in every closed set above it.    *)
DependsOn(v) ==
  {w \in Value : \A S \in SUBSET Value : Needs(v) \subseteq S /\ Closed(S) => w \in S}

(* The value comes from elsewhere: what isSafeSrcValue is there to find.    *)
FromElsewhere(v) ==
  Op(v) \in {"call", "other"} \/ (Op(v) = "load" /\ Op(code[v].ptr) # "pointer")

(* It is loaded from a variable whose address is used for more than loads   *)
(* and stores.                                                              *)
FromEscaped(v) ==
  /\ Op(v) = "load" /\ Op(code[v].ptr) = "pointer"
  /\ \E u \in Value : code[v].ptr \in code[u].args

(* Everything a pointer can come from, the bases of GEPs included.          *)
Bases(v) == IF Op(v) = "gep" THEN code[v].args ELSE {}
Whole(S) == \A w \in S : Needs(w) \cup Bases(w) \subseteq S
ComesFrom(v) == {w \in Value : \A S \in SUBSET Value : v \in S /\ Whole(S) => w \in S}

(* A cast whose check is erased sees a pointer that came from elsewhere in  *)
(* two ways only, in whatever order the function runs: the walk has trusted *)
(* a GEP whose base it did not look at and it comes from elsewhere, or it   *)
(* has met a variable that is written behind its back.                      *)
ErasedOnlyKnown ==
  answer = "safe" /\ held[src] = "unknown" =>
    \E w \in {src} \cup DependsOn(src) :
      \/ FromEscaped(w)
      \/ \E b \in Bases(w) : \E u \in ComesFrom(b) : FromElsewhere(u) \/ FromEscaped(u)

(* The walk answers by what the source depends on, whatever the order in    *)
(* which it meets it.                                                       *)
BadSource == \E w \in {src} \cup DependsOn(src) : Refused(w)

AnswersByReach == (answer = "safe" => ~BadSource) /\ (answer = "unsafe" => BadSource)

(* The recursion overflows the stack only for a function in which a pointer *)
(* variable is, through others perhaps, assigned from itself.               *)
CrashOnlyOnCycle ==
  answer = "crash" => \E w \in {src} \cup DependsOn(src) : w \in DependsOn(w)

(* The compiler gets past the cast.                                         *)
AnalysisEnds == <>(answer # "none")
===============================================================================
