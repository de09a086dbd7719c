------------------------ MODULE CompileTimeVerify_proofs ------------------------
(***************************************************************************)
(* For every function and every depth of the stack: a cast that is erased  *)
(* sees a pointer from elsewhere only through a GEP that was trusted or a  *)
(* variable whose address is out, and the walk answers by what the source  *)
(* of the cast depends on.                                                 *)
(***************************************************************************)
EXTENDS CompileTimeVerify, SequenceTheorems, FiniteSetTheorems, TLAPS

(* What the calls in progress have yet to look at.                          *)
Pending == {v \in Value : \E i \in 1 .. Len(stack) : v \in stack[i]}

Met == visited \cup Pending

(* Whatever is closed and holds the source holds all the walk has met.      *)
MetIsNeeded ==
  \A S \in SUBSET Value : src \in S /\ Closed(S) => Met \subseteq S

(* What the walk has passed needs nothing it has not met.                   *)
PassedIsSafe ==
  \A v \in visited : ~Refused(v) /\ Needs(v) \subseteq Met

(* A pointer variable is itself wherever its address is held.               *)
Addresses ==
  /\ \A v \in Value : Op(v) = "pointer" => held[v] = v
  /\ \A v \in Value : held[v] \in Value => Op(held[v]) = "pointer"
  /\ \A v \in Value : cell[v] \in Value => Op(cell[v]) = "pointer"

LoadsAndStoresOnly(p) == \A u \in Value : p \notin code[u].args

(* The address of a variable that is only loaded from and stored to is      *)
(* nowhere else.                                                            *)
Contained ==
  \A p \in Value : LoadsAndStoresOnly(p) =>
    /\ \A v \in Value : held[v] = p => v = p
    /\ \A v \in Value : cell[v] # p
    /\ p \notin exposed

(* Values that come from nowhere but each other, and from objects.          *)
Clean(S) == Whole(S) /\ \A u \in S : ~FromElsewhere(u) /\ ~FromEscaped(u)

(* The function never brings a pointer from elsewhere into such a set, nor  *)
(* into the variables the set loads from.                                   *)
CleanIsKnown ==
  \A S \in SUBSET Value : Clean(S) =>
    \A v \in S :
      /\ held[v] # "unknown"
      /\ Op(v) = "load" => cell[code[v].ptr] # "unknown"

IInv ==
  /\ TypeOK
  /\ code \in Functions
  /\ src \in Met
  /\ MetIsNeeded
  /\ PassedIsSafe
  /\ answer = "safe" => stack = <<>>
  /\ answer = "unsafe" => \E v \in Met : Refused(v)
  /\ Addresses
  /\ Contained
  /\ CleanIsKnown
-----------------------------------------------------------------------------
LEMMA Operands ==
  ASSUME NEW c \in Functions, NEW v \in Value
  PROVE  /\ c[v].op \in Ops
         /\ c[v].args \in SUBSET Value
         /\ c[v].op \in {"load", "store"} => c[v].ptr \in Value /\ c[c[v].ptr].op \notin {"struct", "scalar"}
         /\ c[v].op \in {"struct", "pointer", "scalar"} => c[v].args = {}
<1>1. c \in [Value -> Instruction] /\ WellFormed(c)
  BY FunctionsAssumption
<1>2. c[v] \in Instruction
  BY <1>1
<1>. QED BY <1>1, <1>2 DEF Instruction, WellFormed, Allocas

LEMMA NeedsType ==
  ASSUME code \in Functions, NEW v \in Value
  PROVE  Needs(v) \subseteq Value
<1>1. \A u \in Value : code[u].args \subseteq Value
  BY Operands
<1>2. \A p : StoredTo(p) \subseteq Value
  BY <1>1 DEF StoredTo, Op
<1>. QED BY <1>1, <1>2 DEF Needs

LEMMA Prefix ==
  ASSUME NEW S, NEW s, NEW n \in Nat, \A i \in 1 .. n : s[i] \in S
  PROVE  /\ SubSeq(s, 1, n) \in Seq(S)
         /\ Len(SubSeq(s, 1, n)) = n
         /\ \A i \in 1 .. n : SubSeq(s, 1, n)[i] = s[i]
<1>1. /\ SubSeq(s, 1, n) \in Seq(S)
      /\ Len(SubSeq(s, 1, n)) = IF 1 <= n THEN n - 1 + 1 ELSE 0
      /\ \A i \in 1 .. n - 1 + 1 : SubSeq(s, 1, n)[i] = s[1 + i - 1]
  BY SubSeqProperties
<1>2. n - 1 + 1 = n /\ \A i \in 1 .. n : 1 + i - 1 = i
  OBVIOUS
<1>3. ASSUME NEW i \in 1 .. n PROVE SubSeq(s, 1, n)[i] = s[i]
  BY <1>1, <1>2, <1>3, Zenon
<1>4. Len(SubSeq(s, 1, n)) = n
  BY <1>1
<1>. QED BY <1>1, <1>3, <1>4

LEMMA NonEmpty ==
  ASSUME NEW S, NEW s \in Seq(S), s # <<>>
  PROVE  /\ Len(s) \in Nat /\ Len(s) > 0 /\ Len(s) - 1 \in Nat
         /\ s[Len(s)] \in S /\ \A i \in 1 .. Len(s) - 1 : s[i] \in S
<1>1. Len(s) \in Nat /\ Len(s) # 0
  BY EmptySeq, LenProperties
<1>2. \A i \in 1 .. Len(s) : s[i] \in S
  BY ElementOfSeq
<1>. QED BY <1>1, <1>2

LEMMA Pop ==
  ASSUME NEW S, NEW s \in Seq(S), s # <<>>
  PROVE  /\ SubSeq(s, 1, Len(s) - 1) \in Seq(S)
         /\ Len(SubSeq(s, 1, Len(s) - 1)) = Len(s) - 1
         /\ \A i \in 1 .. Len(s) - 1 : SubSeq(s, 1, Len(s) - 1)[i] = s[i]
<1>. DEFINE n == Len(s) - 1
<1>1. Len(s) - 1 \in Nat /\ \A i \in 1 .. Len(s) - 1 : s[i] \in S
  BY NonEmpty, Zenon
<1>3. n \in Nat /\ \A i \in 1 .. n : s[i] \in S
  BY <1>1, Zenon
<1>. HIDE DEF n
<1>2. /\ SubSeq(s, 1, n) \in Seq(S)
      /\ Len(SubSeq(s, 1, n)) = n
      /\ \A i \in 1 .. n : SubSeq(s, 1, n)[i] = s[i]
  BY <1>3, Prefix
<1>. QED BY <1>2 DEF n

-----------------------------------------------------------------------------
LEMMA TypeInit == Init => TypeOK
<1>. SUFFICES ASSUME Init PROVE TypeOK
  OBVIOUS
<1>1. src \in Value /\ WellFormed(code)
  BY FunctionsAssumption DEF Init
<1>2. stack \in Seq(SUBSET Value) /\ Len(stack) = 1
  BY <1>1 DEF Init
<1>3. held \in [Value -> Origin] /\ cell \in [Value -> Origin]
  BY DEF Init, Start, Origin
<1>. QED BY <1>1, <1>2, <1>3, DepthAssumption DEF Init, TypeOK

(* What the walk leaves to look at when it descends.                        *)
LEMMA DescendShape ==
  ASSUME TypeOK, code \in Functions, NEW v \in Value, Descend(v)
  PROVE  /\ Len(stack) \in Nat /\ Len(stack) > 0 /\ Top \in SUBSET Value
         /\ v \in Top /\ Needs(v) \in SUBSET Value
         /\ stack' \in Seq(SUBSET Value)
         /\ Len(stack') = Len(stack) + 1
         /\ \A i \in 1 .. Len(stack) - 1 : stack'[i] = stack[i]
         /\ stack'[Len(stack)] = Top \ {v}
         /\ stack'[Len(stack) + 1] = Needs(v)
<1>1. /\ stack \in Seq(SUBSET Value) /\ stack # <<>> /\ v \in Top
      /\ stack' = Append(Append(SubSeq(stack, 1, Len(stack) - 1), Top \ {v}), Needs(v))
  BY DEF TypeOK, Descend, Looking, Below
<1>2. Len(stack) \in Nat /\ Len(stack) > 0 /\ Top \in SUBSET Value
  BY <1>1, EmptySeq, LenProperties, ElementOfSeq DEF Top
<1>3. Top \ {v} \in SUBSET Value /\ Needs(v) \in SUBSET Value
  BY <1>2, NeedsType
<1>4. /\ stack' \in Seq(SUBSET Value)
      /\ Len(stack') = Len(stack) + 1
      /\ \A i \in 1 .. Len(stack) - 1 : stack'[i] = stack[i]
      /\ stack'[Len(stack)] = Top \ {v}
      /\ stack'[Len(stack) + 1] = Needs(v)
  <2>. DEFINE S == SUBSET Value
              A == Top \ {v}
              B == Needs(v)
              b == SubSeq(stack, 1, Len(stack) - 1)
              c == Append(b, A)
              t == Append(c, B)
  <2>1. A \in S /\ B \in S
    BY <1>3
  <2>2. b \in Seq(S) /\ stack' = t
    BY <1>1, Pop
  <2>3. Len(b) = Len(stack) - 1 /\ \A i \in 1 .. Len(stack) - 1 : b[i] = stack[i]
    BY <1>1, Pop
  <2>4. b \in Seq(S)
    BY <2>2
  <2>. HIDE DEF S, A, B, b
  <2>5. /\ c \in Seq(S) /\ Len(c) = Len(b) + 1 /\ c[Len(b) + 1] = A
        /\ \A i \in 1 .. Len(b) : c[i] = b[i]
    BY <2>1, <2>4, AppendProperties
  <2>. HIDE DEF c
  <2>6. /\ t \in Seq(S) /\ Len(t) = Len(c) + 1 /\ t[Len(c) + 1] = B
        /\ \A i \in 1 .. Len(c) : t[i] = c[i]
    BY <2>1, <2>5, AppendProperties
  <2>. HIDE DEF t
  <2>7. /\ t \in Seq(S) /\ Len(t) = Len(stack) + 1
        /\ t[Len(stack)] = A /\ t[Len(stack) + 1] = B
        /\ \A i \in 1 .. Len(stack) - 1 : t[i] = stack[i]
    BY <1>2, <2>3, <2>5, <2>6
  <2>8. /\ stack' \in Seq(S) /\ Len(stack') = Len(stack) + 1
        /\ stack'[Len(stack)] = A /\ stack'[Len(stack) + 1] = B
        /\ \A i \in 1 .. Len(stack) - 1 : stack'[i] = stack[i]
    BY <2>2, <2>7
  <2>. QED BY <2>8 DEF S, A, B
<1>. QED BY <1>1, <1>2, <1>3, <1>4

LEMMA DescendStack ==
  ASSUME TypeOK, code \in Functions, NEW v \in Value, Descend(v)
  PROVE  /\ stack' \in Seq(SUBSET Value) /\ Len(stack') = Len(stack) + 1
         /\ Pending \subseteq Pending' \cup {v}
         /\ Pending' \subseteq Pending \cup Needs(v)
         /\ Needs(v) \subseteq Pending'
         /\ v \in Pending
<1>2. Len(stack) \in Nat /\ Len(stack) > 0
  BY DescendShape
<1>3. Needs(v) \in SUBSET Value /\ v \in Top
  BY DescendShape
<1>4. /\ stack' \in Seq(SUBSET Value)
      /\ Len(stack') = Len(stack) + 1
      /\ \A i \in 1 .. Len(stack) - 1 : stack'[i] = stack[i]
      /\ stack'[Len(stack)] = Top \ {v}
      /\ stack'[Len(stack) + 1] = Needs(v)
  BY DescendShape
<1>5. Pending \subseteq Pending' \cup {v}
  <2>. SUFFICES ASSUME NEW w \in Value, NEW i \in 1 .. Len(stack), w \in stack[i], w # v
                PROVE  \E j \in 1 .. Len(stack') : w \in stack'[j]
    BY DEF Pending
  <2>1. w \in stack'[i]
    BY <1>2, <1>4 DEF Top
  <2>. QED BY <1>2, <1>4, <2>1
<1>6. Pending' \subseteq Pending \cup Needs(v)
  <2>. SUFFICES ASSUME NEW w \in Value, NEW j \in 1 .. Len(stack'), w \in stack'[j],
                       w \notin Needs(v)
                PROVE  \E i \in 1 .. Len(stack) : w \in stack[i]
    BY DEF Pending
  <2>1. j \in 1 .. Len(stack)
    BY <1>2, <1>4
  <2>2. w \in stack[j]
    BY <1>2, <1>4, <2>1 DEF Top
  <2>. QED BY <2>1, <2>2
<1>7. Needs(v) \subseteq Pending'
  BY <1>2, <1>3, <1>4 DEF Pending
<1>8. v \in Pending
  BY <1>2, <1>3 DEF Pending, Top, TypeOK
<1>. QED BY <1>4, <1>5, <1>6, <1>7, <1>8

LEMMA ReturnStack ==
  ASSUME TypeOK, ReturnTrue
  PROVE  /\ stack' \in Seq(SUBSET Value) /\ Len(stack') = Len(stack) - 1
         /\ Pending' = Pending
         /\ Len(stack) \in Nat /\ Len(stack) > 0
<1>1. stack \in Seq(SUBSET Value) /\ stack # <<>> /\ Top = {}
      /\ stack' = SubSeq(stack, 1, Len(stack) - 1)
  BY DEF TypeOK, ReturnTrue, Looking, Below
<1>2. Len(stack) \in Nat /\ Len(stack) > 0
  BY <1>1, EmptySeq, LenProperties
<1>3. /\ stack' \in Seq(SUBSET Value)
      /\ Len(stack') = Len(stack) - 1
      /\ \A i \in 1 .. Len(stack) - 1 : stack'[i] = stack[i]
  BY <1>1, Pop
<1>4. Pending' = Pending
  BY <1>1, <1>2, <1>3 DEF Pending, Top
<1>. QED BY <1>2, <1>3, <1>4

LEMMA TypeStep ==
  ASSUME TypeOK, code \in Functions, Analyse
  PROVE  TypeOK'
<1>. UNCHANGED <<code, src, held, cell, exposed>>
  BY DEF Analyse, Refuse, Descend, Overflow, ReturnTrue, function, running, Op
<1>1. ASSUME NEW v \in Value, Refuse(v) \/ Overflow(v)
      PROVE  TypeOK'
  BY <1>1 DEF Refuse, Overflow, TypeOK, Op
<1>2. ASSUME NEW v \in Value, Descend(v)
      PROVE  TypeOK'
  <2>1. stack' \in Seq(SUBSET Value) /\ Len(stack') = Len(stack) + 1
    BY <1>2, DescendStack
  <2>2. Len(stack') \in 0 .. MaxDepth
    BY <1>2, <2>1, DepthAssumption DEF Descend, TypeOK
  <2>. QED BY <1>2, <2>1, <2>2 DEF Descend, TypeOK, Op
<1>3. ASSUME ReturnTrue
      PROVE  TypeOK'
  <2>1. stack' \in Seq(SUBSET Value) /\ Len(stack') \in 0 .. MaxDepth
    BY <1>3, ReturnStack, DepthAssumption DEF TypeOK
  <2>. QED BY <1>3, <2>1 DEF ReturnTrue, TypeOK, Op
<1>. QED BY <1>1, <1>2, <1>3 DEF Analyse
-----------------------------------------------------------------------------
LEMMA InvInit == Init => IInv
<1>. SUFFICES ASSUME Init PROVE IInv
  OBVIOUS
<1>1. TypeOK
  BY TypeInit
<1>2. stack = <<{src}>> /\ Len(stack) = 1 /\ stack[1] = {src} /\ visited = {} /\ src \in Value
  BY <1>1 DEF Init, TypeOK
<1>3. Pending = {src} /\ Met = {src}
  BY <1>2 DEF Pending, Met
<1>4. MetIsNeeded /\ PassedIsSafe
  BY <1>2, <1>3 DEF MetIsNeeded, PassedIsSafe
<1>5. \A v \in Value : held[v] = Start(v) /\ cell[v] = "unset"
  BY DEF Init
<1>6. Addresses /\ Contained
  BY <1>5, ValueAssumption DEF Addresses, Contained, Start, Init
<1>7. CleanIsKnown
  <2>1. \A v \in Value : held[v] # "unknown"
    BY <1>5, ValueAssumption DEF Start
  <2>2. \A v \in Value : Op(v) = "load" => code[v].ptr \in Value
    BY Operands DEF Op, Init
  <2>. QED BY <1>5, <2>1, <2>2 DEF CleanIsKnown
<1>. QED BY <1>1, <1>3, <1>4, <1>6, <1>7 DEF IInv, Init

(* The walk does not run the function.                                      *)
LEMMA NotRun ==
  ASSUME UNCHANGED <<code, held, cell, exposed>>, Addresses, Contained, CleanIsKnown
  PROVE  Addresses' /\ Contained' /\ CleanIsKnown'
<1>1. \A v : Op(v)' = Op(v) /\ Needs(v)' = Needs(v) /\ Bases(v)' = Bases(v)
  BY DEF Op, Needs, StoredTo, Bases
<1>2. \A v : FromElsewhere(v)' = FromElsewhere(v) /\ FromEscaped(v)' = FromEscaped(v)
  BY <1>1 DEF FromElsewhere, FromEscaped, Op
<1>3. \A S : Clean(S)' = Clean(S)
  BY <1>1, <1>2 DEF Clean, Whole
<1>. QED BY <1>1, <1>3 DEF Addresses, Contained, LoadsAndStoresOnly, CleanIsKnown, Op

LEMMA RefuseKeeps ==
  ASSUME IInv, NEW v \in Value, Refuse(v) \/ Overflow(v)
  PROVE  IInv'
<1>1. UNCHANGED <<code, src, stack, visited, held, cell, exposed>> /\ answer' \in {"unsafe", "crash"}
  BY DEF Refuse, Overflow, function, running
<1>2. TypeOK'
  BY TypeStep DEF IInv, Analyse
<1>3. Pending' = Pending /\ Met' = Met
  BY <1>1 DEF Pending, Met
<1>4. MetIsNeeded' /\ PassedIsSafe'
  BY <1>1, <1>3 DEF IInv, MetIsNeeded, PassedIsSafe, Closed, Needs, Refused, IsLocalPointer, Op,
       StoredTo
<1>6. Addresses' /\ Contained' /\ CleanIsKnown'
  BY <1>1, NotRun DEF IInv
<1>5. ASSUME answer' = "unsafe" PROVE \E w \in Met' : Refused(w)'
  <2>1. Refuse(v)
    BY <1>5 DEF Overflow
  <2>2. v \in Pending
    BY <2>1, EmptySeq, LenProperties DEF Refuse, Looking, Top, Pending, IInv, TypeOK
  <2>. QED BY <1>1, <1>3, <2>1, <2>2 DEF Refuse, Met, Refused, IsLocalPointer, Op
<1>. QED BY <1>1, <1>2, <1>3, <1>4, <1>5, <1>6 DEF IInv

LEMMA DescendKeeps ==
  ASSUME IInv, NEW v \in Value, Descend(v)
  PROVE  IInv'
<1>1. /\ UNCHANGED <<code, src, held, cell, exposed, answer>> /\ visited' = visited \cup {v}
      /\ ~Refused(v) /\ answer = "none"
  BY DEF Descend, function, running, Looking
<1>2. TypeOK'
  BY TypeStep DEF IInv, Analyse
<1>3. /\ Pending \subseteq Pending' \cup {v}
      /\ Pending' \subseteq Pending \cup Needs(v)
      /\ Needs(v) \subseteq Pending'
      /\ v \in Pending
  BY DescendStack DEF IInv
<1>4. Met \subseteq Met' /\ Met' = Met \cup Needs(v) /\ v \in Met
  BY <1>1, <1>3 DEF Met
<1>5. \A w : Needs(w)' = Needs(w) /\ (Refused(w)' <=> Refused(w))
  BY <1>1 DEF Needs, Refused, IsLocalPointer, Op, StoredTo
<1>6. MetIsNeeded'
  BY <1>1, <1>4, <1>5 DEF IInv, MetIsNeeded, Closed
<1>7. PassedIsSafe'
  BY <1>1, <1>4, <1>5 DEF IInv, PassedIsSafe
<1>8. Addresses' /\ Contained' /\ CleanIsKnown'
  BY <1>1, NotRun DEF IInv
<1>. QED BY <1>1, <1>2, <1>4, <1>6, <1>7, <1>8 DEF IInv

LEMMA ReturnKeeps ==
  ASSUME IInv, ReturnTrue
  PROVE  IInv'
<1>1. /\ UNCHANGED <<code, src, held, cell, exposed, visited>> /\ answer = "none"
      /\ answer' = IF Len(stack) = 1 THEN "safe" ELSE "none"
  BY DEF ReturnTrue, function, running, Looking
<1>2. TypeOK'
  BY TypeStep DEF IInv, Analyse
<1>3. /\ stack' \in Seq(SUBSET Value) /\ Len(stack') = Len(stack) - 1
      /\ Pending' = Pending /\ Met' = Met
      /\ Len(stack) \in Nat /\ Len(stack) > 0
  BY <1>1, ReturnStack DEF IInv, Met
<1>4. MetIsNeeded' /\ PassedIsSafe'
  BY <1>1, <1>3 DEF IInv, MetIsNeeded, PassedIsSafe, Closed, Needs, Refused, IsLocalPointer, Op,
       StoredTo
<1>6. Addresses' /\ Contained' /\ CleanIsKnown'
  BY <1>1, NotRun DEF IInv
<1>5. ASSUME answer' = "safe" PROVE stack' = <<>>
  <2>1. Len(stack') = 0
    BY <1>1, <1>3, <1>5
  <2>. QED BY <1>3, <2>1, EmptySeq, Zenon
<1>7. answer' # "unsafe" /\ code' \in Functions /\ src' \in Met'
  BY <1>1, <1>3 DEF IInv
<1>. QED BY <1>2, <1>4, <1>5, <1>6, <1>7 DEF IInv

(* What a step of the function does: a pointer that is held now was held or *)
(* in a variable before, or came from outside; so it is for variables.      *)
Moves(v) ==
  /\ exposed' \in SUBSET Value
  /\ held' \in [Value -> Origin] /\ cell' \in [Value -> Origin]
  /\ \A u \in Value : held'[u] # held[u] =>
       /\ u = v /\ Op(v) \in {"bitcast", "gep", "load", "call", "other"}
       /\ \/ Op(v) \in {"bitcast", "gep"} /\ \E a \in code[v].args : held'[v] = held[a]
          \/ /\ Op(v) = "load" /\ held[code[v].ptr] \in Value
             /\ held'[v] = cell[held[code[v].ptr]]
          \/ /\ \/ Op(v) \in {"call", "other"}
                \/ Op(v) = "load" /\ held[code[v].ptr] \notin Value
             /\ held'[v] \in {"unknown"} \cup exposed'
  /\ \A p \in Value : cell'[p] # cell[p] =>
       \/ /\ Op(v) = "store" /\ held[code[v].ptr] = p
          /\ \E a \in code[v].args : cell'[p] = held[a]
       \/ p \in exposed /\ cell'[p] \in {"unknown"} \cup exposed
  /\ \A p \in exposed' : p \in exposed \/ \E a \in code[v].args : held[a] = p

LEMMA ExecuteMoves ==
  ASSUME TypeOK, code \in Functions, NEW v \in Value, Execute(v)
  PROVE  Moves(v)
<1>1. /\ \A u \in Value : code[u].args \subseteq Value
      /\ Op(v) \in {"load", "store"} => code[v].ptr \in Value
  BY Operands DEF Op
<1>2. /\ held \in [Value -> Origin] /\ cell \in [Value -> Origin]
      /\ exposed \in SUBSET Value /\ {"unknown"} \cup exposed \subseteq Origin
  BY DEF TypeOK, Origin
<1>3. CASE Compute(v)
  <2>1. UNCHANGED <<cell, exposed>>
    BY <1>3 DEF Compute
  <2>2. CASE Op(v) \in {"bitcast", "gep"} /\ \E a \in code[v].args : held' = [held EXCEPT ![v] = held[a]]
    BY <1>1, <1>2, <2>1, <2>2 DEF Moves
  <2>3. CASE /\ Op(v) = "load" /\ held[code[v].ptr] \in Value
             /\ held' = [held EXCEPT ![v] = cell[held[code[v].ptr]]]
    BY <1>1, <1>2, <2>1, <2>3 DEF Moves
  <2>4. CASE /\ Op(v) = "load" /\ held[code[v].ptr] \in {"known", "unknown"}
             /\ \E o \in Foreign(exposed) : held' = [held EXCEPT ![v] = o]
    <3>1. PICK o \in {"unknown"} \cup exposed : held' = [held EXCEPT ![v] = o]
      BY <2>4 DEF Foreign
    <3>2. held[code[v].ptr] \notin Value
      BY <2>4, ValueAssumption
    <3>. QED BY <1>1, <1>2, <2>1, <2>4, <3>1, <3>2 DEF Moves
  <2>. QED BY <1>3, <2>2, <2>3, <2>4 DEF Compute
<1>4. CASE Store(v)
  <2>1. PICK a \in code[v].args :
          \/ /\ held[code[v].ptr] \in Value
             /\ cell' = [cell EXCEPT ![held[code[v].ptr]] = held[a]]
             /\ UNCHANGED exposed
          \/ exposed' = exposed \cup ({held[a]} \cap Value) /\ UNCHANGED cell
    BY <1>4 DEF Store
  <2>2. Op(v) = "store" /\ UNCHANGED held /\ a \in Value
    BY <1>1, <1>4 DEF Store
  <2>3. CASE exposed' = exposed \cup ({held[a]} \cap Value) /\ UNCHANGED cell
    BY <1>1, <1>2, <2>2, <2>3 DEF Moves
  <2>4. CASE /\ held[code[v].ptr] \in Value
             /\ cell' = [cell EXCEPT ![held[code[v].ptr]] = held[a]]
             /\ UNCHANGED exposed
    BY <1>1, <1>2, <2>2, <2>4 DEF Moves
  <2>. QED BY <2>1, <2>3, <2>4
<1>5. CASE Leave(v)
  <2>1. /\ Op(v) \in {"call", "other"} /\ UNCHANGED cell
        /\ exposed' = exposed \cup ({held[a] : a \in code[v].args} \cap Value)
    BY <1>5 DEF Leave
  <2>2. exposed' \in SUBSET Value /\ \A p \in exposed' : p \in exposed \/ \E a \in code[v].args : held[a] = p
    BY <1>2, <2>1
  <2>3. PICK o \in {"unknown"} \cup exposed' : held' = [held EXCEPT ![v] = o]
    BY <1>5 DEF Leave, Foreign
  <2>4. o \in Origin
    BY <2>2, <2>3 DEF Origin
  <2>. QED BY <1>1, <1>2, <2>1, <2>2, <2>3, <2>4 DEF Moves
<1>6. CASE Elsewhere(v)
  <2>1. v \in exposed /\ UNCHANGED <<held, exposed>>
    BY <1>6 DEF Elsewhere
  <2>2. PICK o \in {"unknown"} \cup exposed : cell' = [cell EXCEPT ![v] = o]
    BY <1>6 DEF Elsewhere, Foreign
  <2>. QED BY <1>2, <2>1, <2>2 DEF Moves
<1>. QED BY <1>3, <1>4, <1>5, <1>6 DEF Execute

LEMMA AddressesStep ==
  ASSUME TypeOK, code \in Functions, Addresses, NEW v \in Value, Execute(v)
  PROVE  TypeOK' /\ Addresses'
<1>1. Moves(v)
  BY ExecuteMoves
<1>2. /\ UNCHANGED <<code, src, stack, visited, answer>>
      /\ \A u \in Value : code[u].args \subseteq Value
      /\ exposed \subseteq {u \in Value : Op(u) = "pointer"}
  BY Operands DEF Execute, function, analysis, TypeOK
<1>3. \A p \in exposed' : p \in Value /\ Op(p) = "pointer"
  <2>1. exposed' \in SUBSET Value /\ \A p \in exposed' : p \in exposed \/ \E a \in code[v].args : held[a] = p
    BY <1>1 DEF Moves
  <2>. QED BY <1>2, <2>1 DEF Addresses
<1>4. ASSUME NEW u \in Value, held'[u] \in Value PROVE Op(held'[u]) = "pointer"
  <2>1. CASE held'[u] = held[u]
    BY <1>4, <2>1 DEF Addresses
  <2>2. CASE held'[u] # held[u]
    <3>1. /\ u = v
          /\ \/ \E a \in code[v].args : held'[v] = held[a]
             \/ held[code[v].ptr] \in Value /\ held'[v] = cell[held[code[v].ptr]]
             \/ held'[v] \in {"unknown"} \cup exposed'
      BY <1>1, <2>2 DEF Moves
    <3>. QED BY <1>2, <1>3, <1>4, <3>1, ValueAssumption DEF Addresses
  <2>. QED BY <2>1, <2>2
<1>5. ASSUME NEW p \in Value, cell'[p] \in Value PROVE Op(cell'[p]) = "pointer"
  <2>1. CASE cell'[p] = cell[p]
    BY <1>5, <2>1 DEF Addresses
  <2>2. CASE cell'[p] # cell[p]
    <3>1. \/ \E a \in code[v].args : cell'[p] = held[a]
          \/ cell'[p] \in {"unknown"} \cup exposed
      BY <1>1, <2>2 DEF Moves
    <3>. QED BY <1>2, <1>5, <3>1, ValueAssumption DEF Addresses
  <2>. QED BY <2>1, <2>2
<1>6. ASSUME NEW u \in Value, Op(u) = "pointer" PROVE held'[u] = u
  <2>1. held'[u] = held[u]
    BY <1>1, <1>6 DEF Moves
  <2>. QED BY <1>6, <2>1 DEF Addresses
<1>7. Addresses'
  BY <1>2, <1>4, <1>5, <1>6 DEF Addresses, Op
<1>8. held' \in [Value -> Origin] /\ cell' \in [Value -> Origin]
  BY <1>1 DEF Moves
<1>9. TypeOK'
  BY <1>2, <1>3, <1>8 DEF TypeOK, Op
<1>. QED BY <1>7, <1>9

LEMMA ContainedStep ==
  ASSUME TypeOK, code \in Functions, Contained, NEW v \in Value, Execute(v)
  PROVE  Contained'
<1>1. Moves(v) /\ UNCHANGED code
  BY ExecuteMoves DEF Execute, function
<1>2. SUFFICES ASSUME NEW p \in Value, LoadsAndStoresOnly(p)
               PROVE  /\ \A u \in Value : held'[u] = p => u = p
                      /\ \A u \in Value : cell'[u] # p
                      /\ p \notin exposed'
  BY <1>1 DEF Contained, LoadsAndStoresOnly
<1>3. /\ \A u \in Value : held[u] = p => u = p
      /\ \A u \in Value : cell[u] # p
      /\ p \notin exposed
      /\ \A u \in Value : p \notin code[u].args /\ code[u].args \subseteq Value
      /\ p # "unknown"
  BY <1>2, Operands, ValueAssumption DEF Contained, LoadsAndStoresOnly
<1>4. \A a \in code[v].args : held[a] # p
  BY <1>3
<1>5. p \notin exposed'
  BY <1>1, <1>3, <1>4 DEF Moves
<1>6. ASSUME NEW u \in Value, held'[u] = p PROVE u = p
  <2>1. CASE held'[u] = held[u]
    BY <1>3, <1>6, <2>1
  <2>2. CASE held'[u] # held[u]
    <3>1. /\ u = v
          /\ \/ \E a \in code[v].args : held'[v] = held[a]
             \/ held[code[v].ptr] \in Value /\ held'[v] = cell[held[code[v].ptr]]
             \/ held'[v] \in {"unknown"} \cup exposed'
      BY <1>1, <2>2 DEF Moves
    <3>. QED BY <1>3, <1>4, <1>5, <1>6, <3>1
  <2>. QED BY <2>1, <2>2
<1>7. ASSUME NEW u \in Value PROVE cell'[u] # p
  <2>1. \/ cell'[u] = cell[u]
        \/ \E a \in code[v].args : cell'[u] = held[a]
        \/ cell'[u] \in {"unknown"} \cup exposed
    BY <1>1 DEF Moves
  <2>. QED BY <1>3, <1>4, <2>1
<1>. QED BY <1>5, <1>6, <1>7

LEMMA CleanStep ==
  ASSUME TypeOK, code \in Functions, Addresses, Contained, CleanIsKnown, NEW v \in Value, Execute(v)
  PROVE  CleanIsKnown'
<1>1. Moves(v) /\ UNCHANGED code
  BY ExecuteMoves DEF Execute, function
<1>2. \A S : Clean(S)' = Clean(S)
  <2>1. \A u : Needs(u)' = Needs(u) /\ Bases(u)' = Bases(u)
    BY <1>1 DEF Needs, StoredTo, Bases, Op
  <2>2. \A u : FromElsewhere(u)' = FromElsewhere(u) /\ FromEscaped(u)' = FromEscaped(u)
    BY <1>1 DEF FromElsewhere, FromEscaped, Op
  <2>. QED BY <2>1, <2>2 DEF Clean, Whole
<1>3. SUFFICES ASSUME NEW S \in SUBSET Value, Clean(S), NEW u \in S
               PROVE  /\ held'[u] # "unknown"
                      /\ Op(u) = "load" => cell'[code[u].ptr] # "unknown"
  BY <1>1, <1>2 DEF CleanIsKnown, Op
<1>4. \A w \in S : /\ held[w] # "unknown"
                   /\ Op(w) = "load" => cell[code[w].ptr] # "unknown"
  BY <1>3 DEF CleanIsKnown
<1>5. \A w \in S : /\ Op(w) \notin {"call", "other"}
                   /\ Needs(w) \subseteq S /\ Bases(w) \subseteq S
  BY <1>3 DEF Clean, Whole, FromElsewhere
<1>6. ASSUME NEW w \in S, Op(w) = "load"
      PROVE  /\ code[w].ptr \in Value /\ Op(code[w].ptr) = "pointer"
             /\ LoadsAndStoresOnly(code[w].ptr)
             /\ StoredTo(code[w].ptr) \subseteq S
             /\ held[code[w].ptr] = code[w].ptr
  <2>1. code[w].ptr \in Value
    BY <1>6, Operands DEF Op
  <2>2. Op(code[w].ptr) = "pointer" /\ LoadsAndStoresOnly(code[w].ptr)
    BY <1>3, <1>6 DEF Clean, FromElsewhere, FromEscaped, LoadsAndStoresOnly
  <2>3. StoredTo(code[w].ptr) \subseteq S
    BY <1>5, <1>6 DEF Needs
  <2>. QED BY <2>1, <2>2, <2>3 DEF Addresses
<1>7. held'[u] # "unknown"
  <2>1. CASE held'[u] = held[u]
    BY <1>4, <2>1
  <2>2. CASE held'[u] # held[u]
    <3>1. /\ u = v
          /\ \/ Op(v) \in {"bitcast", "gep"} /\ \E a \in code[v].args : held'[v] = held[a]
             \/ /\ Op(v) = "load" /\ held[code[v].ptr] \in Value
                /\ held'[v] = cell[held[code[v].ptr]]
             \/ Op(v) \in {"call", "other"}
             \/ Op(v) = "load" /\ held[code[v].ptr] \notin Value
      BY <1>1, <2>2 DEF Moves
    <3>2. CASE Op(v) \in {"bitcast", "gep"} /\ \E a \in code[v].args : held'[v] = held[a]
      <4>1. code[v].args \subseteq S
        BY <1>5, <3>1, <3>2 DEF Needs, Bases
      <4>. QED BY <1>4, <3>1, <3>2, <4>1
    <3>3. CASE Op(v) = "load"
      <4>1. code[v].ptr \in Value /\ held[code[v].ptr] = code[v].ptr
        BY <1>6, <3>1, <3>3
      <4>. QED BY <1>4, <3>1, <3>3, <4>1
    <3>. QED BY <1>5, <3>1, <3>2, <3>3
  <2>. QED BY <2>1, <2>2
<1>8. ASSUME Op(u) = "load" PROVE cell'[code[u].ptr] # "unknown"
  <2>6. PICK p \in Value : p = code[u].ptr
    BY <1>6, <1>8
  <2>1. /\ p \in Value /\ LoadsAndStoresOnly(p) /\ StoredTo(p) \subseteq S /\ cell[p] # "unknown"
    BY <1>4, <1>6, <1>8, <2>6
  <2>2. p \notin exposed /\ \A w \in Value : held[w] = p => w = p
    BY <2>1 DEF Contained
  <2>3. CASE cell'[p] = cell[p]
    BY <2>1, <2>3, <2>6
  <2>4. CASE cell'[p] # cell[p]
    <3>1. /\ Op(v) = "store" /\ held[code[v].ptr] = p
          /\ \E a \in code[v].args : cell'[p] = held[a]
      BY <1>1, <2>1, <2>2, <2>4 DEF Moves
    <3>2. code[v].ptr = p
      BY <2>2, <3>1, Operands DEF Op
    <3>3. code[v].args \subseteq S
      BY <2>1, <3>1, <3>2 DEF StoredTo
    <3>. QED BY <1>4, <2>6, <3>1, <3>3
  <2>5. cell'[p] # "unknown"
    BY <2>3, <2>4, <2>6
  <2>. QED BY <2>5, <2>6
<1>. QED BY <1>7, <1>8

LEMMA ExecuteKeeps ==
  ASSUME IInv, NEW v \in Value, Execute(v)
  PROVE  IInv'
<1>1. UNCHANGED <<code, src, stack, visited, answer>> /\ answer = "safe"
  BY DEF Execute, function, analysis
<1>2. TypeOK' /\ Addresses'
  BY AddressesStep DEF IInv
<1>3. Contained' /\ CleanIsKnown'
  BY ContainedStep, CleanStep DEF IInv
<1>4. Pending' = Pending /\ Met' = Met
  BY <1>1 DEF Pending, Met
<1>5. MetIsNeeded' /\ PassedIsSafe'
  BY <1>1, <1>4 DEF IInv, MetIsNeeded, PassedIsSafe, Closed, Needs, Refused, IsLocalPointer,
       Op, StoredTo
<1>. QED BY <1>1, <1>2, <1>3, <1>4, <1>5 DEF IInv

LEMMA InvStep ==
  ASSUME IInv, [Next]_vars
  PROVE  IInv'
<1>1. CASE UNCHANGED vars
  <2>1. UNCHANGED <<code, src, stack, visited, answer, held, cell, exposed>>
    BY <1>1 DEF vars
  <2>2. Addresses' /\ Contained' /\ CleanIsKnown'
    BY <2>1, NotRun DEF IInv
  <2>3. Pending' = Pending /\ Met' = Met
    BY <2>1 DEF Pending, Met
  <2>4. MetIsNeeded' /\ PassedIsSafe'
    BY <2>1, <2>3 DEF IInv, MetIsNeeded, PassedIsSafe, Closed, Needs, Refused, IsLocalPointer,
         Op, StoredTo
  <2>5. TypeOK'
    BY <2>1 DEF IInv, TypeOK, Op
  <2>. QED BY <2>1, <2>2, <2>3, <2>4, <2>5 DEF IInv, Refused, IsLocalPointer, Op
<1>. QED BY <1>1, RefuseKeeps, DescendKeeps, ReturnKeeps, ExecuteKeeps DEF Next, Analyse
-----------------------------------------------------------------------------
(* The inductive invariant holds throughout: the walk has met only what the *)
(* source needs, and has found safe all that it has passed.                 *)
THEOREM Inductive == Spec => []IInv
<1>1. IInv /\ [Next]_vars => IInv'
  BY InvStep
<1>. QED BY <1>1, InvInit, PTL DEF Spec

(* Every variable keeps its shape, and the stack its depth.                 *)
THEOREM TypeCorrect == Spec => []TypeOK
<1>1. IInv => TypeOK
  BY DEF IInv
<1>. QED BY <1>1, Inductive, PTL

(* A dependency of a dependency is one, and what a value needs is one.      *)
LEMMA DependsChain ==
  ASSUME NEW v \in Value, code \in Functions
  PROVE  /\ Needs(v) \subseteq DependsOn(v)
         /\ \A w \in DependsOn(v) : Needs(w) \subseteq DependsOn(v)
<1>1. Needs(v) \subseteq DependsOn(v)
  BY NeedsType DEF DependsOn
<1>2. ASSUME NEW w \in DependsOn(v), NEW x \in Needs(w)
      PROVE  x \in DependsOn(v)
  <2>1. w \in Value /\ x \in Value
    BY NeedsType DEF DependsOn
  <2>2. ASSUME NEW S \in SUBSET Value, Needs(v) \subseteq S, Closed(S)
        PROVE  x \in S
    <3>1. w \in S
      BY <2>2 DEF DependsOn
    <3>. QED BY <2>2, <3>1 DEF Closed
  <2>. QED BY <2>1, <2>2 DEF DependsOn
<1>. QED BY <1>1, <1>2

(* What the source depends on and what the bases of its GEPs come from are  *)
(* a clean set, unless they hold one of the two ways.                       *)
LEMMA InvErased == IInv => ErasedOnlyKnown
<1>. DEFINE D == {src} \cup DependsOn(src)
            B == {u \in Value : \E w \in D : \E b \in Bases(w) : u \in ComesFrom(b)}
<1>1. SUFFICES ASSUME IInv, answer = "safe", \A w \in D : ~FromEscaped(w),
                      \A u \in B : ~FromElsewhere(u) /\ ~FromEscaped(u)
               PROVE  held[src] # "unknown"
  BY DEF ErasedOnlyKnown, ComesFrom
<1>2. /\ Met = visited /\ src \in visited /\ visited \in SUBSET Value /\ code \in Functions
      /\ \A v \in visited : ~Refused(v) /\ Needs(v) \subseteq visited
  BY <1>1 DEF IInv, Met, Pending, TypeOK, PassedIsSafe
<1>3. DependsOn(src) \subseteq visited
  BY <1>2 DEF DependsOn, Closed
<1>4. \A v \in Value : Needs(v) \subseteq Value /\ Bases(v) \subseteq Value
  BY <1>2, NeedsType, Operands DEF Bases
<1>5. D \in SUBSET Value /\ \A w \in D : Needs(w) \subseteq D
  BY <1>2, <1>3, DependsChain
<1>6. \A w \in D : ~FromElsewhere(w)
  <2>. SUFFICES ASSUME NEW w \in D PROVE ~FromElsewhere(w)
    OBVIOUS
  <2>1. ~Refused(w) /\ w \in Value
    BY <1>2, <1>3
  <2>. HIDE DEF D, B
  <2>2. Op(w) = "load" => code[w].ptr \in Value /\ Op(code[w].ptr) \notin {"struct", "scalar"}
    BY <1>2, <2>1, Operands DEF Op
  <2>. QED BY <2>1, <2>2 DEF Refused, FromElsewhere, IsLocalPointer, Allocas
<1>7. ASSUME NEW b \in Value
      PROVE  b \in ComesFrom(b) /\ \A u \in ComesFrom(b) : Needs(u) \cup Bases(u) \subseteq ComesFrom(b)
  <2>1. b \in ComesFrom(b)
    BY DEF ComesFrom
  <2>2. ASSUME NEW u \in ComesFrom(b), NEW x \in Needs(u) \cup Bases(u) PROVE x \in ComesFrom(b)
    <3>1. x \in Value
      BY <1>4, <2>2 DEF ComesFrom
    <3>2. ASSUME NEW S \in SUBSET Value, b \in S, Whole(S) PROVE x \in S
      BY <2>2, <3>2 DEF ComesFrom, Whole
    <3>. QED BY <3>1, <3>2 DEF ComesFrom
  <2>. QED BY <2>1, <2>2
<1>8. \A w \in D : Bases(w) \subseteq B
  BY <1>4, <1>5, <1>7
<1>9. \A u \in B : Needs(u) \cup Bases(u) \subseteq B
  <2>. SUFFICES ASSUME NEW u \in B PROVE Needs(u) \cup Bases(u) \subseteq B
    OBVIOUS
  <2>4. PICK w \in D : \E b \in Bases(w) : u \in ComesFrom(b)
    OBVIOUS
  <2>1. PICK b \in Bases(w) : u \in ComesFrom(b)
    BY <2>4
  <2>2. b \in Value /\ u \in Value
    BY <1>4, <1>5
  <2>3. Needs(u) \cup Bases(u) \subseteq ComesFrom(b) /\ Needs(u) \cup Bases(u) \subseteq Value
    BY <1>4, <1>7, <2>1, <2>2
  <2>. QED BY <2>1, <2>3
<1>10. D \cup B \in SUBSET Value
  BY <1>5
<1>. HIDE DEF B
<1>11. Whole(D \cup B)
  <2>. HIDE DEF D
  <2>. QED BY <1>5, <1>8, <1>9 DEF Whole
<1>13. src \in D \cup B
  OBVIOUS
<1>12. Clean(D \cup B)
  <2>. HIDE DEF D
  <2>1. \A u \in D \cup B : ~FromElsewhere(u) /\ ~FromEscaped(u)
    BY <1>1, <1>6
  <2>. QED BY <1>11, <2>1 DEF Clean
<1>. HIDE DEF D
<1>. QED BY <1>1, <1>10, <1>12, <1>13 DEF IInv, CleanIsKnown

(* A cast whose check is erased (HexTypeTreePass.cpp:487) sees a pointer    *)
(* that came from elsewhere only through a GEP the walk has trusted without *)
(* looking at its base (:438-440) or through a variable whose address is    *)
(* out, whatever the function and the order it runs in.                     *)
THEOREM ErasureIsSound == Spec => []ErasedOnlyKnown
BY InvErased, Inductive, PTL

LEMMA InvAnswers == IInv => AnswersByReach
<1>. SUFFICES ASSUME IInv PROVE AnswersByReach
  OBVIOUS
<1>1. ASSUME answer = "safe" PROVE ~BadSource
  <2>1. Met = visited /\ src \in visited /\ visited \in SUBSET Value
    BY <1>1 DEF IInv, Met, Pending, TypeOK
  <2>2. Closed(visited) /\ Needs(src) \subseteq visited
    BY <2>1 DEF IInv, PassedIsSafe, Closed
  <2>3. DependsOn(src) \subseteq visited
    BY <2>1, <2>2 DEF DependsOn
  <2>. QED BY <2>1, <2>3 DEF BadSource, IInv, PassedIsSafe
<1>2. ASSUME answer = "unsafe" PROVE BadSource
  <2>1. PICK w \in Met : Refused(w)
    BY <1>2 DEF IInv
  <2>2. ASSUME w # src PROVE w \in DependsOn(src)
    <3>1. w \in Value
      BY DEF IInv, Met, Pending, TypeOK
    <3>. SUFFICES ASSUME NEW S \in SUBSET Value, Needs(src) \subseteq S, Closed(S)
                  PROVE  w \in S
      BY <3>1 DEF DependsOn
    <3>2. S \cup {src} \in SUBSET Value /\ Closed(S \cup {src})
      BY DEF Closed, IInv, TypeOK
    <3>3. w \in S \cup {src}
      BY <3>2 DEF IInv, MetIsNeeded
    <3>. QED BY <2>2, <3>3
  <2>. QED BY <2>1, <2>2 DEF BadSource
<1>. QED BY <1>1, <1>2 DEF AnswersByReach

(* The walk answers by what the source depends on, in whatever order it     *)
(* meets it (HexTypeTreePass.cpp:404-460).                                  *)
THEOREM WalkDecidesReach == Spec => []AnswersByReach
BY InvAnswers, Inductive, PTL
-----------------------------------------------------------------------------
(* The calls in progress, as the values they look into: each but the first  *)
(* is one that all before it depend on.                                     *)
Path(p) ==
  /\ p \in [1 .. Len(stack) - 1 -> Value]
  /\ Len(stack) > 0 => stack[1] \subseteq {src}
  /\ Len(stack) > 1 => p[1] = src
  /\ \A i \in 1 .. Len(stack) - 1 : stack[i + 1] \subseteq Needs(p[i])
  /\ \A i, j \in 1 .. Len(stack) - 1 : i < j => p[j] \in DependsOn(p[i])

(* The walk goes down such a path, and gives up at the end of a full one.   *)
GoesDown ==
  /\ answer = "none" => \E p \in [1 .. Len(stack) - 1 -> Value] : Path(p)
  /\ answer = "crash" =>
       /\ Len(stack) = MaxDepth /\ Top # {}
       /\ \E p \in [1 .. Len(stack) - 1 -> Value] : Path(p)

LEMMA SameGraph ==
  ASSUME UNCHANGED code
  PROVE  \A v : Needs(v)' = Needs(v) /\ DependsOn(v)' = DependsOn(v)
<1>1. \A v : Needs(v)' = Needs(v)
  BY DEF Needs, Op, StoredTo
<1>2. \A S : Closed(S)' = Closed(S)
  BY <1>1 DEF Closed
<1>. QED BY <1>1, <1>2 DEF DependsOn

(* What is looked into next depends on by all on the path.                  *)
LEMMA PathNext ==
  ASSUME TypeOK, code \in Functions, stack # <<>>,
         NEW p \in [1 .. Len(stack) - 1 -> Value], Path(p), NEW v \in Top
  PROVE  /\ Len(stack) = 1 => v = src
         /\ \A i \in 1 .. Len(stack) - 1 : v \in DependsOn(p[i])
<1>1. Len(stack) \in Nat /\ Len(stack) > 0
  BY EmptySeq, LenProperties DEF TypeOK
<1>2. ASSUME Len(stack) = 1 PROVE v = src
  BY <1>2 DEF Path, Top
<1>3. ASSUME NEW i \in 1 .. Len(stack) - 1 PROVE v \in DependsOn(p[i])
  <2>. DEFINE m == Len(stack) - 1
  <2>1. m \in 1 .. Len(stack) - 1 /\ m + 1 = Len(stack)
    BY <1>1
  <2>2. v \in Needs(p[m])
    BY <2>1 DEF Path, Top
  <2>3. p[i] \in Value /\ p[m] \in Value
    BY <2>1
  <2>4. CASE i = m
    BY <2>2, <2>3, <2>4, DependsChain
  <2>5. CASE i # m
    <3>1. i < m
      BY <1>1, <2>5
    <3>2. p[m] \in DependsOn(p[i])
      BY <2>1, <3>1 DEF Path
    <3>. QED BY <2>2, <2>3, <3>2, DependsChain
  <2>. QED BY <2>4, <2>5
<1>. QED BY <1>2, <1>3

LEMMA DescendsPath ==
  ASSUME IInv, GoesDown, NEW v \in Value, Descend(v)
  PROVE  GoesDown'
<1>1. /\ answer = "none" /\ stack # <<>> /\ v \in Top /\ TypeOK /\ code \in Functions
      /\ UNCHANGED <<code, src, answer>>
  BY DEF IInv, Descend, Looking, function
<1>2. PICK p \in [1 .. Len(stack) - 1 -> Value] : Path(p)
  BY <1>1 DEF GoesDown
<1>3. /\ Len(stack) \in Nat /\ Len(stack) > 0 /\ Len(stack') = Len(stack) + 1
      /\ \A i \in 1 .. Len(stack) - 1 : stack'[i] = stack[i]
      /\ stack'[Len(stack)] \subseteq stack[Len(stack)]
      /\ stack'[Len(stack) + 1] = Needs(v)
  BY <1>1, DescendShape DEF Top
<1>4. /\ Len(stack) = 1 => v = src
      /\ \A i \in 1 .. Len(stack) - 1 : v \in DependsOn(p[i])
  BY <1>1, <1>2, PathNext
<1>5. \A w : Needs(w)' = Needs(w) /\ DependsOn(w)' = DependsOn(w)
  BY <1>1, SameGraph
<1>11. PICK n \in Nat : n = Len(stack)
  BY <1>3
<1>. DEFINE q == [i \in 1 .. n |-> IF i = n THEN v ELSE p[i]]
<1>6. Len(stack') - 1 = n /\ q \in [1 .. n -> Value]
  BY <1>2, <1>3, <1>11
<1>7. stack'[1] \subseteq {src} /\ q[1] = src
  BY <1>2, <1>3, <1>4, <1>11 DEF Path
<1>8. ASSUME NEW i \in 1 .. n PROVE stack'[i + 1] \subseteq Needs(q[i])
  <2>1. CASE i = n
    BY <1>3, <1>11, <2>1
  <2>2. CASE i # n
    <3>1. i \in 1 .. Len(stack) - 1 /\ q[i] = p[i] /\ i + 1 \in 1 .. n
      BY <1>3, <1>11, <2>2
    <3>2. stack'[i + 1] \subseteq stack[i + 1]
      BY <1>3, <3>1
    <3>. QED BY <1>2, <3>1, <3>2 DEF Path
  <2>. QED BY <2>1, <2>2
<1>9. ASSUME NEW i \in 1 .. n, NEW j \in 1 .. n, i < j PROVE q[j] \in DependsOn(q[i])
  <2>1. i \in 1 .. Len(stack) - 1 /\ i # n /\ q[i] = p[i]
    BY <1>3, <1>9, <1>11
  <2>2. CASE j = n
    BY <1>4, <2>1, <2>2
  <2>3. CASE j # n
    <3>1. j \in 1 .. Len(stack) - 1 /\ q[j] = p[j]
      BY <1>3, <1>11, <2>3
    <3>. HIDE DEF q
    <3>. QED BY <1>2, <1>9, <2>1, <3>1 DEF Path
  <2>. QED BY <2>2, <2>3
<1>. HIDE DEF q
<1>10. q \in [1 .. Len(stack') - 1 -> Value] /\ Path(q)'
  BY <1>1, <1>3, <1>5, <1>6, <1>7, <1>8, <1>9 DEF Path
<1>. QED BY <1>1, <1>10 DEF GoesDown

LEMMA ReturnsPath ==
  ASSUME IInv, GoesDown, ReturnTrue
  PROVE  GoesDown'
<1>. SUFFICES ASSUME answer' = "none" PROVE GoesDown'
  BY DEF GoesDown, ReturnTrue
<1>1. /\ answer = "none" /\ stack # <<>> /\ TypeOK /\ UNCHANGED <<code, src>>
      /\ stack' = SubSeq(stack, 1, Len(stack) - 1) /\ Len(stack) # 1
  BY DEF IInv, ReturnTrue, Looking, function, Below
<1>2. PICK p \in [1 .. Len(stack) - 1 -> Value] : Path(p)
  BY <1>1 DEF GoesDown
<1>3. /\ Len(stack) \in Nat /\ Len(stack) > 1 /\ Len(stack') = Len(stack) - 1
      /\ \A i \in 1 .. Len(stack) - 1 : stack'[i] = stack[i]
  BY <1>1, Pop, NonEmpty DEF TypeOK
<1>4. \A w : Needs(w)' = Needs(w) /\ DependsOn(w)' = DependsOn(w)
  BY <1>1, SameGraph
<1>11. PICK n \in Nat : n = Len(stack)
  BY <1>3
<1>. DEFINE q == [i \in 1 .. n - 2 |-> p[i]]
<1>5. q \in [1 .. Len(stack') - 1 -> Value]
  BY <1>2, <1>3, <1>11
<1>6. /\ \A i \in 1 .. Len(stack) - 2 : i \in 1 .. Len(stack) - 1 /\ i + 1 \in 1 .. Len(stack) - 1
      /\ Len(stack') - 1 = Len(stack) - 2 /\ 1 \in 1 .. Len(stack) - 1
  BY <1>3
<1>7. \A i \in 1 .. Len(stack) - 2 : q[i] = p[i]
  BY <1>11
<1>. HIDE DEF q
<1>12. \A i \in 1 .. Len(stack) - 2 : stack'[i + 1] \subseteq Needs(q[i])
  BY <1>2, <1>3, <1>6, <1>7 DEF Path
<1>8. \A i, j \in 1 .. Len(stack) - 2 : i < j => q[j] \in DependsOn(q[i])
  BY <1>2, <1>6, <1>7 DEF Path
<1>9. stack'[1] \subseteq {src} /\ (Len(stack') > 1 => q[1] = src)
  BY <1>2, <1>3, <1>6, <1>7 DEF Path
<1>10. Path(q)'
  BY <1>1, <1>4, <1>5, <1>6, <1>8, <1>9, <1>12 DEF Path
<1>. QED BY <1>1, <1>5, <1>10 DEF GoesDown

LEMMA PathKept ==
  ASSUME UNCHANGED <<code, src, stack>>, NEW p
  PROVE  Path(p)' = Path(p)
<1>1. \A w : Needs(w)' = Needs(w) /\ DependsOn(w)' = DependsOn(w)
  BY SameGraph
<1>. QED BY <1>1 DEF Path

LEMMA GoesDownStep ==
  ASSUME IInv, GoesDown, [Next]_vars
  PROVE  GoesDown'
<1>1. ASSUME NEW v \in Value, Refuse(v)
      PROVE  GoesDown'
  BY <1>1 DEF Refuse, GoesDown
<1>2. ASSUME NEW v \in Value, Overflow(v)
      PROVE  GoesDown'
  <2>1. UNCHANGED <<code, src, stack>> /\ answer = "none" /\ Len(stack) = MaxDepth /\ v \in Top
    BY <1>2 DEF Overflow, function, Looking
  <2>2. Top' = Top
    BY <2>1 DEF Top
  <2>. QED BY <2>1, <2>2, PathKept DEF GoesDown
<1>3. ASSUME NEW v \in Value, Execute(v)
      PROVE  GoesDown'
  <2>1. UNCHANGED <<code, src, stack, answer>> /\ answer = "safe"
    BY <1>3 DEF Execute, analysis, function
  <2>. QED BY <2>1 DEF GoesDown
<1>4. CASE UNCHANGED vars
  <2>1. UNCHANGED <<code, src, stack, answer>> /\ Top' = Top
    BY <1>4 DEF vars, Top
  <2>. QED BY <2>1, PathKept DEF GoesDown
<1>. QED BY <1>1, <1>2, <1>3, <1>4, DescendsPath, ReturnsPath DEF Next, Analyse

LEMMA GoesDownInit == Init => GoesDown
<1>. SUFFICES ASSUME Init PROVE GoesDown
  OBVIOUS
<1>1. Len(stack) = 1 /\ stack[1] = {src} /\ answer = "none"
  BY DEF Init
<1>. DEFINE p == [i \in 1 .. 0 |-> src]
<1>2. p \in [1 .. Len(stack) - 1 -> Value] /\ Path(p)
  BY <1>1 DEF Path
<1>. QED BY <1>1, <1>2 DEF GoesDown

(* A path longer than there are values meets one twice, and that one        *)
(* depends on itself.                                                       *)
LEMMA LongPath ==
  ASSUME IInv, GoesDown, IsFiniteSet(Value), MaxDepth > Cardinality(Value)
  PROVE  CrashOnlyOnCycle
<1>. SUFFICES ASSUME answer = "crash"
              PROVE  \E w \in {src} \cup DependsOn(src) : w \in DependsOn(w)
  BY DEF CrashOnlyOnCycle
<1>1. /\ Len(stack) = MaxDepth /\ Top # {} /\ TypeOK /\ code \in Functions
      /\ MaxDepth \in Nat /\ MaxDepth > 0
  BY DepthAssumption DEF GoesDown, IInv
<1>2. PICK p \in [1 .. Len(stack) - 1 -> Value] : Path(p)
  BY DEF GoesDown
<1>3. PICK v \in Top : TRUE
  BY <1>1
<1>4. stack # <<>> /\ v \in Value
  <2>1. stack \in Seq(SUBSET Value)
    BY <1>1 DEF TypeOK
  <2>2. stack # <<>> /\ Top \in SUBSET Value
    BY <1>1, <2>1, EmptySeq, ElementOfSeq DEF Top
  <2>. QED BY <2>2
<1>5. /\ Len(stack) = 1 => v = src
      /\ \A i \in 1 .. Len(stack) - 1 : v \in DependsOn(p[i])
  BY <1>1, <1>2, <1>4, PathNext
<1>. DEFINE D == 1 .. MaxDepth
            q == [i \in D |-> IF i = MaxDepth THEN v ELSE p[i]]
<1>6. q \in [D -> Value]
  BY <1>1, <1>2, <1>4
<1>7. \A i, j \in D : i < j => q[j] \in DependsOn(q[i])
  BY <1>1, <1>2, <1>5 DEF Path
<1>8. q[1] = src
  BY <1>1, <1>2, <1>5 DEF Path
<1>9. IsFiniteSet(D) /\ Cardinality(D) = MaxDepth
  BY <1>1, FS_Interval
<1>10. PICK i, j \in D : i # j /\ q[i] = q[j]
  <2>1. Cardinality(Value) < Cardinality(D)
    BY <1>1, <1>9, FS_CardinalityType
  <2>. HIDE DEF D, q
  <2>. QED BY <1>6, <1>9, <2>1, FS_PigeonHole
<1>11. q[i] \in DependsOn(q[i])
  <2>1. i \in Nat /\ j \in Nat
    BY <1>1
  <2>2. i < j \/ j < i
    BY <1>10, <2>1
  <2>. HIDE DEF q
  <2>. QED BY <1>7, <1>10, <2>2
<1>12. q[i] \in {src} \cup DependsOn(src)
  <2>1. i = 1 \/ 1 < i
    BY <1>1
  <2>2. 1 \in D
    BY <1>1
  <2>. HIDE DEF q, D
  <2>. QED BY <1>7, <1>8, <1>10, <2>1, <2>2
<1>. QED BY <1>11, <1>12

(* With room on the stack for more calls than the function has values, the  *)
(* recursion of isSafeSrcValue overflows it only if a value the source      *)
(* depends on depends on itself (HexTypeTreePass.cpp:404-460).              *)
THEOREM OverflowMeansCycle ==
  ASSUME IsFiniteSet(Value), MaxDepth > Cardinality(Value)
  PROVE  Spec => []CrashOnlyOnCycle
<1>1. IInv /\ GoesDown /\ [Next]_vars => GoesDown'
  BY GoesDownStep
<1>2. IInv /\ GoesDown => CrashOnlyOnCycle
  BY LongPath
<1>. QED BY <1>1, <1>2, GoesDownInit, Inductive, PTL DEF Spec
===============================================================================
