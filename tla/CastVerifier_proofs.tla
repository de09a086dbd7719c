-------------------------- MODULE CastVerifier_proofs --------------------------
(***************************************************************************)
(* What can be relied on in a verdict: with one thread every answer, with  *)
(* any number of threads that a confusion is missed in two ways only.  The *)
(* searches that decide it are right for every rule and every size of a    *)
(* word.                                                                   *)
(***************************************************************************)
EXTENDS CastVerifier, RuleSearch, FiniteSetTheorems, TLAPS

(* The code that is emitted never registers an object without a rule. *)
RulesKnown == \A x \in Type : Rule[x] # NoRule /\ Rule[x] \subseteq Type

OneThread == \A t, u \in Thread : t = u

NothingLate == \A x \in Type : LatePhantoms[x] \subseteq Phantoms[x]

Storing(t) == call[t].pc \in {"store_src", "store_dst", "store_result"}

(* A frame that is in use, or that still tells what was decided, has types. *)
Typed ==
  /\ TypeOK
  /\ \A t \in Thread :
       /\ Working(t) \/ call[t].from # NoType => call[t].from \in Type /\ call[t].to \in Type
       /\ call[t].pc = "idle" => call[t].from = NoType

LEMMA IndexType == \A s, d \in Type : CacheIndex(s, d) \in LowBits \X LowBits
BY DEF CacheIndex, LowBits

LEMMA IdleFrame == Idle \in Frame
BY DEF Idle, Frame, Verdict

LEMMA SettleType ==
  ASSUME TypeOK, NEW t \in Thread, NEW answer \in {"none", "dst", "null"},
         NEW report \in {"none", "console", "full"}, Settle(t, answer, report)
  PROVE  call' \in [Thread -> Frame]
<1>1. call[t].from \in Type \cup {NoType} /\ call[t].to \in Type \cup {NoType}
  BY DEF TypeOK, Frame
<1>2. [Idle EXCEPT !.pc = "return", !.from = call[t].from, !.to = call[t].to,
                   !.answer = answer, !.report = report] \in Frame
  BY <1>1 DEF Idle, Frame, Verdict
<1> QED
  BY <1>2 DEF Settle, TypeOK

LEMMA TallyType ==
  ASSUME TypeOK, NEW S, Tally(S)
  PROVE  count' \in [Verdict \cup {"verified"} -> Nat]
BY DEF Tally, TypeOK

LEMMA SettleFrames ==
  ASSUME Typed, NEW t \in Thread, NEW answer, NEW report, Settle(t, answer, report)
  PROVE  /\ call'[t].pc = "return" /\ call'[t].answer = answer
         /\ call'[t].from = call[t].from /\ call'[t].to = call[t].to
         /\ \A u \in Thread : u # t => call'[u] = call[u]
BY DEF Settle, Idle, Typed, TypeOK

LEMMA TypedInit == Init => Typed
<1> SUFFICES ASSUME Init PROVE Typed
  OBVIOUS
<1>1. phantom \in [Type -> SUBSET Type]
  BY PhantomsAssumption DEF Init
<1>2. call \in [Thread -> Frame] /\ \A t \in Thread : ~Working(t) /\ call[t].from = NoType
  BY IdleFrame DEF Init, Working, Idle
<1>3. cache \in [LowBits \X LowBits ->
                   [src : Type \cup {NoType}, dst : Type \cup {NoType}, result : Verdict]]
  BY DEF Init, Verdict
<1>4. contested \subseteq LowBits \X LowBits /\ misjudged \subseteq Type \X Type
  BY DEF Init
<1> QED
  BY <1>1, <1>2, <1>3, <1>4 DEF Init, Typed, TypeOK

(* The casts that do not come to the cache. *)
Unchecked(t) ==
  \E to \in Type :
    \/ \E a \in Addr \cup {Null} : CastUnknown(t, a, to)
    \/ \E a, d \in Addr : CastBelow(t, a, d, to) \/ CastBeyond(t, a, d)

LEMMA UncheckedEffect ==
  ASSUME Typed, NEW t \in Thread, Unchecked(t)
  PROVE  /\ Typed'
         /\ UNCHANGED <<objs, slots, phantom, cache, history>>
         /\ At(t, "idle") /\ call'[t].pc = "return" /\ call'[t].from = call[t].from
         /\ \A u \in Thread : u # t => call'[u] = call[u]
<1>1. PICK answer \in {"dst", "null"}, report \in {"none", "full"} : Settle(t, answer, report)
  BY DEF Unchecked, CastUnknown, CastBelow, CastBeyond
<1>2. UNCHANGED <<objs, slots, phantom, cache, history>> /\ At(t, "idle")
  BY DEF Unchecked, CastUnknown, CastBelow, CastBeyond
<1>3. count' \in [Verdict \cup {"verified"} -> Nat]
  <2>1. UNCHANGED count \/ \E S : Tally(S)
    BY DEF Unchecked, CastUnknown, CastBelow, CastBeyond
  <2> QED
    BY <2>1, TallyType DEF Typed, TypeOK
<1>4. call' \in [Thread -> Frame]
  BY <1>1, SettleType DEF Typed
<1>5. /\ call'[t].pc = "return" /\ call'[t].from = call[t].from /\ call'[t].to = call[t].to
      /\ \A u \in Thread : u # t => call'[u] = call[u]
  BY <1>1, SettleFrames
<1>6. Typed'
  BY <1>2, <1>3, <1>4, <1>5 DEF Typed, TypeOK, Working, history
<1> QED
  BY <1>2, <1>5, <1>6

LEMMA ArriveType ==
  ASSUME Typed, NEW t \in Thread, NEW s \in Type, NEW d \in Type, Arrive(t, s, d)
  PROVE  contested' \subseteq LowBits \X LowBits
BY IndexType DEF Arrive, Typed, TypeOK

(* The casts that do: what is in the thread's frame afterwards. *)
LEMMA CheckedEffect ==
  ASSUME Typed, NEW t \in Thread, NEW a \in Addr, NEW d \in Addr, NEW to \in Type,
         CastKnown(t, a, d, to) \/ CastInline(t, d, to)
  PROVE  /\ Typed'
         /\ UNCHANGED <<objs, slots, phantom, cache, misjudged>>
         /\ At(t, "idle") /\ call'[t].from \in Type /\ call'[t].to \in Type
         /\ \/ call'[t].pc = "probe_src"
            \/ /\ call'[t].pc = "store_src" /\ call'[t].from = call'[t].to
               /\ call'[t].verdict = "SAFECASTSAME"
         /\ Reading(t)' => call'[t].rules = {call'[t].from}
         /\ \E s \in Type, e \in Type : call'[t].from = s /\ call'[t].to = e /\ Arrive(t, s, e)
         /\ call'[t].fast <=> ~CastKnown(t, a, d, to)
         /\ \A u \in Thread : u # t => call'[u] = call[u]
<1>1. /\ UNCHANGED <<objs, slots, phantom, cache, misjudged>> /\ At(t, "idle")
      /\ objs[d].type \in Type /\ Arrive(t, objs[d].type, to)
  BY DEF CastKnown, CastInline, Known, Typed, TypeOK, Entry
<1>2. PICK f \in Frame :
        /\ call' = [call EXCEPT ![t] = f]
        /\ f.from = objs[d].type /\ f.to = to
        /\ \/ f.pc = "probe_src" /\ f.rules = {f.from}
           \/ f.pc = "store_src" /\ f.from = f.to /\ f.verdict = "SAFECASTSAME"
        /\ f.fast <=> ~CastKnown(t, a, d, to)
  <2>1. CASE CastKnown(t, a, d, to)
    <3> DEFINE f == [Idle EXCEPT
                       !.pc = IF objs[d].type = to THEN "store_src" ELSE "probe_src",
                       !.at = IF objs[d].type = to THEN Null ELSE d,
                       !.inSlot = InSlot(d) /\ ~(objs[d].type = to),
                       !.rules = IF objs[d].type = to THEN {} ELSE {objs[d].type},
                       !.from = objs[d].type, !.to = to,
                       !.verdict = IF objs[d].type = to THEN "SAFECASTSAME" ELSE "BADCAST"]
    <3>1. call' = [call EXCEPT ![t] = f]
      BY <2>1 DEF CastKnown
    <3>2. /\ f \in Frame /\ f.from = objs[d].type /\ f.to = to /\ ~f.fast
          /\ f.pc = IF objs[d].type = to THEN "store_src" ELSE "probe_src"
          /\ f.rules = IF objs[d].type = to THEN {} ELSE {objs[d].type}
          /\ f.verdict = IF objs[d].type = to THEN "SAFECASTSAME" ELSE "BADCAST"
      BY <1>1 DEF Idle, Frame, Verdict, InSlot
    <3> HIDE DEF f
    <3> QED
      BY <1>1, <2>1, <3>1, <3>2
  <2>2. CASE CastInline(t, d, to)
    <3> DEFINE f == [Idle EXCEPT !.pc = "probe_src", !.at = d, !.inSlot = TRUE,
                                 !.rules = {objs[d].type},
                                 !.from = objs[d].type, !.to = to, !.fast = TRUE]
    <3>1. call' = [call EXCEPT ![t] = f]
      BY <2>2 DEF CastInline
    <3>2. /\ f \in Frame /\ f.from = objs[d].type /\ f.to = to /\ f.pc = "probe_src"
          /\ f.rules = {f.from} /\ f.fast
      BY <1>1 DEF Idle, Frame, Verdict
    <3> HIDE DEF f
    <3>3. ~CastKnown(t, a, d, to)
      <4>1. SUFFICES ASSUME CastKnown(t, a, d, to) PROVE FALSE
        OBVIOUS
      <4>2. count'["verified"] = count["verified"] + 1
        BY <4>1 DEF CastKnown, Tally, Typed, TypeOK
      <4> QED
        BY <2>2, <4>2 DEF CastInline, Typed, TypeOK
    <3> QED
      BY <3>1, <3>2, <3>3
  <2> QED
    BY <2>1, <2>2
<1>3. /\ call' \in [Thread -> Frame]
      /\ call'[t].from = objs[d].type /\ call'[t].to = to
      /\ \/ call'[t].pc = "probe_src"
         \/ /\ call'[t].pc = "store_src" /\ call'[t].from = call'[t].to
            /\ call'[t].verdict = "SAFECASTSAME"
      /\ Reading(t)' => call'[t].rules = {call'[t].from}
      /\ call'[t].fast <=> ~CastKnown(t, a, d, to)
      /\ \A u \in Thread : u # t => call'[u] = call[u]
  BY <1>2 DEF Typed, TypeOK, Reading
<1>4. count' \in [Verdict \cup {"verified"} -> Nat]
  <2>1. UNCHANGED count \/ \E S : Tally(S)
    BY DEF CastKnown, CastInline
  <2> QED
    BY <2>1, TallyType DEF Typed, TypeOK
<1>5. Typed'
  <2>1. contested' \subseteq LowBits \X LowBits
    BY <1>1, ArriveType
  <2> QED
    BY <1>1, <1>3, <1>4, <2>1 DEF Typed, TypeOK, Working
<1> QED
  BY <1>1, <1>3, <1>5

LEMMA CastCases ==
  ASSUME NEW t \in Thread, BeginCast(t)
  PROVE  \/ Unchecked(t)
         \/ \E a, d \in Addr, to \in Type : CastKnown(t, a, d, to) \/ CastInline(t, d, to)
BY DEF BeginCast, Unchecked

LEMMA GotoFrames ==
  ASSUME Typed, NEW t \in Thread, NEW step, Goto(t, step),
         step \in {"probe_dst", "hit", "count_hit", "decide", "store_dst", "store_result"}
  PROVE  /\ call' \in [Thread -> Frame]
         /\ call'[t].pc = step /\ call'[t].from = call[t].from /\ call'[t].to = call[t].to
         /\ call'[t].verdict = call[t].verdict
         /\ call'[t].rules = call[t].rules
         /\ call'[t].fast = call[t].fast
         /\ \A u \in Thread : u # t => call'[u] = call[u]
<1>1. call[t] \in Frame
  BY DEF Typed, TypeOK
<1>2. [call[t] EXCEPT !.pc = step] \in Frame
  BY <1>1 DEF Frame
<1>3. call' = [call EXCEPT ![t] = [call[t] EXCEPT !.pc = step]]
  BY DEF Goto, Typed, TypeOK
<1> QED
  BY <1>1, <1>2, <1>3 DEF Typed, TypeOK, Frame

LEMMA DecideFrames ==
  ASSUME Typed, NEW t \in Thread, Decide(t)
  PROVE  /\ call' \in [Thread -> Frame]
         /\ call'[t].pc = "store_src"
         /\ call'[t].from = call[t].from /\ call'[t].to = call[t].to
         /\ call'[t].fast = call[t].fast
         /\ \A u \in Thread : u # t => call'[u] = call[u]
         /\ \E r \in call[t].rules :
              /\ call'[t].verdict = IF call[t].from = call[t].to THEN "SAFECASTSAME"
                                    ELSE Judge(r, call[t].to)
              /\ misjudged' = IF r = call[t].from THEN misjudged
                              ELSE misjudged \cup {<<call[t].from, call[t].to>>}
<1> DEFINE v(r) == IF call[t].from = call[t].to THEN "SAFECASTSAME" ELSE Judge(r, call[t].to)
           f(r) == [call[t] EXCEPT !.pc = "store_src", !.at = Null, !.rules = {}, !.verdict = v(r)]
<1>1. PICK r \in call[t].rules :
        /\ call' = [call EXCEPT ![t] = f(r)]
        /\ misjudged' = IF r = call[t].from THEN misjudged
                        ELSE misjudged \cup {<<call[t].from, call[t].to>>}
  BY DEF Decide, Typed, TypeOK
<1>2. call[t] \in Frame
  BY DEF Typed, TypeOK
<1>3. v(r) \in Verdict
  BY DEF Judge, Verdict
<1> HIDE DEF v
<1>4. /\ f(r) \in Frame /\ f(r).pc = "store_src" /\ f(r).from = call[t].from
      /\ f(r).to = call[t].to /\ f(r).verdict = v(r) /\ f(r).fast = call[t].fast
  BY <1>2, <1>3 DEF Frame
<1> HIDE DEF f
<1>5. /\ call' \in [Thread -> Frame] /\ call'[t] = f(r)
      /\ \A u \in Thread : u # t => call'[u] = call[u]
  BY <1>1, <1>4 DEF Typed, TypeOK
<1> QED
  BY <1>1, <1>4, <1>5 DEF v

(* One field of one cache entry changes. *)
LEMMA StoreEffect ==
  ASSUME Typed, NEW t \in Thread, Working(t)
  PROVE  /\ Slot(t) \in LowBits \X LowBits
         /\ StoreSrc(t) => /\ cache'[Slot(t)].src = call[t].from
                           /\ cache'[Slot(t)].dst = cache[Slot(t)].dst
                           /\ cache'[Slot(t)].result = cache[Slot(t)].result
         /\ StoreDst(t) => /\ cache'[Slot(t)].dst = call[t].to
                           /\ cache'[Slot(t)].src = cache[Slot(t)].src
                           /\ cache'[Slot(t)].result = cache[Slot(t)].result
         /\ StoreResult(t) => /\ cache'[Slot(t)].result = call[t].verdict
                              /\ cache'[Slot(t)].src = cache[Slot(t)].src
                              /\ cache'[Slot(t)].dst = cache[Slot(t)].dst
         /\ StoreSrc(t) \/ StoreDst(t) \/ StoreResult(t) =>
              /\ cache' \in [LowBits \X LowBits ->
                   [src : Type \cup {NoType}, dst : Type \cup {NoType}, result : Verdict]]
              /\ \A i \in LowBits \X LowBits : i # Slot(t) => cache'[i] = cache[i]
<1> DEFINE E == [src : Type \cup {NoType}, dst : Type \cup {NoType}, result : Verdict]
<1>1. Slot(t) \in LowBits \X LowBits
  BY IndexType DEF Slot, Typed
<1>2. cache \in [LowBits \X LowBits -> E] /\ cache[Slot(t)] \in E
  BY <1>1 DEF Typed, TypeOK
<1>3. call[t].from \in Type /\ call[t].to \in Type /\ call[t].verdict \in Verdict
  BY DEF Typed, TypeOK, Frame
<1>4. StoreSrc(t) => cache' = [cache EXCEPT ![Slot(t)] = [@ EXCEPT !.src = call[t].from]]
  BY <1>2 DEF StoreSrc
<1>5. StoreDst(t) => cache' = [cache EXCEPT ![Slot(t)] = [@ EXCEPT !.dst = call[t].to]]
  BY <1>2 DEF StoreDst
<1>6. StoreResult(t) => cache' = [cache EXCEPT ![Slot(t)] = [@ EXCEPT !.result = call[t].verdict]]
  BY <1>2 DEF StoreResult, ToStore
<1> QED
  BY <1>1, <1>2, <1>3, <1>4, <1>5, <1>6

(* What a cached verdict that is found does to the thread's frame. *)
LEMMA HitEffect ==
  ASSUME Typed, NEW t \in Thread, Hit(t)
  PROVE  /\ call' \in [Thread -> Frame]
         /\ \/ /\ call'[t].pc = "return"
               /\ call'[t].answer = IF cache[Slot(t)].result = "BADCAST" THEN "null" ELSE "dst"
               /\ Tally(Outcome(t, cache[Slot(t)].result))
            \/ /\ call'[t].pc = "count_hit" /\ cache[Slot(t)].result # "BADCAST"
               /\ ~call[t].fast /\ ~call'[t].fast /\ UNCHANGED count
         /\ call'[t].from = call[t].from /\ call'[t].to = call[t].to
         /\ \A u \in Thread : u # t => call'[u] = call[u]
<1>1. CASE \E report \in {"none", "console", "full"} :
        /\ Settle(t, IF cache[Slot(t)].result = "BADCAST" THEN "null" ELSE "dst", report)
        /\ Tally(Outcome(t, cache[Slot(t)].result))
  <2>1. PICK report \in {"none", "console", "full"} :
          Settle(t, IF cache[Slot(t)].result = "BADCAST" THEN "null" ELSE "dst", report)
    BY <1>1
  <2> QED
    BY <1>1, <2>1, SettleType, SettleFrames DEF Typed
<1>2. CASE /\ Goto(t, "count_hit") /\ cache[Slot(t)].result # "BADCAST"
           /\ ~call[t].fast /\ UNCHANGED count
  BY <1>2, GotoFrames
<1> QED
  BY <1>1, <1>2 DEF Hit

LEMMA CountHitEffect ==
  ASSUME Typed, NEW t \in Thread, CountHit(t)
  PROVE  /\ call' \in [Thread -> Frame] /\ call'[t].pc = "return" /\ call'[t].answer = "dst"
         /\ call'[t].from = call[t].from /\ call'[t].to = call[t].to
         /\ \A u \in Thread : u # t => call'[u] = call[u]
BY SettleType, SettleFrames DEF CountHit, Typed

(* What the other threads do changes no more of a frame than the rules that *)
(* a cast in progress may find.                                             *)
SameCast(u) ==
  /\ call'[u].pc = call[u].pc /\ call'[u].fast = call[u].fast
  /\ call'[u].from = call[u].from /\ call'[u].to = call[u].to
  /\ call'[u].verdict = call[u].verdict /\ call'[u].answer = call[u].answer

LEMMA NowFindEffect ==
  ASSUME Typed, NEW readers, NEW types \in SUBSET Type, NowFind(readers, types)
  PROVE  /\ call' \in [Thread -> Frame]
         /\ \A u \in Thread : SameCast(u) /\ (~Reading(u) => call'[u] = call[u])
<1> SUFFICES ASSUME NEW u \in Thread
             PROVE  /\ call'[u] \in Frame /\ SameCast(u)
                    /\ ~Reading(u) => call'[u] = call[u]
  BY DEF NowFind
<1>1. call[u] \in Frame
  BY DEF Typed, TypeOK
<1>2. call'[u] = IF Reading(u) /\ u \in readers THEN [call[u] EXCEPT !.rules = types] ELSE call[u]
  BY DEF NowFind
<1>3. [call[u] EXCEPT !.rules = types] \in Frame
  BY <1>1 DEF Frame
<1> QED
  BY <1>1, <1>2, <1>3 DEF SameCast, Frame

(* Objects come and go. *)
Reuse == \E a \in Addr : Remove(a) \/ \E e \in Entry : Register(a, e)

LEMMA ReuseEffect ==
  ASSUME Typed, Reuse
  PROVE  /\ UNCHANGED <<phantom, cache, count, history>> /\ SomeIdle
         /\ objs' \in [Addr -> Entry \cup {NoEntry}] /\ slots' \in [Slots -> Addr \cup {Null}]
         /\ call' \in [Thread -> Frame]
         /\ \A u \in Thread : SameCast(u) /\ (~Reading(u) => call'[u] = call[u])
<1>1. PICK a \in Addr : Remove(a) \/ \E e \in Entry : Register(a, e)
  BY DEF Reuse
<1>2. SlotOf[a] \in Slots
  BY DEF Slots
<1>3. /\ UNCHANGED <<phantom, cache, count, history>> /\ SomeIdle
      /\ objs' \in [Addr -> Entry \cup {NoEntry}] /\ slots' \in [Slots -> Addr \cup {Null}]
  BY <1>1, <1>2 DEF Register, Remove, Typed, TypeOK
<1>4. /\ call' \in [Thread -> Frame]
      /\ \A u \in Thread : SameCast(u) /\ (~Reading(u) => call'[u] = call[u])
  <2>1. CASE Remove(a)
    <3> DEFINE readers == {u \in Thread : ~call[u].inSlot /\ call[u].at = a /\ ~InSlot(a)}
    <3>1. NowFind(readers, Type)
      BY <2>1 DEF Remove
    <3> HIDE DEF readers
    <3> QED
      BY <3>1, NowFindEffect
  <2>2. CASE \E e \in Entry : Register(a, e)
    <3>1. PICK e \in Entry : Register(a, e)
      BY <2>2
    <3> DEFINE readers == {u \in Thread : call[u].inSlot /\ SlotOf[call[u].at] = SlotOf[a]}
    <3>2. NowFind(readers, {e.type}) /\ {e.type} \in SUBSET Type
      BY <3>1 DEF Register, Entry
    <3> HIDE DEF readers
    <3> QED
      BY <3>2, NowFindEffect
  <2> QED
    BY <1>1, <2>1, <2>2
<1> QED
  BY <1>3, <1>4

LEMMA StoreResultEffect ==
  ASSUME Typed, NEW t \in Thread, StoreResult(t)
  PROVE  /\ call' \in [Thread -> Frame] /\ call'[t].pc = "return"
         /\ call'[t].answer = IF call[t].verdict \in Safe THEN "dst" ELSE "null"
         /\ call'[t].from = call[t].from /\ call'[t].to = call[t].to
         /\ \A u \in Thread : u # t => call'[u] = call[u]
<1>1. PICK report \in {"none", "full"} :
        Settle(t, IF call[t].verdict \in Safe THEN "dst" ELSE "null", report)
  BY DEF StoreResult
<1> QED
  BY <1>1, SettleType, SettleFrames DEF Typed

LEMMA ReturnEffect ==
  ASSUME Typed, NEW t \in Thread, Return(t)
  PROVE  /\ call' \in [Thread -> Frame] /\ call'[t] = Idle
         /\ \A u \in Thread : u # t => call'[u] = call[u]
BY IdleFrame DEF Return, Typed, TypeOK

LEMMA TypedStep == Typed /\ [Next]_vars => Typed'
<1> SUFFICES ASSUME Typed, [Next]_vars PROVE Typed'
  OBVIOUS
<1>1. ASSUME NEW t \in Thread, BeginCast(t) PROVE Typed'
  BY <1>1, CastCases, UncheckedEffect, CheckedEffect
<1>2. ASSUME NEW t \in Thread, ProbeSrc(t) \/ ProbeDst(t) PROVE Typed'
  <2>1. PICK step \in {"probe_dst", "hit", "decide"} : Goto(t, step)
    BY <1>2 DEF ProbeSrc, ProbeDst
  <2>2. Working(t) /\ UNCHANGED <<objs, slots, phantom, cache, count, history>>
    BY <1>2 DEF ProbeSrc, ProbeDst, At, Working
  <2> QED
    BY <2>1, <2>2, GotoFrames DEF Typed, TypeOK, Working, history
<1>3. ASSUME NEW t \in Thread, Hit(t) \/ CountHit(t) PROVE Typed'
  <2>1. /\ UNCHANGED <<objs, slots, phantom, cache, history>> /\ Working(t)
        /\ UNCHANGED count \/ \E S : Tally(S)
    BY <1>3 DEF Hit, CountHit, Working, At
  <2>2. count' \in [Verdict \cup {"verified"} -> Nat]
    BY <2>1, TallyType DEF Typed, TypeOK
  <2> QED
    BY <1>3, <2>1, <2>2, HitEffect, CountHitEffect DEF Typed, TypeOK, Working, history
<1>4. ASSUME NEW t \in Thread, Decide(t) PROVE Typed'
  <2>1. Working(t) /\ UNCHANGED <<objs, slots, phantom, cache, count, contested>>
    BY <1>4 DEF Decide, At, Working
  <2>2. misjudged' \subseteq Type \X Type
    BY <1>4, <2>1, DecideFrames DEF Typed, TypeOK
  <2> QED
    BY <1>4, <2>1, <2>2, DecideFrames DEF Typed, TypeOK, Working
<1>5. ASSUME NEW t \in Thread, StoreSrc(t) \/ StoreDst(t) PROVE Typed'
  <2>1. PICK step \in {"store_dst", "store_result"} : Goto(t, step)
    BY <1>5 DEF StoreSrc, StoreDst
  <2>2. Working(t) /\ UNCHANGED <<objs, slots, phantom, count, history>>
    BY <1>5 DEF StoreSrc, StoreDst, At, Working
  <2>3. cache' \in [LowBits \X LowBits ->
                      [src : Type \cup {NoType}, dst : Type \cup {NoType}, result : Verdict]]
    BY <1>5, <2>2, StoreEffect
  <2>4. /\ call' \in [Thread -> Frame] /\ Working(t)'
        /\ call'[t].from = call[t].from /\ call'[t].to = call[t].to
        /\ \A u \in Thread : u # t => call'[u] = call[u]
    BY <2>1, GotoFrames DEF Working
  <2>5. TypeOK'
    BY <2>2, <2>3, <2>4 DEF Typed, TypeOK, history
  <2> QED
    BY <2>2, <2>4, <2>5 DEF Typed, Working
<1>6. ASSUME NEW t \in Thread, StoreResult(t) PROVE Typed'
  <2>1. /\ count' \in [Verdict \cup {"verified"} -> Nat]
        /\ UNCHANGED <<objs, slots, phantom, history>>
    BY <1>6, TallyType DEF StoreResult, Typed
  <2>2. Working(t)
    BY <1>6 DEF StoreResult, At, Working
  <2>3. cache' \in [LowBits \X LowBits ->
                      [src : Type \cup {NoType}, dst : Type \cup {NoType}, result : Verdict]]
    BY <1>6, <2>2, StoreEffect
  <2> QED
    BY <1>6, <2>1, <2>2, <2>3, StoreResultEffect DEF Typed, TypeOK, Working, history
<1>7. ASSUME NEW t \in Thread, Return(t) PROVE Typed'
  <2>1. /\ UNCHANGED <<objs, slots, phantom, cache, count, history>>
        /\ ~Working(t)' /\ call'[t].from = NoType
    BY <1>7, ReturnEffect DEF Return, Working, Idle
  <2> QED
    BY <1>7, <2>1, ReturnEffect DEF Typed, TypeOK, Working, history
<1>8. CASE Reuse
  BY <1>8, ReuseEffect DEF Typed, TypeOK, Working, SameCast, history
<1>9. ASSUME NEW x \in Type, NEW y \in Type, LoadPhantom(x, y) PROVE Typed'
  BY <1>9 DEF LoadPhantom, Typed, TypeOK, Working, history
<1>10. CASE UNCHANGED vars
  BY <1>10 DEF vars, history, Typed, TypeOK, Working
<1> QED
  BY <1>1, <1>2, <1>3, <1>4, <1>5, <1>6, <1>7, <1>8, <1>9, <1>10 DEF Next, Step, Reuse

(* The fields of the frames, entries and counters keep their types, in      *)
(* every interleaving (hextype.cc:41-220, 222-322).                         *)
THEOREM TypeCorrect == Spec => []TypeOK
<1>1. Typed => TypeOK
  BY DEF Typed
<1> QED
  BY <1>1, TypedInit, TypedStep, PTL DEF Spec
-----------------------------------------------------------------------------
(* Nothing below a verdict that lets a cast through is ever taken away. *)
LEMMA AllowedStays ==
  ASSUME Typed, [Next]_vars, NEW s \in Type, NEW d \in Type, Allowed(s, d)
  PROVE  Allowed(s, d)'
<1>1. phantom[d] \subseteq phantom'[d]
  <2>1. ASSUME NEW x \in Type, NEW y \in Type, LoadPhantom(x, y) PROVE phantom[d] \subseteq phantom'[d]
    BY <2>1 DEF LoadPhantom, Typed, TypeOK
  <2>2. ASSUME NEW t \in Thread, BeginCast(t) PROVE phantom' = phantom
    BY <2>2, CastCases, UncheckedEffect, CheckedEffect
  <2>3. ASSUME NEW t \in Thread, Step(t) PROVE phantom' = phantom
    BY <2>3 DEF Step, ProbeSrc, ProbeDst, Hit, CountHit, Decide, StoreSrc, StoreDst, StoreResult,
                Return
  <2>4. CASE Reuse
    BY <2>4, ReuseEffect
  <2> QED
    BY <2>1, <2>2, <2>3, <2>4 DEF Next, Reuse, vars
<1> QED
  BY <1>1 DEF Allowed

LEMMA JudgeIsRight ==
  ASSUME RulesKnown, NEW s \in Type, NEW d \in Type, s # d
  PROVE  /\ Judge(s, d) \in {"SAFECASTUPCAST", "BADCAST"}
         /\ Judge(s, d) # "BADCAST" <=> Allowed(s, d)
BY DEF RulesKnown, Judge, Allowed

(* What has happened stays so. *)
LEMMA HistoryGrows ==
  ASSUME Typed, [Next]_vars
  PROVE  contested \subseteq contested' /\ misjudged \subseteq misjudged'
<1>1. ASSUME NEW t \in Thread, BeginCast(t)
      PROVE  contested \subseteq contested' /\ misjudged \subseteq misjudged'
  BY <1>1, CastCases, UncheckedEffect, CheckedEffect DEF Arrive, history
<1>2. ASSUME NEW t \in Thread, Step(t)
      PROVE  contested \subseteq contested' /\ misjudged \subseteq misjudged'
  <2>1. CASE Decide(t)
    BY <2>1, DecideFrames DEF Decide
  <2> QED
    BY <1>2, <2>1 DEF Step, ProbeSrc, ProbeDst, Hit, CountHit, StoreSrc, StoreDst, StoreResult,
                      Return, history
<1>3. CASE Reuse
  BY <1>3, ReuseEffect DEF history
<1> QED
  BY <1>1, <1>2, <1>3 DEF Next, Reuse, LoadPhantom, vars, history

(* No other pair has the entry, or no two casts have met there. *)
Undisputed(s, d) == ~Sharing(s, d) \/ CacheIndex(s, d) \notin contested
Undoubted(s, d) == <<s, d>> \notin misjudged /\ Undisputed(s, d)

Writing(t) == call[t].pc \in {"store_dst", "store_result"}

(* A cast is by itself at a cache entry that is not contested. *)
Alone ==
  \A t, u \in Thread :
    Working(t) /\ Working(u) /\ Slot(t) = Slot(u) /\ Slot(t) \notin contested => t = u

(* What a pair that is not in doubt can be told by its entry: the entry of   *)
(* no other pair is never wrong; one that is shared may be half written.    *)
EntryTrusted(s, d) ==
  LET i == CacheIndex(s, d)
  IN  <<s, d>> \notin misjudged /\ cache[i].result # "BADCAST" =>
        /\ ~Sharing(s, d) => Allowed(s, d)
        /\ /\ i \notin contested /\ cache[i].src = s /\ cache[i].dst = d
           /\ \A t \in Thread : Writing(t) => Slot(t) # i
           => Allowed(s, d)

VerdictTrusted(t) ==
  /\ Storing(t) /\ call[t].verdict # "BADCAST" /\ <<call[t].from, call[t].to>> \notin misjudged =>
       Allowed(call[t].from, call[t].to)
  /\ /\ At(t, "count_hit") \/ (Decided(t) /\ call[t].answer = "dst")
     /\ Undoubted(call[t].from, call[t].to)
     => Allowed(call[t].from, call[t].to)

(* What a cast has written, or has compared, is still there. *)
Tracked(t) ==
  Slot(t) \notin contested =>
    /\ call[t].pc \in {"store_dst", "store_result", "probe_dst", "hit"} =>
         cache[Slot(t)].src = call[t].from
    /\ call[t].pc \in {"store_result", "hit"} => cache[Slot(t)].dst = call[t].to

Trusted ==
  /\ Alone
  /\ \A s, d \in Type : EntryTrusted(s, d)
  /\ \A t \in Thread : VerdictTrusted(t) /\ Tracked(t)

LEMMA TrustedInit == Init => Trusted
<1> SUFFICES ASSUME Init PROVE Trusted
  OBVIOUS
<1>1. \A s, d \in Type : cache[CacheIndex(s, d)].result = "BADCAST"
  BY IndexType DEF Init
<1>2. \A t \in Thread : call[t].pc = "idle"
  BY DEF Init, Idle
<1> QED
  BY <1>1, <1>2 DEF Trusted, Alone, EntryTrusted, VerdictTrusted, Tracked, Working, Storing,
                    Decided, At

LEMMA UndoubtedBefore ==
  ASSUME Typed, [Next]_vars, NEW s, NEW d, Undoubted(s, d)'
  PROVE  Undoubted(s, d)
BY HistoryGrows DEF Undoubted, Undisputed, Sharing, CacheIndex

(* A cast that is not disturbed is as trustworthy as before. *)
LEMMA SameVerdict ==
  ASSUME Typed, [Next]_vars, NEW u \in Thread, VerdictTrusted(u), SameCast(u)
  PROVE  VerdictTrusted(u)'
<1>1. Storing(u) \/ At(u, "count_hit") \/ Decided(u) =>
        call[u].from \in Type /\ call[u].to \in Type
  BY DEF Storing, At, Decided, Working, Typed
<1>2. \A s, d \in Type : Allowed(s, d) => Allowed(s, d)'
  BY AllowedStays
<1>3. Undoubted(call[u].from, call[u].to)' => Undoubted(call[u].from, call[u].to)
  <2>1. PICK s, d : s = call[u].from /\ d = call[u].to /\ call'[u].from = s /\ call'[u].to = d
    BY DEF SameCast
  <2>2. Undoubted(s, d)' => Undoubted(s, d)
    BY UndoubtedBefore
  <2> QED
    BY <2>1, <2>2 DEF Undoubted, Undisputed, Sharing, CacheIndex
<1>4. misjudged \subseteq misjudged'
  BY HistoryGrows
<1> QED
  BY <1>1, <1>2, <1>3, <1>4 DEF VerdictTrusted, SameCast, Storing, Decided, At, Allowed

(* Steps that write nothing: only the cast that takes the step is to be     *)
(* looked at.                                                               *)
Quietly(t) ==
  /\ UNCHANGED cache
  /\ \A u \in Thread : u # t => SameCast(u)
  /\ ~Writing(t)
  /\ Working(t)' => Working(t) /\ call'[t].from = call[t].from /\ call'[t].to = call[t].to

LEMMA SameTrack ==
  ASSUME Typed, [Next]_vars, NEW u \in Thread, Tracked(u), SameCast(u), UNCHANGED cache
  PROVE  Tracked(u)'
<1>1. contested \subseteq contested'
  BY HistoryGrows
<1>2. Slot(u)' = Slot(u)
  BY DEF Slot, CacheIndex, SameCast
<1> QED
  BY <1>1, <1>2 DEF Tracked, SameCast

(* A cast that begins or stops writing is not looked at here. *)
LEMMA SameEntries ==
  ASSUME Typed, [Next]_vars, \A s, d \in Type : EntryTrusted(s, d), UNCHANGED cache,
         \A u \in Thread : Writing(u) => Writing(u)' /\ Slot(u)' = Slot(u)
  PROVE  \A s, d \in Type : EntryTrusted(s, d)'
<1> SUFFICES ASSUME NEW s \in Type, NEW d \in Type PROVE EntryTrusted(s, d)'
  OBVIOUS
<1>1. contested \subseteq contested' /\ misjudged \subseteq misjudged'
  BY HistoryGrows
<1>2. Allowed(s, d) => Allowed(s, d)'
  BY AllowedStays
<1>3. CacheIndex(s, d)' = CacheIndex(s, d) /\ (Sharing(s, d)' <=> Sharing(s, d))
  BY DEF CacheIndex, Sharing
<1>4. EntryTrusted(s, d)
  OBVIOUS
<1> HIDE DEF Sharing, CacheIndex
<1> QED
  BY <1>1, <1>2, <1>3, <1>4 DEF EntryTrusted

LEMMA SameAlone ==
  ASSUME Typed, [Next]_vars, Alone,
         \A u \in Thread : Working(u)' => Working(u) /\ Slot(u)' = Slot(u)
  PROVE  Alone'
BY HistoryGrows DEF Alone

LEMMA QuietStep ==
  ASSUME Typed, [Next]_vars, Trusted, NEW t \in Thread, Quietly(t),
         VerdictTrusted(t)', Tracked(t)'
  PROVE  Trusted'
<1>1. \A u \in Thread : u # t => Slot(u)' = Slot(u) /\ (Working(u)' <=> Working(u))
                                   /\ (Writing(u)' <=> Writing(u))
  BY DEF Quietly, SameCast, Slot, CacheIndex, Working, Writing
<1>2. Working(t)' => Slot(t)' = Slot(t)
  BY DEF Quietly, Slot, CacheIndex
<1>3. Alone'
  BY <1>1, <1>2, SameAlone DEF Quietly, Trusted
<1>4. \A s, d \in Type : EntryTrusted(s, d)'
  BY <1>1, SameEntries DEF Quietly, Trusted
<1>5. \A u \in Thread : VerdictTrusted(u)' /\ Tracked(u)'
  BY SameVerdict, SameTrack DEF Quietly, Trusted
<1> QED
  BY <1>3, <1>4, <1>5 DEF Trusted

LEMMA SameCastsStep ==
  ASSUME Typed, [Next]_vars, Trusted, UNCHANGED cache, \A u \in Thread : SameCast(u)
  PROVE  Trusted'
<1>1. \A u \in Thread : Slot(u)' = Slot(u) /\ (Working(u)' <=> Working(u))
                          /\ (Writing(u)' <=> Writing(u))
  BY DEF SameCast, Slot, CacheIndex, Working, Writing
<1>2. Alone' /\ \A s, d \in Type : EntryTrusted(s, d)'
  BY <1>1, SameAlone, SameEntries DEF Trusted
<1>3. \A u \in Thread : VerdictTrusted(u)' /\ Tracked(u)'
  BY SameVerdict, SameTrack DEF Trusted
<1> QED
  BY <1>2, <1>3 DEF Trusted

LEMMA ArriveStep ==
  ASSUME Typed, [Next]_vars, Trusted, NEW t \in Thread, NEW a \in Addr, NEW d \in Addr,
         NEW to \in Type, CastKnown(t, a, d, to) \/ CastInline(t, d, to)
  PROVE  Trusted'
<1>1. /\ UNCHANGED cache /\ ~Working(t) /\ ~Writing(t)
      /\ \A u \in Thread : u # t => call'[u] = call[u]
  BY CheckedEffect DEF At, Working, Writing
<1>2. \A u \in Thread : u # t => /\ SameCast(u) /\ Slot(u)' = Slot(u)
                                 /\ (Working(u)' <=> Working(u)) /\ (Writing(u)' <=> Writing(u))
  BY <1>1 DEF SameCast, Slot, CacheIndex, Working, Writing
<1>3. \A u \in Thread : u # t /\ Working(u) /\ Slot(u) = Slot(t)' => Slot(t)' \in contested'
  <2>1. PICK s \in Type, e \in Type : call'[t].from = s /\ call'[t].to = e /\ Arrive(t, s, e)
    BY CheckedEffect
  <2>2. Slot(t)' = CacheIndex(s, e)
    BY <2>1 DEF Slot, CacheIndex
  <2> HIDE DEF CacheIndex
  <2> QED
    BY <2>1, <2>2 DEF Arrive
<1>4. contested \subseteq contested'
  BY HistoryGrows
<1>5. Alone'
  BY <1>2, <1>3, <1>4 DEF Alone, Trusted
<1>6. \A s, e \in Type : EntryTrusted(s, e)'
  BY <1>1, <1>2, SameEntries DEF Trusted
<1>7. VerdictTrusted(t)' /\ Tracked(t)'
  BY CheckedEffect DEF VerdictTrusted, Tracked, Storing, Decided, At, Allowed
<1>8. \A u \in Thread : VerdictTrusted(u)' /\ Tracked(u)'
  BY <1>1, <1>2, <1>7, SameVerdict, SameTrack DEF Trusted
<1> QED
  BY <1>5, <1>6, <1>8 DEF Trusted

(* Only the cast that writes is at an entry that is not contested, and an   *)
(* entry it is writing is not relied on before the verdict is in.           *)
LEMMA StoreStep ==
  ASSUME Typed, [Next]_vars, Trusted, NEW t \in Thread,
         StoreSrc(t) \/ StoreDst(t) \/ StoreResult(t)
  PROVE  Trusted'
<1> DEFINE i == Slot(t)
<1>1. Working(t) /\ Storing(t) /\ call[t].from \in Type /\ call[t].to \in Type
  BY DEF StoreSrc, StoreDst, StoreResult, At, Working, Storing, Typed
<1>2. /\ call'[t].from = call[t].from /\ call'[t].to = call[t].to
      /\ \A u \in Thread : u # t => call'[u] = call[u]
      /\ StoreSrc(t) \/ StoreDst(t) => /\ Storing(t)' /\ Writing(t)' /\ call'[t].verdict = call[t].verdict
      /\ StoreSrc(t) => call[t].pc = "store_src" /\ call'[t].pc = "store_dst"
      /\ StoreDst(t) => call[t].pc = "store_dst" /\ call'[t].pc = "store_result"
      /\ StoreResult(t) => /\ call[t].pc = "store_result" /\ call'[t].pc = "return"
                           /\ call'[t].answer = IF call[t].verdict \in Safe THEN "dst" ELSE "null"
  <2>1. CASE StoreResult(t)
    BY <2>1, StoreResultEffect DEF StoreResult, StoreSrc, StoreDst, At
  <2>2. CASE StoreSrc(t)
    BY <2>2, GotoFrames DEF StoreSrc, StoreDst, StoreResult, At, Storing, Writing
  <2>3. CASE StoreDst(t)
    BY <2>3, GotoFrames DEF StoreSrc, StoreDst, StoreResult, At, Storing, Writing
  <2> QED
    BY <2>1, <2>2, <2>3
<1>3. /\ Slot(t)' = i
      /\ \A u \in Thread : u # t => /\ SameCast(u) /\ Slot(u)' = Slot(u)
                                    /\ (Working(u)' <=> Working(u)) /\ (Writing(u)' <=> Writing(u))
  BY <1>2 DEF SameCast, Slot, CacheIndex, Working, Writing
<1>4. contested \subseteq contested' /\ misjudged \subseteq misjudged'
  BY HistoryGrows
<1>5. Alone'
  BY <1>1, <1>3, SameAlone DEF Trusted
<1>6. \A u \in Thread : u # t /\ Working(u) /\ Slot(u) = i => i \in contested'
  BY <1>1, <1>4 DEF Alone, Trusted
<1>7. /\ i \in LowBits \X LowBits
      /\ \A j \in LowBits \X LowBits : j # i => cache'[j] = cache[j]
      /\ StoreSrc(t) => cache'[i].src = call[t].from /\ cache'[i].result = cache[i].result
      /\ StoreDst(t) => /\ cache'[i].dst = call[t].to /\ cache'[i].src = cache[i].src
                        /\ cache'[i].result = cache[i].result
      /\ StoreResult(t) => /\ cache'[i].result = call[t].verdict
                           /\ cache'[i].src = cache[i].src /\ cache'[i].dst = cache[i].dst
  BY <1>1, StoreEffect
<1>8. /\ call[t].verdict # "BADCAST" /\ <<call[t].from, call[t].to>> \notin misjudged =>
           Allowed(call[t].from, call[t].to)
      /\ i \notin contested =>
           /\ call[t].pc \in {"store_dst", "store_result"} => cache[i].src = call[t].from
           /\ call[t].pc = "store_result" => cache[i].dst = call[t].to
  BY <1>1 DEF Trusted, VerdictTrusted, Tracked
<1>9. Allowed(call[t].from, call[t].to) => Allowed(call[t].from, call[t].to)'
  BY <1>1, <1>2, AllowedStays DEF Allowed
<1> HIDE DEF i
<1>10. Tracked(t)'
  BY <1>2, <1>3, <1>4, <1>7, <1>8 DEF Tracked
<1>11. VerdictTrusted(t)'
  BY <1>2, <1>4, <1>8, <1>9
     DEF VerdictTrusted, Storing, Decided, At, Undoubted, Safe
<1>12. ASSUME NEW u \in Thread, u # t PROVE Tracked(u)' /\ VerdictTrusted(u)'
  <2>1. VerdictTrusted(u)'
    BY <1>3, <1>12, SameVerdict DEF Trusted
  <2>2. SUFFICES ASSUME Slot(u) \notin contested',
                        call[u].pc \in {"store_dst", "store_result", "probe_dst", "hit"}
                 PROVE  /\ cache'[Slot(u)].src = call[u].from
                        /\ call[u].pc \in {"store_result", "hit"} => cache'[Slot(u)].dst = call[u].to
    BY <1>2, <1>3, <1>12, <2>1 DEF Tracked
  <2>3. Working(u) /\ Slot(u) \in LowBits \X LowBits
    BY <2>2, StoreEffect DEF Working
  <2>4. cache'[Slot(u)] = cache[Slot(u)]
    BY <1>6, <1>7, <1>12, <2>2, <2>3
  <2> QED
    BY <1>4, <2>2, <2>4 DEF Trusted, Tracked
<1>13. ASSUME NEW s \in Type, NEW d \in Type PROVE EntryTrusted(s, d)'
  <2> DEFINE k == CacheIndex(s, d)
  <2>1. k \in LowBits \X LowBits /\ k' = k /\ (Sharing(s, d)' <=> Sharing(s, d))
    BY IndexType DEF CacheIndex, Sharing
  <2>2. Allowed(s, d) => Allowed(s, d)'
    BY AllowedStays
  <2>3. EntryTrusted(s, d)
    BY DEF Trusted
  <2>4. k = i /\ ~Sharing(s, d) => call[t].from = s /\ call[t].to = d
    BY <1>1 DEF i, Slot, Sharing
  <2>5. EntryTrusted(s, d)' <=>
          (<<s, d>> \notin misjudged' /\ cache'[k].result # "BADCAST" =>
             /\ ~Sharing(s, d) => Allowed(s, d)'
             /\ /\ k \notin contested' /\ cache'[k].src = s /\ cache'[k].dst = d
                /\ \A u \in Thread : Writing(u)' => Slot(u)' # k
                => Allowed(s, d)')
    BY <2>1 DEF EntryTrusted
  <2>6. /\ <<s, d>> \notin misjudged /\ cache[k].result # "BADCAST" /\ ~Sharing(s, d) => Allowed(s, d)
        /\ /\ <<s, d>> \notin misjudged /\ cache[k].result # "BADCAST"
           /\ k \notin contested /\ cache[k].src = s /\ cache[k].dst = d
           /\ \A u \in Thread : Writing(u) => Slot(u) # k
           => Allowed(s, d)
    BY <2>3 DEF EntryTrusted
  <2> HIDE DEF k
  <2>7. CASE k # i
    <3>1. cache'[k] = cache[k]
      BY <1>7, <2>1, <2>7
    <3>2. (\A u \in Thread : Writing(u)' => Slot(u)' # k) =>
            \A u \in Thread : Writing(u) => Slot(u) # k
      BY <1>3, <2>7 DEF i
    <3> QED
      BY <1>4, <2>2, <2>5, <2>6, <3>1, <3>2
  <2>8. CASE k = i /\ ~StoreResult(t)
    <3>1. cache'[k].result = cache[k].result
      BY <1>7, <2>8
    <3>2. ~\A u \in Thread : Writing(u)' => Slot(u)' # k
      BY <1>2, <1>3, <2>8
    <3> QED
      BY <1>4, <2>2, <2>5, <2>6, <3>1, <3>2
  <2>9. CASE k = i /\ StoreResult(t)
    <3>1. call[t].from = s /\ call[t].to = d /\ cache'[k].result # "BADCAST"
            /\ <<s, d>> \notin misjudged' => Allowed(s, d)'
      BY <1>4, <1>7, <1>8, <2>2, <2>9
    <3>2. k \notin contested' /\ cache'[k].src = s /\ cache'[k].dst = d =>
            call[t].from = s /\ call[t].to = d
      BY <1>2, <1>4, <1>7, <1>8, <2>9
    <3> QED
      BY <2>4, <2>5, <2>9, <3>1, <3>2
  <2> QED
    BY <2>7, <2>8, <2>9
<1> QED
  BY <1>5, <1>10, <1>11, <1>12, <1>13 DEF Trusted

(* A cast is trusted unless its pair is in doubt. *)
LEMMA StaysTrusted ==
  ASSUME Typed, [Next]_vars, NEW s \in Type, NEW d \in Type,
         Undoubted(s, d) => Allowed(s, d)
  PROVE  Undoubted(s, d)' => Allowed(s, d)'
BY UndoubtedBefore, AllowedStays

LEMMA TrustedStep ==
  ASSUME RulesKnown, Typed, Trusted, [Next]_vars
  PROVE  Trusted'
<1>1. ASSUME NEW t \in Thread, Unchecked(t) PROVE Trusted'
  <2>1. /\ UNCHANGED cache /\ ~Writing(t) /\ ~Working(t)' /\ call'[t].pc = "return"
        /\ call'[t].from = NoType
        /\ \A u \in Thread : u # t => SameCast(u)
    BY <1>1, UncheckedEffect DEF Typed, At, Writing, Working, SameCast
  <2>2. VerdictTrusted(t)' /\ Tracked(t)'
    BY <2>1 DEF VerdictTrusted, Tracked, Storing, Decided, At
  <2> QED
    BY <2>1, <2>2, QuietStep DEF Quietly
<1>2. ASSUME NEW t \in Thread, NEW step \in {"probe_dst", "hit", "decide"}, Goto(t, step),
             UNCHANGED cache, call[t].pc \in {"probe_src", "probe_dst"},
             step # "decide" => cache[Slot(t)].src = call[t].from \/ Slot(t) \in contested,
             step = "hit" => cache[Slot(t)].dst = call[t].to
      PROVE  Trusted'
  <2>1. /\ call'[t].pc = step /\ call'[t].from = call[t].from /\ call'[t].to = call[t].to
        /\ Working(t) /\ ~Writing(t) /\ Slot(t)' = Slot(t)
        /\ \A u \in Thread : u # t => SameCast(u)
    BY <1>2, GotoFrames DEF Working, Writing, SameCast, Slot, CacheIndex
  <2>2. contested \subseteq contested'
    BY HistoryGrows
  <2>3. VerdictTrusted(t)' /\ Tracked(t)'
    BY <1>2, <2>1, <2>2 DEF VerdictTrusted, Tracked, Storing, Decided, At
  <2> QED
    BY <1>2, <2>1, <2>3, QuietStep DEF Quietly
<1>3. ASSUME NEW t \in Thread, ProbeSrc(t) PROVE Trusted'
  BY <1>2, <1>3 DEF ProbeSrc, At
<1>4. ASSUME NEW t \in Thread, ProbeDst(t) PROVE Trusted'
  BY <1>2, <1>4 DEF ProbeDst, At, Trusted, Tracked
<1>5. ASSUME NEW t \in Thread, Hit(t) PROVE Trusted'
  <2>1. /\ UNCHANGED cache /\ Working(t) /\ ~Writing(t) /\ call[t].pc = "hit"
        /\ call[t].from \in Type /\ call[t].to \in Type
    BY <1>5 DEF Hit, At, Working, Writing, Typed
  <2>2. cache[Slot(t)].result # "BADCAST" /\ Undoubted(call[t].from, call[t].to) =>
          Allowed(call[t].from, call[t].to)
    <3> SUFFICES ASSUME cache[Slot(t)].result # "BADCAST", Undoubted(call[t].from, call[t].to)
                 PROVE  Allowed(call[t].from, call[t].to)
      OBVIOUS
    <3>1. EntryTrusted(call[t].from, call[t].to)
      BY <2>1 DEF Trusted
    <3>2. CASE ~Sharing(call[t].from, call[t].to)
      BY <3>1, <3>2 DEF EntryTrusted, Undoubted, Slot
    <3>3. CASE Slot(t) \notin contested
      <4>1. cache[Slot(t)].src = call[t].from /\ cache[Slot(t)].dst = call[t].to
        BY <2>1, <3>3 DEF Trusted, Tracked
      <4>2. \A u \in Thread : Writing(u) => Slot(u) # Slot(t)
        BY <2>1, <3>3 DEF Trusted, Alone, Writing, Working
      <4> QED
        BY <3>1, <3>3, <4>1, <4>2 DEF EntryTrusted, Undoubted, Slot
    <3> QED
      BY <3>2, <3>3 DEF Undoubted, Undisputed, Slot
  <2>3. /\ call'[t].from = call[t].from /\ call'[t].to = call[t].to
        /\ \/ /\ call'[t].pc = "return"
              /\ call'[t].answer = "dst" => cache[Slot(t)].result # "BADCAST"
           \/ call'[t].pc = "count_hit" /\ cache[Slot(t)].result # "BADCAST"
        /\ \A u \in Thread : u # t => SameCast(u)
    BY <1>5, HitEffect DEF SameCast
  <2>4. PICK s \in Type, d \in Type : s = call[t].from /\ d = call[t].to
    BY <2>1
  <2>5. cache[Slot(t)].result # "BADCAST" => (Undoubted(s, d)' => Allowed(s, d)')
    BY <2>2, <2>4, StaysTrusted
  <2>6. VerdictTrusted(t)' /\ Tracked(t)'
    BY <2>3, <2>4, <2>5 DEF VerdictTrusted, Tracked, Storing, Decided, At, Undoubted, Undisputed,
                            Sharing, CacheIndex, Allowed
  <2> QED
    BY <2>1, <2>3, <2>6, QuietStep DEF Quietly
<1>6. ASSUME NEW t \in Thread, CountHit(t) PROVE Trusted'
  <2>1. /\ UNCHANGED cache /\ Working(t) /\ ~Writing(t) /\ call[t].pc = "count_hit"
        /\ call[t].from \in Type /\ call[t].to \in Type
    BY <1>6 DEF CountHit, At, Working, Writing, Typed
  <2>2. /\ call'[t].from = call[t].from /\ call'[t].to = call[t].to /\ call'[t].pc = "return"
        /\ \A u \in Thread : u # t => SameCast(u)
    BY <1>6, CountHitEffect DEF SameCast
  <2>3. PICK s \in Type, d \in Type : s = call[t].from /\ d = call[t].to
    BY <2>1
  <2>4. Undoubted(s, d) => Allowed(s, d)
    BY <2>1, <2>3 DEF Trusted, VerdictTrusted, At
  <2>5. Undoubted(s, d)' => Allowed(s, d)'
    BY <2>4, StaysTrusted
  <2>6. VerdictTrusted(t)' /\ Tracked(t)'
    BY <2>2, <2>3, <2>5 DEF VerdictTrusted, Tracked, Storing, Decided, At, Undoubted, Undisputed,
                            Sharing, CacheIndex, Allowed
  <2> QED
    BY <2>1, <2>2, <2>6, QuietStep DEF Quietly
<1>7. ASSUME NEW t \in Thread, Decide(t) PROVE Trusted'
  <2>1. /\ UNCHANGED cache /\ Working(t) /\ ~Writing(t)
        /\ call[t].from \in Type /\ call[t].to \in Type
    BY <1>7 DEF Decide, At, Working, Writing, Typed
  <2>2. PICK s \in Type, d \in Type : s = call[t].from /\ d = call[t].to
    BY <2>1
  <2>3. PICK r \in call[t].rules :
          /\ call'[t].verdict = IF s = d THEN "SAFECASTSAME" ELSE Judge(r, d)
          /\ misjudged' = IF r = s THEN misjudged ELSE misjudged \cup {<<s, d>>}
    BY <1>7, <2>2, DecideFrames
  <2>4. /\ call'[t].from = s /\ call'[t].to = d /\ call'[t].pc = "store_src"
        /\ \A u \in Thread : u # t => SameCast(u)
    BY <1>7, <2>2, DecideFrames DEF SameCast
  <2>5. call'[t].verdict # "BADCAST" /\ <<s, d>> \notin misjudged' => Allowed(s, d)
    <3>1. CASE s = d
      BY <3>1 DEF Allowed
    <3>2. CASE s # d /\ r = s
      BY <2>3, <3>2, JudgeIsRight
    <3>3. CASE r # s
      BY <2>3, <3>3
    <3> QED
      BY <3>1, <3>2, <3>3
  <2>6. Allowed(s, d) => Allowed(s, d)'
    BY AllowedStays
  <2>7. VerdictTrusted(t)' /\ Tracked(t)'
    BY <2>4, <2>5, <2>6 DEF VerdictTrusted, Tracked, Storing, Decided, At, Allowed
  <2> QED
    BY <2>1, <2>2, <2>4, <2>7, QuietStep DEF Quietly
<1>8. ASSUME NEW t \in Thread, Return(t) PROVE Trusted'
  <2>1. UNCHANGED cache /\ ~Writing(t) /\ call'[t].pc = "idle"
    BY <1>8, ReturnEffect DEF Return, At, Writing, Idle
  <2>2. VerdictTrusted(t)' /\ Tracked(t)'
    BY <2>1 DEF VerdictTrusted, Tracked, Storing, Decided, At
  <2> QED
    BY <1>8, <2>1, <2>2, ReturnEffect, QuietStep DEF Quietly, SameCast, Working
<1>9. CASE Reuse
  BY <1>9, ReuseEffect, SameCastsStep
<1>10. ASSUME NEW x \in Type, NEW y \in Type, LoadPhantom(x, y) PROVE Trusted'
  BY <1>10, SameCastsStep DEF LoadPhantom, SameCast
<1>11. CASE UNCHANGED vars
  BY <1>11, SameCastsStep DEF vars, SameCast
<1> QED
  BY <1>1, <1>3, <1>4, <1>5, <1>6, <1>7, <1>8, <1>9, <1>10, <1>11,
     CastCases, ArriveStep, StoreStep DEF Next, Step, Reuse

(* Whatever any number of threads cast, register, remove and load, a        *)
(* forbidden cast is let through only if its cache entry was contested by   *)
(* another pair of types or its pair was judged by another object's rule    *)
(* (hextype.cc:95-209, 222-322).                                            *)
THEOREM ConfusionsExplained == RulesKnown => (Spec => []MissesExplained)
<1> SUFFICES ASSUME RulesKnown PROVE Spec => []MissesExplained
  OBVIOUS
<1>1. Trusted => MissesExplained
  BY DEF Trusted, VerdictTrusted, Undoubted, Undisputed, Slot, MissesExplained
<1>2. Init => Typed /\ Trusted
  BY TypedInit, TrustedInit
<1>3. Typed /\ Trusted /\ [Next]_vars => (Typed /\ Trusted)'
  BY TypedStep, TrustedStep
<1> QED
  BY <1>1, <1>2, <1>3, PTL DEF Spec
-----------------------------------------------------------------------------

(* One thread: the entry it is writing is the only one that may be torn.    *)
EntryRight(i) ==
  cache[i].src # NoType =>
    /\ i = CacheIndex(cache[i].src, cache[i].dst)
    /\ cache[i].result \in Safe <=> Allowed(cache[i].src, cache[i].dst)
    /\ cache[i].result # "FAILINFO"

FrameRight(t) ==
  /\ Reading(t) => call[t].rules = {call[t].from}
  /\ Storing(t) => /\ call[t].verdict # "FAILINFO"
                   /\ call[t].verdict \in Safe <=> Allowed(call[t].from, call[t].to)
  /\ call[t].pc \in {"store_dst", "store_result", "probe_dst", "hit"} =>
       cache[Slot(t)].src = call[t].from
  /\ call[t].pc \in {"store_result", "hit"} => cache[Slot(t)].dst = call[t].to
  /\ At(t, "count_hit") =>
       cache[Slot(t)].result # "BADCAST" /\ Allowed(call[t].from, call[t].to)
  /\ Decided(t) => (call[t].answer = "dst" <=> Allowed(call[t].from, call[t].to))

Coherent ==
  /\ phantom = Phantoms
  /\ \A i \in LowBits \X LowBits : EntryRight(i) \/ \E t \in Thread : Writing(t) /\ i = Slot(t)
  /\ \A t \in Thread : FrameRight(t)

LEMMA CoherentInit == Init => Coherent
<1> SUFFICES ASSUME Init PROVE Coherent
  OBVIOUS
<1>1. \A i \in LowBits \X LowBits : EntryRight(i)
  BY DEF Init, EntryRight
<1>2. \A t \in Thread : FrameRight(t)
  BY DEF Init, Idle, FrameRight, Reading, Storing, Decided, At
<1> QED
  BY <1>1, <1>2 DEF Init, Coherent

(* The only thread keeps the cache coherent if it does in each of its steps. *)
LEMMA CoherentStep ==
  ASSUME RulesKnown, OneThread, NothingLate, Typed, Coherent, [Next]_vars
  PROVE  Coherent'
<1>1. ASSUME NEW t \in Thread, UNCHANGED <<cache, phantom>>, FrameRight(t)',
             ~Writing(t)
      PROVE  Coherent'
  <2>1. \A i \in LowBits \X LowBits : EntryRight(i)'
    BY <1>1 DEF OneThread, Coherent, EntryRight, Allowed
  <2>2. \A u \in Thread : FrameRight(u)'
    BY <1>1 DEF OneThread
  <2> QED
    BY <1>1, <2>1, <2>2 DEF Coherent
<1>2. ASSUME NEW t \in Thread, Unchecked(t) PROVE Coherent'
  <2>1. call'[t].from = NoType /\ call'[t].pc = "return" /\ ~Writing(t)
    BY <1>2, UncheckedEffect DEF Typed, At, Writing
  <2>2. FrameRight(t)'
    BY <2>1 DEF FrameRight, Reading, Storing, Decided, At
  <2> QED
    BY <1>1, <1>2, <2>1, <2>2, UncheckedEffect
<1>3. ASSUME NEW t \in Thread, NEW a \in Addr, NEW d \in Addr, NEW to \in Type,
             CastKnown(t, a, d, to) \/ CastInline(t, d, to)
      PROVE  Coherent'
  <2>1. FrameRight(t)' /\ ~Writing(t)
    BY <1>3, CheckedEffect DEF FrameRight, Storing, Decided, At, Allowed, Safe, Writing
  <2> QED
    BY <1>1, <1>3, <2>1, CheckedEffect
<1>4. ASSUME NEW t \in Thread, ProbeSrc(t) PROVE Coherent'
  <2>1. /\ UNCHANGED <<cache, phantom>> /\ ~Writing(t)
        /\ Goto(t, IF cache[Slot(t)].src = call[t].from THEN "probe_dst" ELSE "decide")
        /\ call[t].rules = {call[t].from}
    BY <1>4 DEF ProbeSrc, At, Writing, Reading, Coherent, FrameRight
  <2>2. Slot(t)' = Slot(t)
    BY <2>1, GotoFrames DEF Slot, CacheIndex
  <2>3. FrameRight(t)'
    BY <2>1, <2>2, GotoFrames DEF FrameRight, Reading, Storing, Decided, At
  <2> QED
    BY <1>1, <2>1, <2>3
<1>5. ASSUME NEW t \in Thread, ProbeDst(t) PROVE Coherent'
  <2>1. /\ UNCHANGED <<cache, phantom>> /\ ~Writing(t) /\ call[t].pc = "probe_dst"
        /\ Goto(t, IF cache[Slot(t)].dst = call[t].to THEN "hit" ELSE "decide")
        /\ call[t].rules = {call[t].from}
    BY <1>5 DEF ProbeDst, At, Writing, Reading, Coherent, FrameRight
  <2>2. Slot(t)' = Slot(t)
    BY <2>1, GotoFrames DEF Slot, CacheIndex
  <2>3. cache[Slot(t)].src = call[t].from
    BY <2>1 DEF Coherent, FrameRight
  <2>4. FrameRight(t)'
    BY <2>1, <2>2, <2>3, GotoFrames DEF FrameRight, Reading, Storing, Decided, At
  <2> QED
    BY <1>1, <2>1, <2>4
<1>6. ASSUME NEW t \in Thread, Hit(t) PROVE Coherent'
  <2>1. UNCHANGED <<cache, phantom>> /\ ~Writing(t) /\ call[t].pc = "hit" /\ Working(t)
    BY <1>6 DEF Hit, At, Writing, Working
  <2>2. /\ Slot(t) \in LowBits \X LowBits
        /\ cache[Slot(t)].src = call[t].from /\ cache[Slot(t)].dst = call[t].to
        /\ call[t].from # NoType /\ cache[Slot(t)].result \in Verdict
    BY <2>1, StoreEffect, TypeAssumption DEF Coherent, FrameRight, Typed, TypeOK
  <2>3. EntryRight(Slot(t))
    BY <2>1, <2>2 DEF Coherent, OneThread
  <2>4. cache[Slot(t)].result # "BADCAST" <=> Allowed(call[t].from, call[t].to)
    BY <2>2, <2>3 DEF EntryRight, Safe, Verdict
  <2>5. FrameRight(t)'
    BY <1>6, <2>1, <2>4, HitEffect DEF FrameRight, Reading, Storing, Decided, At, Allowed, Slot, CacheIndex
  <2> QED
    BY <1>1, <2>1, <2>5
<1>7. ASSUME NEW t \in Thread, Decide(t) PROVE Coherent'
  <2>1. UNCHANGED <<cache, phantom>> /\ ~Writing(t) /\ Working(t)
    BY <1>7 DEF Decide, At, Writing, Working
  <2>2. call[t].from \in Type /\ call[t].to \in Type
    BY <2>1 DEF Typed
  <2>3. call[t].rules = {call[t].from}
    BY <1>7 DEF Decide, At, Reading, Coherent, FrameRight
  <2>4. call'[t].verdict = IF call[t].from = call[t].to THEN "SAFECASTSAME"
                           ELSE Judge(call[t].from, call[t].to)
    BY <1>7, <2>3, DecideFrames
  <2>5. /\ call'[t].verdict # "FAILINFO"
        /\ call'[t].verdict \in Safe <=> Allowed(call[t].from, call[t].to)
    BY <2>2, <2>4, JudgeIsRight DEF Allowed, Safe
  <2>6. FrameRight(t)'
    BY <1>7, <2>1, <2>5, DecideFrames DEF FrameRight, Reading, Storing, Decided, At, Allowed
  <2> QED
    BY <1>1, <2>1, <2>6
<1>8. ASSUME NEW t \in Thread, StoreSrc(t) \/ StoreDst(t) PROVE Coherent'
  <2>1. /\ UNCHANGED phantom /\ Working(t) /\ Storing(t)
        /\ Goto(t, IF StoreSrc(t) THEN "store_dst" ELSE "store_result")
        /\ StoreDst(t) => call[t].pc = "store_dst" /\ ~StoreSrc(t)
    BY <1>8 DEF StoreSrc, StoreDst, At, Working, Storing
  <2>2. Slot(t)' = Slot(t) /\ Writing(t)'
    BY <2>1, GotoFrames DEF Slot, CacheIndex, Writing
  <2>3. FrameRight(t)'
    <3>1. StoreSrc(t) => cache'[Slot(t)].src = call[t].from
      BY <2>1, StoreEffect
    <3>2. StoreDst(t) => cache'[Slot(t)].src = call[t].from /\ cache'[Slot(t)].dst = call[t].to
      BY <2>1, StoreEffect DEF Coherent, FrameRight
    <3>3. /\ call[t].verdict # "FAILINFO"
          /\ call[t].verdict \in Safe <=> Allowed(call[t].from, call[t].to)
      BY <2>1 DEF Coherent, FrameRight
    <3> QED
      BY <1>8, <2>1, <2>2, <3>1, <3>2, <3>3, GotoFrames
         DEF FrameRight, Reading, Storing, Decided, At, Allowed
  <2>4. \A i \in LowBits \X LowBits : i # Slot(t) => EntryRight(i)'
    BY <1>8, <2>1, StoreEffect DEF Coherent, OneThread, EntryRight, Allowed
  <2> QED
    BY <2>1, <2>2, <2>3, <2>4 DEF Coherent, OneThread
<1>9. ASSUME NEW t \in Thread, StoreResult(t) PROVE Coherent'
  <2>1. UNCHANGED phantom /\ Working(t) /\ Storing(t) /\ call[t].pc = "store_result"
    BY <1>9 DEF StoreResult, At, Working, Storing
  <2>2. /\ call[t].verdict # "FAILINFO"
        /\ call[t].verdict \in Safe <=> Allowed(call[t].from, call[t].to)
        /\ cache[Slot(t)].src = call[t].from /\ cache[Slot(t)].dst = call[t].to
    BY <2>1 DEF Coherent, FrameRight
  <2>3. /\ cache'[Slot(t)].result = call[t].verdict
        /\ cache'[Slot(t)].src = call[t].from /\ cache'[Slot(t)].dst = call[t].to
    BY <1>9, <2>1, <2>2, StoreEffect
  <2>4. EntryRight(Slot(t))'
    <3>1. Slot(t)' = Slot(t)
      BY <1>9, StoreResultEffect DEF Slot, CacheIndex
    <3> QED
      BY <2>1, <2>2, <2>3, <3>1 DEF EntryRight, Slot, CacheIndex, Allowed
  <2>5. \A i \in LowBits \X LowBits : EntryRight(i)'
    <3>1. Slot(t)' = Slot(t)
      BY <1>9, StoreResultEffect DEF Slot, CacheIndex
    <3>2. \A i \in LowBits \X LowBits : i # Slot(t) => EntryRight(i)'
      BY <1>9, <2>1, StoreEffect DEF Coherent, OneThread, EntryRight, Allowed
    <3> QED
      BY <2>4, <3>1, <3>2
  <2>6. FrameRight(t)'
    BY <1>9, <2>1, <2>2, StoreResultEffect DEF FrameRight, Reading, Storing, Decided, At, Allowed
  <2> QED
    BY <2>1, <2>5, <2>6 DEF Coherent, OneThread
<1>10. ASSUME NEW t \in Thread, Return(t) PROVE Coherent'
  <2>1. UNCHANGED <<cache, phantom>> /\ ~Writing(t)
    BY <1>10 DEF Return, At, Writing
  <2>2. FrameRight(t)'
    BY <1>10, ReturnEffect DEF Idle, FrameRight, Reading, Storing, Decided, At
  <2> QED
    BY <1>1, <2>1, <2>2
<1>11. ASSUME NEW t \in Thread, CountHit(t) PROVE Coherent'
  <2>1. UNCHANGED <<cache, phantom>> /\ ~Writing(t) /\ At(t, "count_hit")
    BY <1>11 DEF CountHit, At, Writing
  <2>2. Allowed(call[t].from, call[t].to)
    BY <2>1 DEF Coherent, FrameRight
  <2>3. FrameRight(t)'
    BY <1>11, <2>1, <2>2, CountHitEffect DEF FrameRight, Reading, Storing, Decided, At, Allowed
  <2> QED
    BY <1>1, <2>1, <2>3
<1>12. CASE Reuse
  <2>1. UNCHANGED <<cache, phantom>> /\ \A u \in Thread : At(u, "idle") /\ call'[u] = call[u]
    BY <1>12, ReuseEffect DEF SomeIdle, OneThread, At, Reading
  <2> QED
    BY <2>1 DEF Coherent, EntryRight, FrameRight, Reading, Storing, Decided, At, Slot, CacheIndex,
                Writing, Allowed
<1>13. CASE UNCHANGED <<phantom, cache, call>>
  BY <1>13 DEF Coherent, EntryRight, FrameRight, Reading, Storing, Decided, At, Slot, CacheIndex,
               Writing, Allowed
<1>14. ASSUME NEW x \in Type, NEW y \in Type, LoadPhantom(x, y) PROVE Coherent'
  <2>1. phantom[x] \cup {y} = phantom[x]
    BY <1>14 DEF LoadPhantom, NothingLate, Coherent
  <2>2. phantom' = phantom
    BY <1>14, <2>1, PhantomsAssumption DEF LoadPhantom, Coherent
  <2> QED
    BY <1>13, <1>14, <2>2 DEF LoadPhantom
<1> QED
  BY <1>2, <1>3, <1>4, <1>5, <1>6, <1>7, <1>8, <1>9, <1>10, <1>11, <1>12, <1>13, <1>14, CastCases
     DEF Next, Step, Reuse, vars

LEMMA CoherentAlways ==
  RulesKnown /\ OneThread /\ NothingLate => (Spec => [](Typed /\ Coherent))
<1> SUFFICES ASSUME RulesKnown, OneThread, NothingLate PROVE Spec => [](Typed /\ Coherent)
  OBVIOUS
<1>1. Init => Typed /\ Coherent
  BY TypedInit, CoherentInit
<1>2. Typed /\ Coherent /\ [Next]_vars => (Typed /\ Coherent)'
  BY TypedStep, CoherentStep
<1> QED
  BY <1>1, <1>2, PTL DEF Spec

(* With one thread and all phantom types known from the start, the cache    *)
(* holds for each pair what a search would find, however pairs collide and  *)
(* displace each other (hextype.cc:95-209, 234-313).                        *)
THEOREM CacheStaysRight ==
  RulesKnown /\ OneThread /\ NothingLate => (Spec => []CacheRight)
<1> SUFFICES ASSUME RulesKnown, OneThread, NothingLate PROVE Spec => []CacheRight
  OBVIOUS
<1>1. Typed /\ Coherent => CacheRight
  <2> SUFFICES ASSUME Typed, Coherent, \A t \in Thread : At(t, "idle"),
                      NEW i \in DOMAIN cache, cache[i].src # NoType
               PROVE  /\ i = CacheIndex(cache[i].src, cache[i].dst)
                      /\ cache[i].result \in Safe <=> Allowed(cache[i].src, cache[i].dst)
    BY DEF CacheRight
  <2>1. i \in LowBits \X LowBits
    BY DEF Typed, TypeOK
  <2>2. EntryRight(i)
    BY <2>1 DEF Coherent, At, Writing
  <2> QED
    BY <2>2 DEF EntryRight
<1> QED
  BY <1>1, CoherentAlways, PTL

(* Under the same conditions every cast is answered by the relations        *)
(* between its two types, on every path.                                    *)
THEOREM AnswersAreRight ==
  RulesKnown /\ OneThread /\ NothingLate => (Spec => []AnswersRight)
<1> SUFFICES ASSUME RulesKnown, OneThread, NothingLate PROVE Spec => []AnswersRight
  OBVIOUS
<1>1. Typed /\ Coherent => AnswersRight
  BY DEF Coherent, FrameRight, AnswersRight
<1> QED
  BY <1>1, CoherentAlways, PTL
-----------------------------------------------------------------------------
(* The casts that are counted and have no outcome yet. *)
InFlight(t) == Working(t) /\ ~call[t].fast
Pending == {t \in Thread : InFlight(t)}

Outcomes == count["BADCAST"] + count["FAILINFO"]
              + count["SAFECASTSAME"] + count["SAFECASTUPCAST"]

(* A hit may be left without an outcome, the verdict having become BADCAST. *)
Covered ==
  /\ IsFiniteSet(Pending)
  /\ Outcomes + Cardinality(Pending) <= count["verified"]

(* None is, when no other thread can have written it. *)
Balanced ==
  /\ IsFiniteSet(Pending)
  /\ count["verified"] = Outcomes + Cardinality(Pending)

LEMMA BalancedInit == Init => Balanced /\ Covered
<1> SUFFICES ASSUME Init PROVE Balanced /\ Covered
  OBVIOUS
<1>1. Pending = {}
  BY DEF Init, Idle, Pending, InFlight, Working
<1>2. count["verified"] = 0 /\ Outcomes = 0
  BY DEF Init, Outcomes, Verdict
<1> QED
  BY <1>1, <1>2, FS_EmptySet DEF Balanced, Covered

(* What a tally adds to each side. *)
LEMMA TallyAdds ==
  ASSUME Typed, NEW S, Tally(S)
  PROVE  /\ count'["verified"] = count["verified"] + IF "verified" \in S THEN 1 ELSE 0
         /\ \A v \in Verdict : S \cap Verdict = {v} => Outcomes' = Outcomes + 1
         /\ S \cap Verdict = {} => Outcomes' = Outcomes
<1>1. \A c \in Verdict \cup {"verified"} :
        count[c] \in Nat /\ count'[c] = count[c] + IF c \in S THEN 1 ELSE 0
  BY DEF Tally, Typed, TypeOK
<1>2. Verdict = {"BADCAST", "FAILINFO", "SAFECASTSAME", "SAFECASTUPCAST"}
  BY DEF Verdict
<1> QED
  BY <1>1, <1>2 DEF Outcomes

(* A step of one thread changes the pending casts by that thread at most. *)
LEMMA PendingChange ==
  ASSUME NEW t \in Thread, IsFiniteSet(Pending),
         \A u \in Thread : u # t => call'[u] = call[u]
  PROVE  /\ IsFiniteSet(Pending') /\ Cardinality(Pending) \in Nat
         /\ InFlight(t)' <=> InFlight(t) => Cardinality(Pending') = Cardinality(Pending)
         /\ InFlight(t)' /\ ~InFlight(t) => Cardinality(Pending') = Cardinality(Pending) + 1
         /\ ~InFlight(t)' /\ InFlight(t) => Cardinality(Pending') = Cardinality(Pending) - 1
<1>1. \A u \in Thread : u # t => (InFlight(u)' <=> InFlight(u))
  BY DEF InFlight, Working
<1>2. Cardinality(Pending) \in Nat
  BY FS_CardinalityType
<1>3. CASE InFlight(t)' <=> InFlight(t)
  <2>1. Pending' = Pending
    BY <1>1, <1>3 DEF Pending
  <2> QED
    BY <1>2, <1>3, <2>1
<1>4. CASE InFlight(t)' /\ ~InFlight(t)
  <2>1. Pending' = Pending \cup {t} /\ t \notin Pending
    BY <1>1, <1>4 DEF Pending
  <2>2. IsFiniteSet(Pending \cup {t}) /\ Cardinality(Pending \cup {t}) = Cardinality(Pending) + 1
    BY <2>1, FS_AddElement
  <2> QED
    BY <1>2, <1>4, <2>1, <2>2
<1>5. CASE ~InFlight(t)' /\ InFlight(t)
  <2>1. Pending' = Pending \ {t} /\ t \in Pending
    BY <1>1, <1>5 DEF Pending
  <2>2. IsFiniteSet(Pending \ {t}) /\ Cardinality(Pending \ {t}) = Cardinality(Pending) - 1
    BY <2>1, FS_RemoveElement
  <2> QED
    BY <1>2, <1>5, <2>1, <2>2
<1> QED
  BY <1>3, <1>4, <1>5

(* What a step adds to the casts, to their outcomes and to those pending. *)
Adds(casts, outcomes, pending) ==
  /\ count'["verified"] = count["verified"] + casts
  /\ Outcomes' = Outcomes + outcomes
  /\ IsFiniteSet(Pending) =>
       /\ IsFiniteSet(Pending') /\ Cardinality(Pending) \in Nat
       /\ Cardinality(Pending') = Cardinality(Pending) + pending

LEMMA AddsByThread ==
  ASSUME NEW t \in Thread, NEW casts, NEW outcomes,
         count'["verified"] = count["verified"] + casts, Outcomes' = Outcomes + outcomes,
         \A u \in Thread : u # t => call'[u] = call[u]
  PROVE  /\ InFlight(t)' <=> InFlight(t) => Adds(casts, outcomes, 0)
         /\ InFlight(t)' /\ ~InFlight(t) => Adds(casts, outcomes, 1)
         /\ ~InFlight(t)' /\ InFlight(t) => Adds(casts, outcomes, -1)
<1> SUFFICES ASSUME IsFiniteSet(Pending) => Cardinality(Pending) \in Nat
             PROVE  /\ InFlight(t)' <=> InFlight(t) => Adds(casts, outcomes, 0)
                    /\ InFlight(t)' /\ ~InFlight(t) => Adds(casts, outcomes, 1)
                    /\ ~InFlight(t)' /\ InFlight(t) => Adds(casts, outcomes, -1)
  BY FS_CardinalityType
<1> QED
  BY PendingChange DEF Adds

(* Every step of a cast adds as much to one side as to the other, but for a *)
(* hit whose verdict is BADCAST when it is read again.                      *)
LEMMA StepAdds ==
  ASSUME Typed, [Next]_vars
  PROVE  \/ \E casts \in {0, 1}, outcomes \in {0, 1} : Adds(casts, outcomes, casts - outcomes)
         \/ /\ \E casts \in {0, 1} : Adds(casts, 0, casts - 1)
            /\ \E t \in Thread : At(t, "count_hit") /\ cache[Slot(t)].result = "BADCAST"
<1> DEFINE Even == \E casts \in {0, 1}, outcomes \in {0, 1} : Adds(casts, outcomes, casts - outcomes)
           Short == \E casts \in {0, 1} : Adds(casts, 0, casts - 1)
<1>0. /\ count["verified"] \in Nat /\ Outcomes \in Nat
      /\ UNCHANGED count => /\ count'["verified"] = count["verified"] + 0
                            /\ Outcomes' = Outcomes + 0
  BY DEF Typed, TypeOK, Outcomes, Verdict
<1>1. /\ Adds(0, 0, 0) \/ Adds(1, 1, 0) \/ Adds(1, 0, 1) \/ Adds(0, 1, -1) => Even
      /\ Adds(1, 0, 0) \/ Adds(0, 0, -1) => Short
  OBVIOUS
<1> HIDE DEF Even, Short
<1>2. ASSUME NEW t \in Thread, UNCHANGED count, InFlight(t)' <=> InFlight(t),
             \A u \in Thread : u # t => call'[u] = call[u]
      PROVE  Even
  BY <1>0, <1>1, <1>2, AddsByThread
<1>3. ASSUME NEW t \in Thread, Unchecked(t) PROVE Even
  <2>1. ~InFlight(t) /\ ~InFlight(t)' /\ \A u \in Thread : u # t => call'[u] = call[u]
    BY <1>3, UncheckedEffect DEF InFlight, Working, At
  <2>2. CASE UNCHANGED count
    BY <1>2, <2>1, <2>2
  <2>3. CASE \E v \in Verdict : Tally({"verified", v})
    <3>1. PICK v \in Verdict : Tally({"verified", v})
      BY <2>3
    <3>2. {"verified", v} \cap Verdict = {v}
      BY DEF Verdict
    <3>3. count'["verified"] = count["verified"] + 1 /\ Outcomes' = Outcomes + 1
      BY <3>1, <3>2, TallyAdds
    <3> QED
      BY <1>1, <2>1, <3>3, AddsByThread
  <2> QED
    BY <1>3, <2>2, <2>3 DEF Unchecked, CastUnknown, CastBelow, CastBeyond, Verdict
<1>4. ASSUME NEW t \in Thread, NEW a \in Addr, NEW d \in Addr, NEW to \in Type,
             CastKnown(t, a, d, to) \/ CastInline(t, d, to)
      PROVE  Even
  <2>1. /\ ~InFlight(t) /\ (InFlight(t)' <=> CastKnown(t, a, d, to))
        /\ \A u \in Thread : u # t => call'[u] = call[u]
    BY <1>4, CheckedEffect DEF InFlight, Working, At
  <2>2. CASE CastKnown(t, a, d, to)
    <3>1. Tally({"verified"}) /\ {"verified"} \cap Verdict = {}
      BY <2>2 DEF CastKnown, Verdict
    <3>2. count'["verified"] = count["verified"] + 1 /\ Outcomes' = Outcomes + 0
      BY <1>0, <3>1, TallyAdds
    <3> QED
      BY <1>1, <2>1, <2>2, <3>2, AddsByThread
  <2>3. CASE ~CastKnown(t, a, d, to)
    <3>1. UNCHANGED count
      BY <1>4, <2>3 DEF CastInline
    <3> QED
      BY <1>2, <2>1, <2>3, <3>1
  <2> QED
    BY <2>2, <2>3
<1>5. ASSUME NEW t \in Thread,
             ProbeSrc(t) \/ ProbeDst(t) \/ Decide(t) \/ StoreSrc(t) \/ StoreDst(t) \/ Return(t)
      PROVE  Even
  <2>1. UNCHANGED count
    BY <1>5 DEF ProbeSrc, ProbeDst, Decide, StoreSrc, StoreDst, Return
  <2>2. CASE Return(t)
    BY <1>2, <2>1, <2>2, ReturnEffect DEF Idle, InFlight, Working, Return, At
  <2>3. CASE Decide(t)
    <3>1. Working(t)
      BY <2>3 DEF Decide, At, Working
    <3> QED
      BY <1>2, <2>1, <2>3, <3>1, DecideFrames DEF InFlight, Working
  <2>4. CASE ProbeSrc(t) \/ ProbeDst(t) \/ StoreSrc(t) \/ StoreDst(t)
    <3>1. Working(t)
      BY <2>4 DEF ProbeSrc, ProbeDst, StoreSrc, StoreDst, At, Working
    <3>2. PICK step \in {"probe_dst", "hit", "decide", "store_dst", "store_result"} : Goto(t, step)
      BY <2>4 DEF ProbeSrc, ProbeDst, StoreSrc, StoreDst
    <3> QED
      BY <1>2, <2>1, <3>1, <3>2, GotoFrames DEF InFlight, Working
  <2> QED
    BY <1>5, <2>2, <2>3, <2>4
<1>6. ASSUME NEW t \in Thread, NEW v \in Verdict, Tally(Outcome(t, v)), Working(t),
             call'[t].pc = "return", \A u \in Thread : u # t => call'[u] = call[u]
      PROVE  Even
  <2>1. Outcome(t, v) \cap Verdict = {v} /\ ("verified" \in Outcome(t, v) <=> call[t].fast)
    BY DEF Outcome, Verified, Verdict
  <2>2. /\ Outcomes' = Outcomes + 1
        /\ count'["verified"] = count["verified"] + IF call[t].fast THEN 1 ELSE 0
    BY <1>6, <2>1, TallyAdds
  <2>3. ~InFlight(t)' /\ (InFlight(t) <=> ~call[t].fast)
    BY <1>6 DEF InFlight, Working
  <2>4. CASE call[t].fast
    BY <1>1, <1>6, <2>2, <2>3, <2>4, AddsByThread
  <2>5. CASE ~call[t].fast
    BY <1>1, <1>6, <2>2, <2>3, <2>5, AddsByThread
  <2> QED
    BY <2>4, <2>5
<1>7. ASSUME NEW t \in Thread, Working(t)
      PROVE  Slot(t) \in LowBits \X LowBits /\ cache[Slot(t)].result \in Verdict
               /\ call[t].verdict \in Verdict
  <2>1. Slot(t) \in LowBits \X LowBits
    BY <1>7, StoreEffect
  <2> QED
    BY <2>1 DEF Typed, TypeOK, Frame
<1>8. ASSUME NEW t \in Thread, Hit(t) PROVE Even
  <2>1. Working(t)
    BY <1>8 DEF Hit, At, Working
  <2>2. CASE call'[t].pc = "return" /\ Tally(Outcome(t, cache[Slot(t)].result))
    BY <1>6, <1>7, <1>8, <2>1, <2>2, HitEffect
  <2>3. CASE call'[t].pc = "count_hit" /\ ~call[t].fast /\ ~call'[t].fast /\ UNCHANGED count
    <3>1. InFlight(t) /\ InFlight(t)'
      BY <2>1, <2>3 DEF InFlight, Working
    <3> QED
      BY <1>2, <1>8, <2>3, <3>1, HitEffect
  <2> QED
    BY <1>8, <2>2, <2>3, HitEffect
<1>9. ASSUME NEW t \in Thread, StoreResult(t) PROVE Even
  <2>1. Working(t) /\ Tally(Outcome(t, call[t].verdict))
    BY <1>9 DEF StoreResult, At, Working
  <2> QED
    BY <1>6, <1>7, <1>9, <2>1, StoreResultEffect
<1>10. ASSUME NEW t \in Thread, CountHit(t)
       PROVE  Even \/ (Short /\ At(t, "count_hit") /\ cache[Slot(t)].result = "BADCAST")
  <2>1. Working(t) /\ At(t, "count_hit") /\ Tally(Outcome(t, cache[Slot(t)].result) \ {"BADCAST"})
    BY <1>10 DEF CountHit, At, Working
  <2>2. CASE cache[Slot(t)].result # "BADCAST"
    <3>1. Outcome(t, cache[Slot(t)].result) \ {"BADCAST"} = Outcome(t, cache[Slot(t)].result)
      BY <2>2 DEF Outcome, Verified
    <3> QED
      BY <1>6, <1>7, <1>10, <2>1, <3>1, CountHitEffect
  <2>3. CASE cache[Slot(t)].result = "BADCAST" /\ call[t].fast
    <3>1. Outcome(t, cache[Slot(t)].result) \ {"BADCAST"} = {"verified"}
      BY <2>3 DEF Outcome, Verified
    <3>2. Tally({"verified"}) /\ {"verified"} \cap Verdict = {}
      BY <2>1, <3>1 DEF Verdict
    <3>3. count'["verified"] = count["verified"] + 1 /\ Outcomes' = Outcomes + 0
      BY <1>0, <3>2, TallyAdds
    <3>4. ~InFlight(t) /\ ~InFlight(t)'
      BY <1>10, <2>3, CountHitEffect DEF InFlight, Working
    <3> QED
      BY <1>1, <1>10, <2>1, <2>3, <3>3, <3>4, AddsByThread, CountHitEffect
  <2>4. CASE cache[Slot(t)].result = "BADCAST" /\ ~call[t].fast
    <3>1. Outcome(t, cache[Slot(t)].result) \ {"BADCAST"} = {}
      BY <2>4 DEF Outcome, Verified
    <3>2. Tally({})
      BY <2>1, <3>1
    <3>3. count'["verified"] = count["verified"] + 0 /\ Outcomes' = Outcomes + 0
      BY <1>0, <3>2, TallyAdds
    <3>4. InFlight(t) /\ ~InFlight(t)'
      BY <1>10, <2>1, <2>4, CountHitEffect DEF InFlight, Working
    <3> QED
      BY <1>1, <1>10, <2>1, <2>4, <3>3, <3>4, AddsByThread, CountHitEffect
  <2> QED
    BY <2>2, <2>3, <2>4
<1>11. CASE UNCHANGED count /\ \A u \in Thread : SameCast(u)
  <2>1. Pending' = Pending
    BY <1>11 DEF Pending, InFlight, Working, SameCast
  <2>2. Adds(0, 0, 0)
    BY <1>0, <1>11, <2>1, FS_CardinalityType DEF Adds
  <2> QED
    BY <1>1, <2>2
<1>12. CASE Reuse
  BY <1>11, <1>12, ReuseEffect
<1>13. CASE \E x, y \in Type : LoadPhantom(x, y)
  <2>1. UNCHANGED count /\ \A u \in Thread : SameCast(u)
    BY <1>13 DEF LoadPhantom, SameCast
  <2> QED
    BY <1>11, <2>1
<1>14. CASE UNCHANGED vars
  <2>1. UNCHANGED count /\ \A u \in Thread : SameCast(u)
    BY <1>14 DEF vars, SameCast
  <2> QED
    BY <1>11, <2>1
<1> QED
  BY <1>3, <1>4, <1>5, <1>8, <1>9, <1>10, <1>12, <1>13, <1>14, CastCases
     DEF Next, Step, Reuse, Even, Short

LEMMA CountsAreNumbers == Typed => count["verified"] \in Nat /\ Outcomes \in Nat
BY DEF Typed, TypeOK, Outcomes, Verdict

LEMMA CoveredStep == ASSUME Typed, Covered, [Next]_vars PROVE Covered'
<1>1. CASE \E casts \in {0, 1}, outcomes \in {0, 1} : Adds(casts, outcomes, casts - outcomes)
  BY <1>1, CountsAreNumbers DEF Adds, Covered
<1>2. CASE \E casts \in {0, 1} : Adds(casts, 0, casts - 1)
  BY <1>2, CountsAreNumbers DEF Adds, Covered
<1> QED
  BY <1>1, <1>2, StepAdds

LEMMA BalancedStep ==
  ASSUME Typed, Coherent, Balanced, [Next]_vars
  PROVE  Balanced'
<1>1. \E casts \in {0, 1}, outcomes \in {0, 1} : Adds(casts, outcomes, casts - outcomes)
  BY StepAdds DEF Coherent, FrameRight
<1> QED
  BY <1>1, CountsAreNumbers DEF Adds, Balanced

(* With one thread, and all rules and phantom types known from the start,   *)
(* every cast that is counted gets one outcome, on every path               *)
(* (hextype.cc:48, 68-218, 226-318; hextype_report.cc:134).                 *)
THEOREM CastsAccounted ==
  RulesKnown /\ OneThread /\ NothingLate => (Spec => []Accounted)
<1> SUFFICES ASSUME RulesKnown, OneThread, NothingLate PROVE Spec => []Accounted
  OBVIOUS
<1>1. Typed /\ Balanced => Accounted
  <2> SUFFICES ASSUME Typed, Balanced, \A t \in Thread : At(t, "idle") \/ At(t, "return")
               PROVE  count["verified"] = Outcomes
    BY DEF Accounted, Outcomes
  <2>1. Pending = {}
    BY DEF Pending, InFlight, Working, At
  <2> QED
    BY <2>1, FS_EmptySet, CountsAreNumbers DEF Balanced
<1>2. Init => Balanced
  BY BalancedInit
<1>3. Typed /\ Coherent /\ Balanced /\ [Next]_vars => Balanced'
  BY BalancedStep
<1> QED
  BY <1>1, <1>2, <1>3, CoherentAlways, PTL DEF Spec

(* Never more outcomes than casts. *)
OutcomesCovered == Outcomes <= count["verified"]

(* With any number of threads the two reads of a cached verdict can leave a *)
(* cast without an outcome, but never give it two: the outcomes that are    *)
(* printed are never more than the casts (hextype.cc:111-133; 48, 68-218).  *)
THEOREM OutcomesNeverExceed == Spec => []OutcomesCovered
<1>1. Typed /\ Covered => OutcomesCovered
  <2> SUFFICES ASSUME Typed, Covered PROVE OutcomesCovered
    OBVIOUS
  <2>1. Cardinality(Pending) \in Nat
    BY FS_CardinalityType DEF Covered
  <2> QED
    BY <2>1, CountsAreNumbers DEF Covered, OutcomesCovered
<1>2. Init => Typed /\ Covered
  BY TypedInit, BalancedInit
<1>3. Typed /\ Covered /\ [Next]_vars => (Typed /\ Covered)'
  BY TypedStep, CoveredStep
<1> QED
  BY <1>1, <1>2, <1>3, PTL DEF Spec
-----------------------------------------------------------------------------
(* How a verdict is come to: the binary searches in a rule. *)

(* What the bounds have left behind is too small or too large, and every    *)
(* hash asked about and no longer to do has been ruled out.                 *)
Narrowed ==
  /\ SearchTypeOK
  /\ Ascending(size, rule)
  /\ start <= end + 1
  /\ middle = (start + end) \div 2
  /\ \A i \in 1..size : i < start => rule[i] < target
  /\ \A i \in 1..size : i > end => rule[i] > target
  /\ \A h \in asked : h \in todo \/ h = target \/ ~InRule(h)
  /\ target \in asked /\ todo \subseteq asked
  /\ pc = "hit" => InRule(target)
  /\ pc = "miss" => start > end /\ todo = {}

(* Nothing wraps around: a rule is too short for its indices to. *)
LEMMA SmallWords ==
  ASSUME NEW n \in 0..MaxSize, NEW i \in 0..(2 * n + 1)
  PROVE  i % Word = i
BY SizeAssumption

LEMMA MiddleIsBetween ==
  ASSUME NEW n \in 0..MaxSize, NEW s \in 1..(n + 1), NEW e \in 0..n, s <= e + 1
  PROVE  /\ Middle(s, e) = (s + e) \div 2
         /\ Middle(s, e) \in 0..n
         /\ s <= e => Middle(s, e) \in s..e
<1>1. n \in Nat /\ s \in Nat /\ e \in Nat
  BY SizeAssumption
<1>2. s + e \in 0..(2 * n + 1)
  BY <1>1
<1>3. Middle(s, e) = (s + e) \div 2
  BY <1>2, SmallWords DEF Middle
<1>4. (s + e) \div 2 \in 0..n /\ (s <= e => (s + e) \div 2 \in s..e)
  BY <1>1
<1> QED
  BY <1>3, <1>4

LEMMA FirstBounds ==
  ASSUME NEW n \in Nat
  PROVE  Bounds(n)[1] = 1 /\ Bounds(n)[2] = n
BY DEF Bounds

LEMMA NarrowedInit == SearchInit => Narrowed
<1> SUFFICES ASSUME SearchInit PROVE Narrowed
  OBVIOUS
<1>1. size \in 0..MaxSize /\ size \in Nat /\ start = 1 /\ end = size
  BY FirstBounds, SizeAssumption DEF SearchInit
<1>2. middle = (start + end) \div 2 /\ middle \in 0..size
  BY <1>1, MiddleIsBetween DEF SearchInit
<1>3. SearchTypeOK
  BY <1>1, <1>2 DEF SearchInit, SearchTypeOK
<1> QED
  BY <1>1, <1>2, <1>3 DEF SearchInit, Narrowed

(* A hash between crossed bounds is not in the rule. *)
LEMMA CrossedBounds ==
  ASSUME Narrowed, start > end
  PROVE  ~InRule(target)
<1> SUFFICES ASSUME NEW i \in 1..size, rule[i] = target PROVE FALSE
  BY DEF InRule
<1>1. i < start \/ i > end
  BY DEF Narrowed, SearchTypeOK
<1>2. target \in Nat
  BY HashAssumption DEF Narrowed, SearchTypeOK
<1> QED
  BY <1>1, <1>2 DEF Narrowed

LEMMA NarrowedStep == Narrowed /\ [SearchNext]_searchVars => Narrowed'
<1> SUFFICES ASSUME Narrowed, [SearchNext]_searchVars PROVE Narrowed'
  OBVIOUS
<1>0. /\ size \in Nat /\ start \in Nat /\ end \in Nat /\ start <= end + 1 /\ target \in Nat
      /\ \A i \in 1..size : rule[i] \in Nat
      /\ start <= end => middle \in start..end /\ middle \in 1..size
  <2>1. /\ size \in 0..MaxSize /\ start \in 1..(size + 1) /\ end \in 0..size
        /\ start <= end + 1 /\ middle = (start + end) \div 2
    BY DEF Narrowed, SearchTypeOK
  <2>2. start <= end => middle \in start..end
    BY <2>1, MiddleIsBetween
  <2>3. target \in Nat /\ \A i \in 1..size : rule[i] \in Nat
    BY HashAssumption DEF Narrowed, SearchTypeOK
  <2> QED
    BY <2>1, <2>2, <2>3, SizeAssumption
<1>1. CASE TooSmall
  <2>1. start <= end /\ pc = "search" /\ rule[middle] < target
    BY <1>1 DEF TooSmall, Searching
  <2>2. (middle + 1) % Word = middle + 1
    BY <1>0, <2>1, SmallWords DEF Narrowed, SearchTypeOK
  <2>3. /\ start' = middle + 1 /\ end' = end /\ middle' = Middle(start', end')
        /\ UNCHANGED <<size, rule, asked, todo, target, pc>>
    BY <1>1, <2>2 DEF TooSmall, Bisect, given
  <2>4. start' \in 1..(size + 1) /\ end' \in 0..size /\ start' <= end' + 1
    BY <1>0, <2>1, <2>3 DEF Narrowed, SearchTypeOK
  <2>5. middle' = (start' + end') \div 2 /\ middle' \in 0..size
    BY <2>3, <2>4, MiddleIsBetween DEF Narrowed, SearchTypeOK
  <2>6. \A i \in 1..size : i < start' => rule[i] < target
    BY <1>0, <2>1, <2>3 DEF Narrowed, Ascending
  <2>7. SearchTypeOK'
    BY <2>3, <2>4, <2>5 DEF Narrowed, SearchTypeOK
  <2> QED
    BY <2>1, <2>3, <2>4, <2>5, <2>6, <2>7 DEF Narrowed, Ascending, InRule
<1>2. CASE TooLarge
  <2>1. start <= end /\ pc = "search" /\ rule[middle] > target
    BY <1>2 DEF TooLarge, Searching
  <2>2. (middle - 1) % Word = middle - 1
    BY <1>0, <2>1, SmallWords DEF Narrowed, SearchTypeOK
  <2>3. /\ start' = start /\ end' = middle - 1 /\ middle' = Middle(start', end')
        /\ UNCHANGED <<size, rule, asked, todo, target, pc>>
    BY <1>2, <2>2 DEF TooLarge, Bisect, given
  <2>4. start' \in 1..(size + 1) /\ end' \in 0..size /\ start' <= end' + 1
    BY <1>0, <2>1, <2>3 DEF Narrowed, SearchTypeOK
  <2>5. middle' = (start' + end') \div 2 /\ middle' \in 0..size
    BY <2>3, <2>4, MiddleIsBetween DEF Narrowed, SearchTypeOK
  <2>6. \A i \in 1..size : i > end' => rule[i] > target
    BY <1>0, <2>1, <2>3 DEF Narrowed, Ascending
  <2>7. SearchTypeOK'
    BY <2>3, <2>4, <2>5 DEF Narrowed, SearchTypeOK
  <2> QED
    BY <2>1, <2>3, <2>4, <2>5, <2>6, <2>7 DEF Narrowed, Ascending, InRule
<1>3. CASE Match
  <2>1. InRule(target) /\ pc' = "hit"
    BY <1>0, <1>3 DEF Match, Searching, InRule
  <2> QED
    BY <1>3, <2>1 DEF Match, given, Narrowed, SearchTypeOK, Ascending, InRule
<1>4. CASE Miss
  BY <1>4 DEF Miss, Exhausted, given, Narrowed, SearchTypeOK, Ascending, InRule
<1>5. ASSUME NEW h \in Hash, NextPhantom(h)
      PROVE  Narrowed'
  <2>1. h \in todo /\ pc = "search" /\ ~InRule(target)
    BY <1>5, CrossedBounds DEF NextPhantom, Exhausted
  <2>2. /\ todo' = todo \ {h} /\ target' = h /\ start' = 1 /\ end' = size
        /\ middle' = Middle(start', end') /\ UNCHANGED <<size, rule, asked, pc>>
    BY <1>0, <1>5, FirstBounds DEF NextPhantom, given
  <2>3. middle' = (start' + end') \div 2 /\ middle' \in 0..size
    BY <1>0, <2>2, MiddleIsBetween DEF Narrowed, SearchTypeOK
  <2>4. SearchTypeOK'
    BY <1>0, <2>1, <2>2, <2>3 DEF Narrowed, SearchTypeOK
  <2>5. \A g \in asked : g \in todo' \/ g = h \/ ~InRule(g)
    BY <2>1, <2>2 DEF Narrowed
  <2>6. h \in asked
    BY <2>1 DEF Narrowed
  <2> QED
    BY <1>0, <2>1, <2>2, <2>3, <2>4, <2>5, <2>6 DEF Narrowed, Ascending, InRule
<1>6. CASE UNCHANGED searchVars
  BY <1>6 DEF searchVars, given, Narrowed, SearchTypeOK, Ascending, InRule
<1> QED
  BY <1>1, <1>2, <1>3, <1>4, <1>5, <1>6 DEF SearchNext

LEMMA NarrowedAlways == SearchSpec => []Narrowed
BY NarrowedInit, NarrowedStep, PTL DEF SearchSpec

(* The bounds and the index stay within the rule's size: neither middle - 1 *)
(* nor start + end wraps around (hextype.cc:139-163, 184-202).              *)
THEOREM SearchTypeCorrect == SearchSpec => []SearchTypeOK
<1>1. Narrowed => SearchTypeOK
  BY DEF Narrowed
<1> QED
  BY <1>1, NarrowedAlways, PTL

(* Every word the searches compare with a hash is a hash of the rule        *)
(* (hextype.cc:145, 187, 254, 292).                                         *)
THEOREM ComparesRuleOnly == SearchSpec => []IndexInRule
<1>1. Narrowed => IndexInRule
  <2> SUFFICES ASSUME Narrowed, Searching PROVE middle \in 1..size
    BY DEF IndexInRule
  <2>1. /\ size \in 0..MaxSize /\ start \in 1..(size + 1) /\ end \in 0..size
        /\ start <= end /\ start <= end + 1 /\ middle = (start + end) \div 2
    BY DEF Narrowed, SearchTypeOK, Searching
  <2>2. middle \in start..end
    BY <2>1, MiddleIsBetween
  <2> QED
    BY <2>1, <2>2
<1> QED
  BY <1>1, NarrowedAlways, PTL

(* A cast that misses the cache is let through as an up-cast if and only if *)
(* the rule holds its destination or one of the destination's phantom types *)
(* (hextype.cc:136-208, 244-313).                                           *)
THEOREM SearchIsRight == SearchSpec => []SearchDecides
<1>1. Narrowed => SearchDecides
  <2> SUFFICES ASSUME Narrowed PROVE SearchDecides
    OBVIOUS
  <2>1. pc = "hit" => \E h \in asked : InRule(h)
    BY DEF Narrowed
  <2>2. ASSUME pc = "miss", NEW h \in asked PROVE ~InRule(h)
    <3>1. start > end /\ (h = target \/ ~InRule(h))
      BY <2>2 DEF Narrowed
    <3> QED
      BY <3>1, CrossedBounds
  <2> QED
    BY <2>1, <2>2 DEF SearchDecides
<1> QED
  BY <1>1, NarrowedAlways, PTL
===============================================================================
