------------------------------ MODULE CastVerifier ------------------------------
(***************************************************************************)
(* How a cast is verified: verifyTypeCasting, the code that inline-opt     *)
(* emits for a cast in its place, and __type_casting_verification_inline.  *)
(* Verdicts are cached per pair of source and destination type in a table  *)
(* that all threads share without a lock, field by field.  The type of the *)
(* object and the rule it is judged by are read from its entry at different *)
(* times; meanwhile other threads register and remove objects and load     *)
(* modules.  A registration is one step here (ObjTypeMap models it), and so *)
(* is the search of a rule (RuleSearch) and the arrival of a phantom type  *)
(* (PhantomInfo).  Two history variables record what may mislead a cast.   *)
(***************************************************************************)
EXTENDS Integers, FiniteSets

CONSTANTS
  Thread,
  Addr,         \* addresses of objects, integers
  SlotOf,       \* the slot of the object type map that getHash gives an address
  Offset,       \* offsets an entry may carry; -1 counts as 0
  Type,         \* type hashes
  Rule,         \* the rule behind the RuleAddr of a type, or NoRule for a null one
  Phantoms,     \* the phantom types of each type when the program starts,
  LatePhantoms, \* and those a module adds that is loaded later
  Low,          \* the low 12 bits of a type hash
  Inline,       \* inline-opt
  MaxCasts,     \* bound on the number of casts that are verified
  NoEntry, NoType, NoRule

ASSUME AddrAssumption == Addr \subseteq Int \ {0}
ASSUME SlotAssumption == DOMAIN SlotOf = Addr
ASSUME TypeAssumption == NoType \notin Type
ASSUME RuleAssumption == Rule \in [Type -> (SUBSET Type) \cup {NoRule}]
ASSUME PhantomsAssumption ==
  Phantoms \in [Type -> SUBSET Type] /\ LatePhantoms \in [Type -> SUBSET Type]

VARIABLES
  objs,     \* the object type map: an entry for each registered address
  slots,    \* whose entry is in each slot; the others are in the trees
  phantom,  \* ObjPhantomInfo
  cache,    \* VerifyResultCache
  call,     \* the cast each thread is verifying
  count,    \* the HEX_LOG counters: casts verified, and their outcomes
  contested, \* history: cache indexes at which two casts were in progress at once
  misjudged  \* history: pairs of types decided by the rule of another object

history == <<contested, misjudged>>
vars == <<objs, slots, phantom, cache, call, count, history>>

Null == 0
Entry == [type : Type, offset : Offset]
Verdict == {"BADCAST", "FAILINFO", "SAFECASTSAME", "SAFECASTUPCAST"}
Safe == {"SAFECASTSAME", "SAFECASTUPCAST"}

Slots == {SlotOf[a] : a \in Addr}

LowBits == {Low[x] : x \in Type}
CacheIndex(s, d) == <<Low[s], Low[d]>>

(* at: the object whose entry the cast reads from, in its slot or in a tree; *)
(* rules: the types whose rule it may find there by now.                    *)
Idle == [pc |-> "idle", at |-> Null, inSlot |-> FALSE, rules |-> {},
         from |-> NoType, to |-> NoType, fast |-> FALSE,
         verdict |-> "BADCAST", answer |-> "none", report |-> "none"]

Init ==
  /\ objs = [a \in Addr |-> NoEntry]
  /\ slots = [i \in Slots |-> Null]
  /\ phantom = Phantoms
  /\ cache = [i \in LowBits \X LowBits |-> [src |-> NoType, dst |-> NoType, result |-> "BADCAST"]]
  /\ call = [t \in Thread |-> Idle]
  /\ count = [c \in Verdict \cup {"verified"} |-> 0]
  /\ contested = {} /\ misjudged = {}
-----------------------------------------------------------------------------
InSlot(a) == slots[SlotOf[a]] = a
Known(a) == a \in Addr /\ objs[a] # NoEntry
BaseOf(a) == a - (IF objs[a].offset = -1 THEN 0 ELSE objs[a].offset)

At(t, step) == call[t].pc = step
Goto(t, step) == call' = [call EXCEPT ![t].pc = step]
Tally(outcomes) == count' = [c \in DOMAIN count |-> count[c] + IF c \in outcomes THEN 1 ELSE 0]

Settle(t, answer, report) ==
  call' = [call EXCEPT ![t] =
    [Idle EXCEPT !.pc = "return", !.from = call[t].from, !.to = call[t].to,
                 !.answer = answer, !.report = report]]

(* The emitted code counts its casts when it knows how they went. *)
Verified(t) == IF call[t].fast THEN {"verified"} ELSE {}

Slot(t) == CacheIndex(call[t].from, call[t].to)

(* Between the look-up of the type and the answer. *)
Working(t) == call[t].pc \notin {"idle", "return"}

(* A cast comes to a cache entry. *)
Arrive(t, s, d) ==
  contested' = contested \cup
    {i \in {CacheIndex(s, d)} : \E u \in Thread \ {t} : Working(u) /\ Slot(u) = i}

(* A null pointer, or an address no object is known at. *)
CastUnknown(t, a, to) ==
  /\ At(t, "idle") /\ ~Known(a)
  /\ Settle(t, IF a = Null THEN "null" ELSE "dst", "none")
  /\ UNCHANGED <<objs, slots, phantom, cache, count, history>>

(* The cast from a to d leaves the object that a is known to belong to. *)
CastBelow(t, a, d, to) ==
  /\ At(t, "idle") /\ Known(a) /\ d # a /\ d < BaseOf(a)
  /\ IF Known(d) /\ objs[d].type = to
     THEN Settle(t, "dst", "none") /\ Tally({"verified", "SAFECASTSAME"})
     ELSE Settle(t, "null", "full") /\ Tally({"verified", "BADCAST"})
  /\ UNCHANGED <<objs, slots, phantom, cache, history>>

CastBeyond(t, a, d) ==
  /\ At(t, "idle") /\ Known(a) /\ d # a /\ d >= BaseOf(a) /\ ~Known(d)
  /\ Settle(t, "null", "full") /\ Tally({"verified", "BADCAST"})
  /\ UNCHANGED <<objs, slots, phantom, cache, history>>

(* The type known at d decides; equal types need no cached verdict. *)
CastKnown(t, a, d, to) ==
  /\ At(t, "idle") /\ Known(a) /\ Known(d) /\ (d # a => d >= BaseOf(a))
  /\ LET same == objs[d].type = to
     IN  call' = [call EXCEPT ![t] =
           [Idle EXCEPT !.pc = IF same THEN "store_src" ELSE "probe_src",
                        !.at = IF same THEN Null ELSE d, !.inSlot = InSlot(d) /\ ~same,
                        !.rules = IF same THEN {} ELSE {objs[d].type},
                        !.from = objs[d].type, !.to = to,
                        !.verdict = IF same THEN "SAFECASTSAME" ELSE "BADCAST"]]
  /\ Tally({"verified"}) /\ Arrive(t, objs[d].type, to)
  /\ UNCHANGED <<objs, slots, phantom, cache, misjudged>>

(* Emitted code, for an object whose entry is in its slot. *)
CastInline(t, a, to) ==
  /\ Inline
  /\ At(t, "idle") /\ Known(a) /\ InSlot(a)
  /\ call' = [call EXCEPT ![t] =
       [Idle EXCEPT !.pc = "probe_src", !.at = a, !.inSlot = TRUE, !.rules = {objs[a].type},
                    !.from = objs[a].type, !.to = to, !.fast = TRUE]]
  /\ Arrive(t, objs[a].type, to)
  /\ UNCHANGED <<objs, slots, phantom, cache, count, misjudged>>
-----------------------------------------------------------------------------
ProbeSrc(t) ==
  /\ At(t, "probe_src")
  /\ Goto(t, IF cache[Slot(t)].src = call[t].from THEN "probe_dst" ELSE "decide")
  /\ UNCHANGED <<objs, slots, phantom, cache, count, history>>

(* Mutant: only the source type of the cached verdict is compared. *)
ProbeNoDst(t) ==
  /\ At(t, "probe_dst") /\ Goto(t, "hit")
  /\ UNCHANGED <<objs, slots, phantom, cache, count, history>>

ProbeDst(t) ==
  /\ At(t, "probe_dst")
  /\ Goto(t, IF cache[Slot(t)].dst = call[t].to THEN "hit" ELSE "decide")
  /\ UNCHANGED <<objs, slots, phantom, cache, count, history>>

(* Mutant: only safe verdicts are counted. *)
SafeVerified(t, v) == IF v \in Safe THEN {v} \cup Verified(t) ELSE Verified(t)

Outcome(t, v) == {v} \cup Verified(t)

(* A cached verdict.  A failed look-up of the rule is reported as safe the   *)
(* second time; a cached BADCAST is reported in full only by the call.  The *)
(* call reads the verdict again to count it, the emitted code does not.     *)
Hit(t) ==
  /\ At(t, "hit")
  /\ LET v == cache[Slot(t)].result
     IN  \/ /\ v = "BADCAST" \/ call[t].fast
            /\ Settle(t, IF v = "BADCAST" THEN "null" ELSE "dst",
                         IF v # "BADCAST" THEN "none" ELSE IF call[t].fast THEN "console" ELSE "full")
            /\ Tally(Outcome(t, v))
         \/ /\ v # "BADCAST" /\ ~call[t].fast
            /\ Goto(t, "count_hit") /\ UNCHANGED count
  /\ UNCHANGED <<objs, slots, phantom, cache, history>>

(* The switch over the verdict has no case for a BADCAST. *)
CountHit(t) ==
  /\ At(t, "count_hit")
  /\ Settle(t, "dst", "none")
  /\ Tally(Outcome(t, cache[Slot(t)].result) \ {"BADCAST"})
  /\ UNCHANGED <<objs, slots, phantom, cache, history>>

Judge(s, d) ==
  IF Rule[s] = NoRule THEN "FAILINFO"
  ELSE IF ({d} \cup phantom[d]) \cap Rule[s] # {} THEN "SAFECASTUPCAST"
  ELSE "BADCAST"

(* Mutant: the type of the source is read again before the verdict is stored. *)
TypeReadAgain(t) ==
  /\ At(t, "decide")
  /\ \E r \in call[t].rules :
       call' = [call EXCEPT ![t].pc = "store_src", ![t].at = Null, ![t].rules = {},
         ![t].from = r, ![t].verdict = Judge(call[t].from, call[t].to)]
  /\ UNCHANGED <<objs, slots, phantom, cache, count, history>>

(* The rule is searched that is in the entry by now. *)
Decide(t) ==
  /\ At(t, "decide")
  /\ \E r \in call[t].rules :
       /\ call' = [call EXCEPT ![t].pc = "store_src", ![t].at = Null, ![t].rules = {},
            ![t].verdict = IF call[t].from = call[t].to THEN "SAFECASTSAME"
                           ELSE Judge(r, call[t].to)]
       /\ misjudged' = IF r = call[t].from THEN misjudged
                       ELSE misjudged \cup {<<call[t].from, call[t].to>>}
  /\ UNCHANGED <<objs, slots, phantom, cache, count, contested>>

StoreSrc(t) ==
  /\ At(t, "store_src") /\ Goto(t, "store_dst")
  /\ cache' = [cache EXCEPT ![Slot(t)].src = call[t].from]
  /\ UNCHANGED <<objs, slots, phantom, count, history>>

StoreDst(t) ==
  /\ At(t, "store_dst") /\ Goto(t, "store_result")
  /\ cache' = [cache EXCEPT ![Slot(t)].dst = call[t].to]
  /\ UNCHANGED <<objs, slots, phantom, count, history>>

(* Mutants: a bad verdict is not stored; the unused code SAFECAST is. *)
StoreSafeOnly(old, v) == IF v \in Safe THEN v ELSE old
StoreUnknownCode(old, v) == IF v \in Safe THEN "SAFECAST" ELSE v

ToStore(old, v) == v

StoreResult(t) ==
  /\ At(t, "store_result")
  /\ LET v == call[t].verdict
     IN  /\ cache' = [cache EXCEPT ![Slot(t)].result = ToStore(@, v)]
         /\ Settle(t, IF v \in Safe THEN "dst" ELSE "null", IF v = "BADCAST" THEN "full" ELSE "none")
         /\ Tally(Outcome(t, v))
  /\ UNCHANGED <<objs, slots, phantom, history>>

Return(t) ==
  /\ At(t, "return")
  /\ call' = [call EXCEPT ![t] = Idle]
  /\ UNCHANGED <<objs, slots, phantom, cache, count, history>>
-----------------------------------------------------------------------------
(* What the program does meanwhile, on threads that verify no cast just now: *)
(* memory is reused for an object of another type, and a module is loaded   *)
(* that knows more phantom types.                                           *)
SomeIdle == \E t \in Thread : At(t, "idle")

(* Between reading the type of an entry and its rule. *)
Reading(t) == call[t].pc \in {"probe_src", "probe_dst", "decide"}

(* What the casts that read from these entries find there from now on. *)
NowFind(readers, types) ==
  call' = [u \in Thread |->
             IF Reading(u) /\ u \in readers THEN [call[u] EXCEPT !.rules = types] ELSE call[u]]

(* A new entry takes the slot; the one it displaces is copied to the tree. *)
Register(a, e) ==
  /\ SomeIdle
  /\ objs' = [objs EXCEPT ![a] = e]
  /\ slots' = [slots EXCEPT ![SlotOf[a]] = a]
  /\ NowFind({u \in Thread : call[u].inSlot /\ SlotOf[call[u].at] = SlotOf[a]}, {e.type})
  /\ UNCHANGED <<phantom, cache, count, history>>

(* In a slot only the address is taken out; an entry of the tree is freed,   *)
(* and whatever has come to its memory is taken for a rule.                 *)
Remove(a) ==
  /\ SomeIdle
  /\ objs' = [objs EXCEPT ![a] = NoEntry]
  /\ slots' = [slots EXCEPT ![SlotOf[a]] = IF @ = a THEN Null ELSE @]
  /\ NowFind({u \in Thread : ~call[u].inSlot /\ call[u].at = a /\ ~InSlot(a)}, Type)
  /\ UNCHANGED <<phantom, cache, count, history>>

(* One entry of the table of a module. *)
LoadPhantom(x, y) ==
  /\ SomeIdle
  /\ y \in LatePhantoms[x]
  /\ phantom' = [phantom EXCEPT ![x] = @ \cup {y}]
  /\ UNCHANGED <<objs, slots, cache, call, count, history>>

BeginCast(t) ==
  /\ count["verified"] + Cardinality({u \in Thread : Working(u) /\ call[u].fast}) < MaxCasts
  /\ \E to \in Type :
       \/ \E a \in Addr \cup {Null} : CastUnknown(t, a, to)
       \/ \E a, d \in Addr :
            \/ CastBelow(t, a, d, to)
            \/ CastBeyond(t, a, d)
            \/ CastKnown(t, a, d, to)
       \/ \E a \in Addr : CastInline(t, a, to)

Step(t) ==
  \/ ProbeSrc(t) \/ ProbeDst(t) \/ Hit(t) \/ CountHit(t)
  \/ Decide(t) \/ StoreSrc(t) \/ StoreDst(t) \/ StoreResult(t)
  \/ Return(t)

Next ==
  \/ \E t \in Thread : BeginCast(t) \/ Step(t)
  \/ \E a \in Addr : Remove(a) \/ \E e \in Entry : Register(a, e)
  \/ \E x, y \in Type : LoadPhantom(x, y)

Spec == Init /\ [][Next]_vars
-----------------------------------------------------------------------------
Frame == [pc : {"idle", "probe_src", "probe_dst", "hit", "count_hit", "decide",
                "store_src", "store_dst", "store_result", "return"},
          at : Addr \cup {Null}, inSlot : BOOLEAN, rules : SUBSET Type,
          from : Type \cup {NoType}, to : Type \cup {NoType}, fast : BOOLEAN,
          verdict : Verdict, answer : {"none", "dst", "null"},
          report : {"none", "console", "full"}]

TypeOK ==
  /\ objs \in [Addr -> Entry \cup {NoEntry}]
  /\ slots \in [Slots -> Addr \cup {Null}]
  /\ phantom \in [Type -> SUBSET Type]
  /\ cache \in [LowBits \X LowBits ->
                  [src : Type \cup {NoType}, dst : Type \cup {NoType}, result : Verdict]]
  /\ call \in [Thread -> Frame]
  /\ count \in [Verdict \cup {"verified"} -> Nat]
  /\ contested \subseteq LowBits \X LowBits
  /\ misjudged \subseteq Type \X Type

(* What the relations between types say of a cast. *)
Allowed(s, d) == s = d \/ ({d} \cup phantom[d]) \cap Rule[s] # {}

(* The cast was decided by the type known at its destination. *)
Decided(t) == At(t, "return") /\ call[t].from # NoType

(* Between calls a cached verdict is filed under its own pair of types and   *)
(* is what a search would find, though pairs displace each other and the    *)
(* emitted code and the calls share the table (hextype.cc:95-209, 234-313). *)
CacheRight ==
  (\A t \in Thread : At(t, "idle")) => \A i \in DOMAIN cache :
    LET e == cache[i]
    IN  e.src # NoType => /\ i = CacheIndex(e.src, e.dst)
                          /\ e.result \in Safe <=> Allowed(e.src, e.dst)

(* A cast is answered by the relations between the two types, whichever of  *)
(* the call, the emitted code, the cache or the search answers it.          *)
AnswersRight ==
  \A t \in Thread : Decided(t) =>
    (call[t].answer = "dst" <=> Allowed(call[t].from, call[t].to))

(* Another pair of types has the same cache entry. *)
Sharing(s, d) ==
  \E s2, d2 \in Type : <<s2, d2>> # <<s, d>> /\ CacheIndex(s2, d2) = CacheIndex(s, d)

(* A cast that the relations forbid is let through in two ways only: its    *)
(* pair of types shares a cache entry with another and casts were once in  *)
(* progress there at the same time, or a cast of this pair was once decided *)
(* by the rule of an object that had come to the slot it was reading from.  *)
(* So threads are safe as long as neither happens, whatever they cast, free, *)
(* register and load meanwhile (hextype.cc:95-209, 222-322).                *)
MissesExplained ==
  \A t \in Thread :
    Decided(t) /\ call[t].answer = "dst" /\ ~Allowed(call[t].from, call[t].to) =>
      \/ Slot(t) \in contested /\ Sharing(call[t].from, call[t].to)
      \/ <<call[t].from, call[t].to>> \in misjudged

(* README.MD:38: what is printed is a type confusion. *)
NoFalseReport ==
  \A t \in Thread : Decided(t) /\ call[t].report # "none" => ~Allowed(call[t].from, call[t].to)

(* The two numbers hextype_report.cc:134 prints side by side agree when no  *)
(* cast is in progress: with one thread every verified cast has exactly one *)
(* outcome, on every path through the call and the emitted code.  With more *)
(* the verdict can become BADCAST between the two reads of a hit.           *)
Accounted ==
  (\A t \in Thread : At(t, "idle") \/ At(t, "return")) =>
    count["verified"] = count["BADCAST"] + count["FAILINFO"]
                          + count["SAFECASTSAME"] + count["SAFECASTUPCAST"]
===============================================================================
