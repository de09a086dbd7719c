------------------------------ MODULE RuleSearch ------------------------------
(***************************************************************************)
(* How a cast that misses the cache is decided: verifyTypeCasting and      *)
(* __type_casting_verification_inline search the rule of the object's type *)
(* (a size, then the hashes of its parents in ascending order) for the     *)
(* destination type, then for each of its phantom types.                   *)
(***************************************************************************)
EXTENDS Integers

CONSTANTS
  Hash,     \* the type hashes
  MaxSize,  \* bound on the size of a rule
  Word      \* a uint64_t counts modulo Word

ASSUME HashAssumption == Hash \subseteq Nat
(* A rule is an array of 8-byte words in an address space of Word bytes. *)
ASSUME SizeAssumption == MaxSize \in Nat /\ Word \in Nat /\ 8 * (MaxSize + 1) <= Word

VARIABLES
  size, rule,          \* RuleSize, and the words behind it
  asked,               \* the destination and its phantom types
  todo,                \* those the loop over the phantom set has not come to
  target,              \* the hash searched for
  start, end, middle,
  pc                   \* "search", or the outcome: "hit", "miss"

given == <<size, rule, asked>>
searchVars == <<given, todo, target, start, end, middle, pc>>

Ascending(n, r) == \A i, j \in 1..n : i < j => r[i] < r[j]

Middle(s, e) == ((s + e) % Word) \div 2

(* The bounds the loop starts from.  Word 0 is the size, not a hash. *)
FromZero(n) == <<0, n>>  \* mutant
Bounds(n) == <<1, n>>

SearchInit ==
  /\ size \in 0..MaxSize
  /\ rule \in {r \in [1..size -> Hash] : Ascending(size, r)}
  /\ target \in Hash
  /\ todo \in SUBSET Hash
  /\ asked = todo \cup {target}
  /\ start = Bounds(size)[1] /\ end = Bounds(size)[2] /\ middle = Middle(start, end)
  /\ pc = "search"

Bisect(s, e) ==
  /\ start' = s /\ end' = e /\ middle' = Middle(s, e)
  /\ UNCHANGED <<given, todo, target, pc>>

Searching == pc = "search" /\ start <= end

(* Mutant: the hash just compared stays in the upper half. *)
KeepMiddle == Searching /\ rule[middle] < target /\ Bisect(middle, end)

TooSmall == Searching /\ rule[middle] < target /\ Bisect((middle + 1) % Word, end)

TooLarge == Searching /\ rule[middle] > target /\ Bisect(start, (middle - 1) % Word)

Match ==
  /\ Searching /\ rule[middle] = target
  /\ pc' = "hit"
  /\ UNCHANGED <<given, todo, target, start, end, middle>>

Exhausted == pc = "search" /\ start > end

(* Mutant: the bounds of the last search are kept for the next. *)
SameBounds(h) ==
  /\ Exhausted /\ h \in todo
  /\ todo' = todo \ {h} /\ target' = h
  /\ UNCHANGED <<given, start, end, middle, pc>>

(* The next phantom type; a std::set is traversed in ascending order. *)
NextPhantom(h) ==
  /\ Exhausted /\ h \in todo /\ \A g \in todo : h <= g
  /\ todo' = todo \ {h} /\ target' = h
  /\ start' = Bounds(size)[1] /\ end' = Bounds(size)[2] /\ middle' = Middle(start', end')
  /\ UNCHANGED <<given, pc>>

Miss ==
  /\ Exhausted /\ todo = {}
  /\ pc' = "miss"
  /\ UNCHANGED <<given, todo, target, start, end, middle>>

SearchNext == TooSmall \/ TooLarge \/ Match \/ Miss \/ \E h \in Hash : NextPhantom(h)

SearchSpec == SearchInit /\ [][SearchNext]_searchVars

(* The loops are straight-line code of one thread, which keeps running. *)
FairSearch == SearchSpec /\ WF_searchVars(SearchNext)
-----------------------------------------------------------------------------
SearchTypeOK ==
  /\ size \in 0..MaxSize
  /\ rule \in [1..size -> Hash]
  /\ target \in Hash /\ todo \subseteq Hash /\ asked \subseteq Hash
  /\ start \in 1..(size + 1) /\ end \in 0..size /\ middle \in 0..size
  /\ pc \in {"search", "hit", "miss"}

InRule(h) == \E i \in 1..size : rule[i] = h

(* The word compared is a hash of the rule, never its size or what lies     *)
(* behind it, where the rule of the next type begins.                       *)
IndexInRule == Searching => middle \in 1..size

(* The search answers the question asked: the destination or one of its     *)
(* phantom types is in the rule, or none is.                                *)
SearchDecides ==
  /\ pc = "hit" => \E h \in asked : InRule(h)
  /\ pc = "miss" => \A h \in asked : ~InRule(h)

(* The unsigned bounds cross rather than wrap around, so the loops end. *)
SearchEnds == <>(pc \in {"hit", "miss"})
===============================================================================
