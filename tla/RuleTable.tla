------------------------------- MODULE RuleTable -------------------------------
(***************************************************************************)
(* The two arrays of words the compiler emits from the type relations, and *)
(* how they are read again.  typeInfoArray holds the rules; an object is   *)
(* registered with the address of its type's rule in it, which             *)
(* emitInstForObjTrace looks for.  typePhantomInfoArray holds the phantom  *)
(* types; __update_phantom_info reads it from front to back.               *)
(***************************************************************************)
EXTENDS TypeRelation, Sequences, FiniteSets, Functions

CONSTANT HashOf   \* the hash of a type's name

ASSUME HashAssumption ==
  /\ HashOf \in [Types -> Nat]
  /\ \A t, u \in Types : HashOf[t] = HashOf[u] => t = u

Hashes(S) == {HashOf[t] : t \in S}

(* The members of a set of numbers from the smallest to the largest.        *)
Ascending(K) ==
  CHOOSE f \in [1 .. Cardinality(K) -> K] : \A j, k \in DOMAIN f : j < k => f[j] < f[k]

TableOrder(S) ==  \* mutant of Sorted: hashes in the order of AllTypeInfo
  LET ordered == Ascending(S) IN [k \in DOMAIN ordered |-> HashOf[ordered[k]]]

Sorted(S) == Ascending(Hashes(S))

(* A hash, the number of words that follow, and the words.                  *)
Record(t, words) == <<HashOf[t], Len(words)>> \o words

(* The number of records, and a record for every type of the list.          *)
Emitted(list, sets) ==
  LET after[n \in 0 .. Len(list)] ==
        IF n = 0 THEN <<Len(list)>>
        ELSE after[n - 1] \o Record(list[n], Sorted(sets[list[n]]))
  IN  after[Len(list)]

(* getSortedAllParentSet *)
typeInfoArray == Emitted([n \in 1 .. AllTypeNum |-> n - 1], allParents)

(* getSortedAllPhantomSet: only types that have other phantom types.        *)
HasPhantoms(t) == Cardinality(allPhantoms[t]) > 1

typePhantomInfoArray == Emitted(Ascending({t \in Types : HasPhantoms(t)}), allPhantoms)

(* Words are counted from 0.                                                *)
At(array, pos) == array[pos + 1]

NextRecord(array, pos) == pos + At(array, pos + 1) + 2

(* Where the records of an array start, the word behind the last included.  *)
Starts(array) ==
  LET start[n \in 0 .. At(array, 0)] ==
        IF n = 0 THEN 1 ELSE NextRecord(array, start[n - 1])
  IN  start

(* The rule of the first record that has the hash: the loop of              *)
(* emitInstForObjTrace, for a hash that is in the array.                    *)
RulePosition(hash) ==
  LET start == Starts(typeInfoArray)
      n == CHOOSE k \in 0 .. At(typeInfoArray, 0) - 1 :
             /\ At(typeInfoArray, start[k]) = hash
             /\ \A j \in 0 .. k - 1 : At(typeInfoArray, start[j]) # hash
  IN  start[n] + 1

WordsAt(array, pos) == SubSeq(array, pos + 2, pos + 1 + At(array, pos))

(* What __update_phantom_info makes of the array.                           *)
PhantomsRead ==
  LET start == Starts(typePhantomInfoArray)
  IN  {[type |-> At(typePhantomInfoArray, start[n]),
        phantoms |-> Range(WordsAt(typePhantomInfoArray, start[n] + 1))] :
         n \in 0 .. At(typePhantomInfoArray, 0) - 1}
-----------------------------------------------------------------------------
IsAscending(s) == \A j, k \in DOMAIN s : j < k => s[j] < s[k]

(* An object of any type is given a rule that holds the hashes of that      *)
(* type's parents in ascending order, as the binary search of               *)
(* verifyTypeCasting needs them, and the runtime reads back the phantom     *)
(* types of every type that has some: records have no end marks, so one     *)
(* wrong length leads every later look-up to other words.                   *)
TablesReadBack ==
  pc = "done" =>
    /\ \A t \in Types :
         LET rule == WordsAt(typeInfoArray, RulePosition(HashOf[t]))
         IN  Range(rule) = Hashes(allParents[t]) /\ IsAscending(rule)
    /\ PhantomsRead =
         {[type |-> HashOf[t], phantoms |-> Hashes(allPhantoms[t])] :
            t \in {u \in Types : allPhantoms[u] # {u}}}
===============================================================================
