------------------------------ MODULE PhantomInfo ------------------------------
(***************************************************************************)
(* ObjPhantomInfo, the phantom types of every type, as the constructor of  *)
(* each instrumented module extends it through __update_phantom_info.      *)
(* Types share set objects.  A set is named after the type whose record    *)
(* made it: that type is in the map from then on and makes no second set.  *)
(***************************************************************************)
EXTENDS Integers, Sequences

CONSTANTS
  Hash,     \* the type hashes
  Modules,  \* the arrays getSortedAllPhantomSet may emit, as sequences of records
  MaxLoads, \* bound on the number of modules loaded
  None      \* the type is not in the map

Record == [type : Hash, phantoms : SUBSET Hash]

ASSUME HashAssumption == Hash \subseteq Int /\ None \notin Hash
ASSUME ModulesAssumption == Modules \subseteq Seq(Record)
ASSUME LoadsAssumption == MaxLoads \in Nat

VARIABLES
  info,     \* ObjPhantomInfo: a set object for each type it holds
  sets,     \* the contents of the set objects
  records,  \* the records of the array that are still to be read
  type, set, todo,  \* TypeHash, PhantomSet and the hashes left in the record
  pc,       \* "idle", "record" or "inner"
  loads,    \* the number of modules loaded
  known     \* history: the pairs of a type and a phantom type read so far

vars == <<info, sets, records, type, set, todo, pc, loads, known>>

Init ==
  /\ info = [h \in Hash |-> None]
  /\ sets = [h \in Hash |-> {}]
  /\ records = <<>> /\ type = None /\ set = None /\ todo = {}
  /\ pc = "idle" /\ loads = 0 /\ known = {}

BeginLoad(m) ==
  /\ pc = "idle" /\ loads < MaxLoads
  /\ records' = m /\ loads' = loads + 1
  /\ pc' = "record"
  /\ UNCHANGED <<info, sets, type, set, todo, known>>

(* Mutants: a new type gets no set; one set serves every new type. *)
NoNewSet(h) == info[h]
OneSet(h) == IF info[h] = None THEN CHOOSE g \in Hash : TRUE ELSE info[h]

(* The set of type h: a new one, named h, if it has none. *)
SetFor(h) == IF info[h] = None THEN h ELSE info[h]

BeginRecord ==
  /\ pc = "record" /\ records # <<>>
  /\ type' = Head(records).type /\ todo' = Head(records).phantoms
  /\ set' = SetFor(type')
  /\ records' = Tail(records)
  /\ pc' = "inner"
  /\ UNCHANGED <<info, sets, loads, known>>

Contents(h) == IF info[h] = None THEN {} ELSE sets[info[h]]

(* What the current set gains with phantom type p. *)
OwnHashOnly(p) == {p}  \* mutant
Gained(p) == {p} \cup Contents(p)

(* A phantom type that is in the map shares the set from now on. *)
Share(p) == IF info[p] = None THEN info ELSE [info EXCEPT ![p] = set]

(* The next phantom type of the record; a std::set is emitted in ascending  *)
(* order.                                                                   *)
Inner(p) ==
  /\ pc = "inner" /\ p \in todo /\ \A q \in todo : p <= q
  /\ sets' = [sets EXCEPT ![set] = @ \cup Gained(p)]
  /\ info' = Share(p)
  /\ todo' = todo \ {p}
  /\ known' = known \cup {<<type, p>>}
  /\ UNCHANGED <<records, type, set, pc, loads>>

(* Mutant: the new set is not entered. *)
NotEntered ==
  /\ pc = "inner" /\ todo = {}
  /\ type' = None /\ set' = None
  /\ pc' = "record"
  /\ UNCHANGED <<info, sets, records, todo, loads, known>>

EndRecord ==
  /\ pc = "inner" /\ todo = {}
  /\ info' = IF info[type] = None THEN [info EXCEPT ![type] = set] ELSE info
  /\ type' = None /\ set' = None
  /\ pc' = "record"
  /\ UNCHANGED <<sets, records, todo, loads, known>>

EndLoad ==
  /\ pc = "record" /\ records = <<>>
  /\ pc' = "idle"
  /\ UNCHANGED <<info, sets, records, type, set, todo, loads, known>>

Next ==
  \/ \E m \in Modules : BeginLoad(m)
  \/ BeginRecord
  \/ \E p \in Hash : Inner(p)
  \/ EndRecord
  \/ EndLoad

Spec == Init /\ [][Next]_vars
-----------------------------------------------------------------------------
TypeOK ==
  /\ info \in [Hash -> Hash \cup {None}]
  /\ sets \in [Hash -> SUBSET Hash]
  /\ records \in Seq(Record)
  /\ todo \subseteq Hash
  /\ pc \in {"idle", "record", "inner"}
  /\ pc = "inner" => type \in Hash /\ set \in Hash
  /\ loads \in 0..MaxLoads
  /\ known \subseteq Hash \X Hash

(* The phantom types a cast to type h would be checked against, once the    *)
(* record in progress is entered.                                           *)
PhantomsOf(h) == IF pc = "inner" /\ h = type THEN sets[set] ELSE Contents(h)

(* Loading a module takes no phantom type away from a type, although it     *)
(* moves types from one shared set to another (hextype.cc:588-594): a cast  *)
(* that was found to be safe stays so.                                      *)
PhantomsOnlyGrow == [][\A h \in Hash : Contents(h) \subseteq Contents(h)']_vars

(* A phantom type some module named for a type is among that type's phantom *)
(* types, whatever was loaded before and after.                             *)
RecordsHonoured == \A k \in known : k[2] \in PhantomsOf(k[1])

(* Nothing else is: two types become phantoms of each other only along a    *)
(* chain of pairs the modules named.  A class that no pair leaves or enters *)
(* keeps its phantom types to itself.                                       *)
Closed(C) == \A k \in known : k[1] \in C <=> k[2] \in C

PhantomsJustified == \A C \in SUBSET Hash : Closed(C) => \A h \in C : PhantomsOf(h) \subseteq C
===============================================================================
