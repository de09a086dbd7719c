-------------------------------- MODULE Registry --------------------------------
(***************************************************************************)
(* What object tracing promises, without hash table or tree: a partial     *)
(* map from addresses to the information registered for them.  Every       *)
(* operation touches the one address it names.  `last' is the interface:   *)
(* the operation served last, its address and the information it passed in *)
(* or, for a look-up, gave back.  ObjTypeMap is shown to implement this.   *)
(***************************************************************************)
EXTENDS Integers

CONSTANTS Addr,     \* addresses of the program's objects
          Info,     \* what can be registered: records with an `offset' field
          NoInfo    \* the answer for an address that is not registered

VARIABLES reg, last

Unregistered == [a \in Addr |-> NoInfo]

Init == /\ reg = Unregistered
        /\ last = [op |-> "none", addr |-> 0, info |-> NoInfo]

Register(a, info) ==
  /\ reg' = [reg EXCEPT ![a] = info]
  /\ last' = [op |-> "register", addr |-> a, info |-> info]

Forget(a) ==
  /\ reg' = [reg EXCEPT ![a] = NoInfo]
  /\ last' = [op |-> "forget", addr |-> a, info |-> NoInfo]

Find(a) ==
  /\ last' = [op |-> "find", addr |-> a, info |-> reg[a]]
  /\ UNCHANGED reg

Next == \E a \in Addr : Find(a) \/ Forget(a) \/ \E info \in Info : Register(a, info)

Spec == Init /\ [][Next]_<<reg, last>>
===============================================================================
