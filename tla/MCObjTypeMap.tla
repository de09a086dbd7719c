----------------------------- MODULE MCObjTypeMap -----------------------------
(***************************************************************************)
(* An instance of ObjTypeMap.  With Grain = 2 and NumMap = 2 the addresses *)
(* 1, 4 and 5 share slot 0, and 6 is in slot 1.                            *)
(***************************************************************************)
EXTENDS ObjTypeMap

BucketAddresses == {1, 4, 5, 6}
===============================================================================
