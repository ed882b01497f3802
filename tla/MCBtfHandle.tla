---------------------------- MODULE MCBtfHandle ----------------------------
(***************************************************************************)
(* Two type tables for the handles' btf objects.  TableA is natural C for *)
(* x86-64 with the cases where the resolvers could part: an __int128 (its  *)
(* natural alignment 16 is above the pointer size), modifiers and typedefs *)
(* in front of it, a struct through a const, an array, a var and a .data  *)
(* datasec, an enum, and a typedef whose target id is missing.  TableB is  *)
(* malformed: a typedef to itself, a struct and an array holding each      *)
(* other by value, a long double, a union, and a func proto.               *)
(***************************************************************************)
EXTENDS BtfHandle, TLC

Mem(j) == [name |-> "m", type |-> j, bitOff |-> 0, bitSize |-> 0]

TableA ==
  0 :> Ty("Void")
  @@ 1 :> [Ty("Int") EXCEPT !.bits = 128, !.enc = "Signed"]
  @@ 2 :> [Ty("Const") EXCEPT !.ref = 1]
  @@ 3 :> [Ty("Struct") EXCEPT !.size = 32, !.mems = <<Mem(2), [Mem(4) EXCEPT !.bitOff = 128]>>]
  @@ 4 :> [Ty("Ptr") EXCEPT !.ref = 3]
  @@ 5 :> [Ty("Array") EXCEPT !.ref = 1, !.nelems = 2]
  @@ 6 :> [Ty("Var") EXCEPT !.ref = 5]
  @@ 7 :> [Ty("Datasec") EXCEPT !.size = 32, !.mems = <<[type |-> 6, offset |-> 0, size |-> 32]>>]
  @@ 8 :> [Ty("Enum") EXCEPT !.size = 4]
  @@ 9 :> [Ty("Typedef") EXCEPT !.ref = 12]
  @@ 10 :> [Ty("Volatile") EXCEPT !.ref = 3]

TableB ==
  0 :> Ty("Void")
  @@ 1 :> [Ty("Typedef") EXCEPT !.ref = 1]
  @@ 2 :> [Ty("Struct") EXCEPT !.size = 16, !.mems = <<Mem(3)>>]
  @@ 3 :> [Ty("Array") EXCEPT !.ref = 2, !.nelems = 1]
  @@ 4 :> [Ty("Float") EXCEPT !.size = 16]
  @@ 5 :> [Ty("Union") EXCEPT !.size = 16, !.mems = <<Mem(4), Mem(7)>>]
  @@ 6 :> [Ty("FuncProto") EXCEPT !.ref = 4]

MCTables == {TableA, TableB}

=============================================================================
